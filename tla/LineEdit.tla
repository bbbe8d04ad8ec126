------------------------------- MODULE LineEdit -------------------------------
(***************************************************************************)
(* The line editor of the shell, and the completion it calls.              *)
(***************************************************************************)
EXTENDS SequencesExt, Integers

(***************************************************************************)
(* Tab completion of services/shell/shell.c: the word at the cursor is     *)
(* completed as a command when it is the first, else as a path of the vfs. *)
(* A line is a sequence of characters, pos the number left of the cursor.  *)
(***************************************************************************)

CONSTANTS
  LINE_MAX,      \* buflen
  cmds,          \* the commands' names, in order of registration
  Listing,       \* directory -> what vfs_listdir lists
  MountPaths,    \* vfs_mount_path
  Dirs           \* the paths vfs_stat calls directories

ASSUME CompleteAssumption == LINE_MAX \in Nat \ {0}

shell_is_blank(c) == c \in {" ", "\t"}
Smallest(S) == CHOOSE n \in S : \A m \in S : n <= m
Largest(S) == CHOOSE n \in S : \A m \in S : n >= m

(* The word around the cursor is buf[start + 1 .. end].                    *)
shell_token_at(buf, pos) ==
  [start |-> Largest({0} \union {i \in 1..pos : shell_is_blank(buf[i])}),
   end |-> Smallest({Len(buf)} \union {i - 1 : i \in {j \in (pos + 1)..Len(buf) : shell_is_blank(buf[j])}})]

shell_token_is_first(buf, start) == \A i \in 1..start : shell_is_blank(buf[i])

(* Nothing happens when the line would not fit.                            *)
shell_replace_token(buf, pos, tok, repl) ==
  LET new == SubSeq(buf, 1, tok.start) \o repl \o SubSeq(buf, tok.end + 1, Len(buf))
  IN  IF Len(new) >= LINE_MAX THEN [buf |-> buf, pos |-> pos]
      ELSE [buf |-> new, pos |-> tok.start + Len(repl)]

(* Faulty: the common prefix is that of the first two. *)
CommonPrefix_OfTwo(names) ==
  LET same == {n \in 0..Len(names[1]) : IsPrefix(SubSeq(names[1], 1, n), names[2])}
  IN  SubSeq(names[1], 1, Largest(same))

(* shell_match_update, over all the names that match.                      *)
CommonPrefix(names) ==
  LET same == {n \in 0..Len(names[1]) :
                 \A k \in DOMAIN names : IsPrefix(SubSeq(names[1], 1, n), names[k])}
  IN  SubSeq(names[1], 1, Largest(same))

Matching(names, pfx) == SelectSeq(names, LAMBDA n : IsPrefix(pfx, n))

shell_complete_cmdword(buf, pos, tok) ==
  LET pfx == SubSeq(buf, tok.start + 1, tok.end)
      found == Matching(cmds, pfx)
      same == [buf |-> buf, pos |-> pos]
      new == CASE Len(found) = 1 -> shell_replace_token(buf, pos, tok, found[1] \o <<" ">>)
               [] Len(found) > 1 /\ Len(CommonPrefix(found)) > Len(pfx) ->
                    shell_replace_token(buf, pos, tok, CommonPrefix(found))
               [] OTHER -> same
  IN  [text |-> new, matches |-> Len(found)]

(* The part of a path behind its last slash, and the directory before it.  *)
SplitPath(path) ==
  LET slashes == {i \in DOMAIN path : path[i] = "/"}
      last == IF slashes = {} THEN 0 ELSE Largest(slashes)
  IN  [dir |-> IF last <= 1 THEN <<"/">> ELSE SubSeq(path, 1, last - 1),
       pfx |-> SubSeq(path, last + 1, Len(path))]

(* The name of mount point mnt in dir, or nothing if it is not there.      *)
shell_mount_child(dir, mnt) ==
  LET skip == IF dir = <<"/">> THEN 1 ELSE Len(dir) + 1
      rest == SubSeq(mnt, skip + 1, Len(mnt))
      below == IF dir = <<"/">> THEN mnt /= <<>> /\ mnt[1] = "/" ELSE IsPrefix(dir \o <<"/">>, mnt)
  IN  IF below /\ "/" \notin ToSet(rest) THEN rest ELSE <<>>

(* vfs_listdir's names, then those of the mount points.                    *)
NamesIn(dir) ==
  (IF dir \in DOMAIN Listing THEN Listing[dir] ELSE <<>>)
  \o SelectSeq([i \in DOMAIN MountPaths |-> shell_mount_child(dir, MountPaths[i])],
               LAMBDA n : n /= <<>>)

Under(dir, name) == (IF dir = <<"/">> THEN dir ELSE dir \o <<"/">>) \o name

shell_complete_path(buf, pos, tok) ==
  LET at == SplitPath(SubSeq(buf, tok.start + 1, tok.end))
      found == Matching(NamesIn(at.dir), at.pfx)
      only == Under(at.dir, found[1])
      new == CASE Len(found) = 1 ->
                    shell_replace_token(buf, pos, tok, IF only \in Dirs THEN only \o <<"/">> ELSE only)
               [] Len(found) > 1 /\ Len(CommonPrefix(found)) > Len(at.pfx) ->
                    shell_replace_token(buf, pos, tok, Under(at.dir, CommonPrefix(found)))
               [] OTHER -> [buf |-> buf, pos |-> pos]
  IN  [text |-> new, matches |-> Len(found)]

shell_complete_cmds(buf, pos) ==
  LET tok == shell_token_at(buf, pos)
  IN  IF shell_token_is_first(buf, tok.start) THEN shell_complete_cmdword(buf, pos, tok)
      ELSE shell_complete_path(buf, pos, tok)

(* What the word at the cursor may still become.                           *)
Candidates(buf, pos) ==
  LET tok == shell_token_at(buf, pos)
      word == SubSeq(buf, tok.start + 1, tok.end)
      at == SplitPath(word)
  IN  IF shell_token_is_first(buf, tok.start) THEN ToSet(Matching(cmds, word))
      ELSE {Under(at.dir, n) : n \in ToSet(Matching(NamesIn(at.dir), at.pfx))}

-----------------------------------------------------------------------------
(***************************************************************************)
(* services/shell/lineedit.c: lineedit_read, one byte at a time, and the   *)
(* ring of lines entered.  What it prints is left out.                     *)
(***************************************************************************)

CONSTANTS
  Printable,        \* 0x20 .. 0x7e
  SHELL_HIST_MAX

ASSUME LineEditAssumption == SHELL_HIST_MAX \in Nat \ {0}

VARIABLES
  ed,               \* the line: [buf, pos, nav, tab, esc]
  hist,             \* the ring
  hist_count,
  hist_head         \* the next to write

editvars == <<ed, hist, hist_count, hist_head>>
ring == <<hist, hist_count, hist_head>>

(* esc: the bytes read of an escape sequence; "[" when the first was.      *)
NewLine == [buf |-> <<>>, pos |-> 0, nav |-> 0, tab |-> FALSE, esc |-> "no"]

hist_push(line) ==
  IF line = <<>> THEN UNCHANGED ring
  ELSE /\ hist' = [hist EXCEPT ![hist_head] = line]
       /\ hist_head' = (hist_head + 1) % SHELL_HIST_MAX
       /\ hist_count' = IF hist_count < SHELL_HIST_MAX THEN hist_count + 1 ELSE hist_count

(* Faulty: the index is not brought back into the ring. *)
hist_get_NoWrap(back) ==
  LET idx == hist_head - back
  IN  hist[IF idx < 0 THEN 0 ELSE idx]

(* The line entered back lines ago, 1..hist_count.                         *)
hist_get(back) ==
  LET idx == hist_head - back
  IN  hist[IF idx < 0 THEN idx + SHELL_HIST_MAX ELSE idx]

(* Any byte but tab ends what a tab began.                                 *)
Edits(e) == ed' = [e EXCEPT !.tab = FALSE] /\ UNCHANGED ring
Shows(e, line) == LET s == SubSeq(line, 1, IF Len(line) < LINE_MAX THEN Len(line) ELSE LINE_MAX - 1)
                  IN  [e EXCEPT !.buf = s, !.pos = Len(s)]
Byte == ed.esc = "no"

(* A line that is full takes no more.                                      *)
key_char(c) ==
  /\ Byte /\ c \in Printable
  /\ Edits(IF Len(ed.buf) + 1 >= LINE_MAX THEN ed
           ELSE [ed EXCEPT !.buf = SubSeq(@, 1, ed.pos) \o <<c>> \o SubSeq(@, ed.pos + 1, Len(@)),
                           !.pos = @ + 1, !.nav = 0])

key_backspace ==
  /\ Byte
  /\ Edits(IF ed.pos = 0 THEN ed
           ELSE [ed EXCEPT !.buf = SubSeq(@, 1, ed.pos - 1) \o SubSeq(@, ed.pos + 1, Len(@)),
                           !.pos = @ - 1])

(* Tab: tab is remembered when more than one name matched.                 *)
key_tab ==
  /\ Byte
  /\ LET r == shell_complete_cmds(ed.buf, ed.pos)
     IN  ed' = [ed EXCEPT !.buf = r.text.buf, !.pos = r.text.pos, !.nav = 0, !.tab = r.matches > 1]
  /\ UNCHANGED ring

(* Enter: the line goes into the ring, and a new lineedit_read begins.     *)
key_enter ==
  /\ Byte
  /\ hist_push(ed.buf)
  /\ ed' = NewLine

(* Ctrl-C: an empty line is returned.                                      *)
key_ctrl_c ==
  /\ Byte
  /\ ed' = NewLine /\ UNCHANGED ring

(* Escape, and the first byte behind it.                                   *)
key_escape ==
  /\ Byte
  /\ Edits([ed EXCEPT !.esc = "first"])
key_escape_first ==
  /\ ed.esc = "first"
  /\ \E b \in {"[", "other"} : Edits([ed EXCEPT !.esc = b])

(* Up and down walk through the ring; down from the last one empties.      *)
key_up ==
  /\ ed.esc = "["
  /\ LET back == ed.nav + 1
         e == [ed EXCEPT !.esc = "no"]
     IN  Edits(IF back > hist_count THEN e ELSE Shows([e EXCEPT !.nav = back], hist_get(back)))
key_down ==
  /\ ed.esc = "["
  /\ LET back == ed.nav - 1
         e == [ed EXCEPT !.esc = "no"]
     IN  Edits(CASE ed.nav <= 0 -> e
                 [] back = 0 -> [e EXCEPT !.nav = 0, !.buf = <<>>, !.pos = 0]
                 [] back >= 1 -> Shows([e EXCEPT !.nav = back], hist_get(back)))
key_right ==
  /\ ed.esc = "["
  /\ Edits([ed EXCEPT !.esc = "no", !.pos = IF @ < Len(ed.buf) THEN @ + 1 ELSE @])
key_left ==
  /\ ed.esc = "["
  /\ Edits([ed EXCEPT !.esc = "no", !.pos = IF @ > 0 THEN @ - 1 ELSE @])

(* Any other sequence is dropped.                                          *)
key_escape_other ==
  /\ ed.esc \in {"[", "other"}
  /\ Edits([ed EXCEPT !.esc = "no"])

EditStep ==
  \/ \E c \in Printable : key_char(c)
  \/ key_backspace \/ key_tab \/ key_ctrl_c
  \/ key_escape \/ key_escape_first \/ key_escape_other
  \/ key_up \/ key_down \/ key_left \/ key_right
=============================================================================
