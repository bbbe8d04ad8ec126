------------------------------- MODULE Console --------------------------------
(***************************************************************************)
(* The shell task at its prompt: what runs a line, and the loop around it. *)
(***************************************************************************)
EXTENDS LineEdit, ShellParse

(***************************************************************************)
(* shell_exec_line and run_segment of shell_parse.c, and set and unset of  *)
(* shell.c, one word at a time.  Another command succeeds or fails.        *)
(***************************************************************************)

CONSTANTS SetWord, UnsetWord    \* the names of cmd_set and cmd_unset

VARIABLES
  g_vars,     \* the table of variables
  exec        \* shell_exec_line under way: [pc, segs, st, text, argv]

execvars == <<g_vars, exec>>

NoExec == [pc |-> "idle", segs |-> <<>>, st |-> 0, text |-> <<>>, argv |-> <<>>]

PC(pc) == exec.pc = pc
SegmentDone(st) == exec' = [exec EXCEPT !.pc = "seg", !.st = st, !.text = <<>>, !.argv = <<>>]

StartLine(line) ==
  [NoExec EXCEPT !.pc = "seg", !.segs = Segments(strip_comment(Upto(line, SHELL_LINE_MAX - 1)))]

Trimmed(s) == From(s, Scan(s, 1, LAMBDA c : c \notin Blank))

(* What the separator before a segment and the last status say of it.      *)
RunNext(op, st) ==
  CASE op = ";" -> TRUE [] op = "&&" -> st = 0 [] op = "||" -> st /= 0

(* A segment that is blank or is not to run leaves the status alone.       *)
PassSegment ==
  /\ PC("seg") /\ exec.segs /= <<>>
  /\ ~RunNext(Head(exec.segs).op, exec.st) \/ Trimmed(Head(exec.segs).text) = <<>>
  /\ exec' = [exec EXCEPT !.segs = Tail(@)]
  /\ UNCHANGED g_vars

(* run_segment: the words of the segment, its variables expanded.          *)
RunSegment ==
  /\ PC("seg") /\ exec.segs /= <<>>
  /\ RunNext(Head(exec.segs).op, exec.st)
  /\ LET text == Trimmed(Head(exec.segs).text)
     IN  /\ text /= <<>>
         /\ exec' = [exec EXCEPT !.pc = "words", !.segs = Tail(@), !.text = text,
                                 !.argv = tokenize(expand_vars(g_vars, text))]
  /\ UNCHANGED g_vars

EndLine ==
  /\ PC("seg") /\ exec.segs = <<>>
  /\ exec' = NoExec
  /\ UNCHANGED g_vars

Reading == PC("words") \/ PC("assign")
Word == Head(exec.argv)

(* Leading assignments; a full table or a bad name is ignored.             *)
Assign ==
  /\ Reading /\ exec.argv /= <<>> /\ is_assign(Word) > 0
  /\ LET eq == is_assign(Word)
     IN  g_vars' = shell_var_set(g_vars, SubSeq(Word, 1, eq - 1), From(Word, eq + 1)).vars
  /\ exec' = [exec EXCEPT !.pc = "assign", !.argv = Tail(@)]

OnlyAssignments ==
  /\ Reading /\ exec.argv = <<>>
  /\ SegmentDone(0)
  /\ UNCHANGED g_vars

IsCommand(name) == Reading /\ exec.argv /= <<>> /\ is_assign(Word) = 0 /\ Word = name

(* shell_run_argv: cmd_set and cmd_unset go through their arguments ...    *)
BeginArgs ==
  /\ \/ /\ IsCommand(SetWord)
        /\ exec' = [exec EXCEPT !.pc = "set", !.argv = Tail(@)]
     \/ /\ IsCommand(UnsetWord) /\ Len(exec.argv) >= 2
        /\ exec' = [exec EXCEPT !.pc = "unset", !.argv = Tail(@)]
     \/ /\ IsCommand(UnsetWord) /\ Len(exec.argv) < 2
        /\ SegmentDone(-1)
  /\ UNCHANGED g_vars

(* ... and another command, or an unknown one, does not touch variables.   *)
OtherCommand ==
  /\ Reading /\ exec.argv /= <<>> /\ is_assign(Word) = 0 /\ Word \notin {SetWord, UnsetWord}
  /\ \E st \in {0, -1} : SegmentDone(st)
  /\ UNCHANGED g_vars

(* The first argument that is no NAME=value, or finds no slot, ends it.    *)
cmd_set ==
  /\ PC("set") /\ exec.argv /= <<>>
  /\ LET eq == Scan(Word, 1, LAMBDA c : c = "=")
         r == shell_var_set(g_vars, SubSeq(Word, 1, eq - 1), From(Word, eq + 1))
     IN  IF eq \in 2..Len(Word) /\ r.ok
         THEN g_vars' = r.vars /\ exec' = [exec EXCEPT !.argv = Tail(@)]
         ELSE SegmentDone(-1) /\ UNCHANGED g_vars

cmd_unset ==
  /\ PC("unset") /\ exec.argv /= <<>>
  /\ LET r == shell_var_unset(g_vars, Word)
     IN  /\ g_vars' = r.vars
         /\ IF r.ok THEN exec' = [exec EXCEPT !.argv = Tail(@)] ELSE SegmentDone(-1)

ArgsDone ==
  /\ PC("set") \/ PC("unset")
  /\ exec.argv = <<>>
  /\ SegmentDone(0)
  /\ UNCHANGED g_vars

ExecStep ==
  \/ PassSegment \/ RunSegment \/ EndLine \/ Assign \/ OnlyAssignments
  \/ BeginArgs \/ OtherCommand \/ cmd_set \/ cmd_unset \/ ArgsDone

------------------------------------------------------------------------------
(* What the words of a segment should be, where quoted words stand alone   *)
(* and a single-quoted one ends the text.  Gap: the blanks between words.    *)
Gap(s) == {i \in DOMAIN s : s[i] \in Blank /\ OpenQuote(s)[i] = ""}
WordsOf(s) ==
  LET begin == {i \in DOMAIN s \ Gap(s) : i = 1 \/ i - 1 \in Gap(s)}
      End(i) == LeastOf({j \in i..Len(s) : j = Len(s) \/ j + 1 \in Gap(s)})
      order == SetToSortSeq(begin, LAMBDA a, b : a < b)
  IN  [n \in DOMAIN order |-> SubSeq(s, order[n], End(order[n]))]

Quoted(w, q) == Len(w) >= 2 /\ w[1] = q /\ w[Len(w)] = q
Inside(w) == SubSeq(w, 2, Len(w) - 1)
Plain(w) == ToSet(w) \intersect Quote = {}
StandsAlone(w) ==
  \/ Plain(w)
  \/ \E q \in Quote : Quoted(w, q) /\ Plain(Inside(w))

Regular(vars, s) ==
  LET ws == WordsOf(s)
  IN  /\ \A n \in DOMAIN ws : StandsAlone(ws[n])
      /\ \A n \in DOMAIN ws : Quoted(ws[n], "'") => n = Len(ws) /\ Last(s) = "'"
      /\ \A i \in Slot : ToSet(vars[i].val) \intersect (Blank \union Quote) = {}
      /\ Len(expand_vars(vars, s)) < SHELL_LINE_MAX - 1
      /\ Len(ws) <= SHELL_MAX_ARGS

Value(vars, w) ==
  CASE Quoted(w, "'") -> Inside(w)
    [] Quoted(w, "\"") -> expand_vars(vars, Inside(w))
    [] OTHER -> expand_vars(vars, w)

(* An unquoted word that expands to nothing is no argument.                *)
ArgumentsOf(vars, s) ==
  LET ws == WordsOf(s)
      kept == SelectSeq([n \in DOMAIN ws |-> n],
                        LAMBDA n : ~Plain(ws[n]) \/ Value(vars, ws[n]) /= <<>>)
  IN  [k \in DOMAIN kept |-> Value(vars, ws[kept[k]])]

-----------------------------------------------------------------------------
(***************************************************************************)
(* The prompt: module LineEdit reads a line, shell_exec_line runs it.  A   *)
(* line of a script comes from cmd_source instead.                         *)
(***************************************************************************)

CONSTANTS
  Entered,        \* the lines the user ends with Enter
  ScriptLines,    \* the lines of scripts
  InitVars        \* tables of variables to begin with

ASSUME ConsoleAssumption == <<>> \in Entered /\ LINE_MAX <= SHELL_LINE_MAX

VARIABLE script   \* "none", or a script's line that comes "next" or is "done"

vars == <<editvars, execvars, script>>

Init ==
  /\ ed = NewLine
  /\ hist = [i \in 0..(SHELL_HIST_MAX - 1) |-> <<>>] /\ hist_count = 0 /\ hist_head = 0
  /\ exec = NoExec
  /\ \/ script = "none" /\ g_vars = [i \in Slot |-> FreeVar]
     \/ script = "next" /\ g_vars \in InitVars

Key ==
  /\ PC("idle") /\ script = "none" /\ EditStep
  /\ UNCHANGED <<execvars, script>>

(* shell_task: an empty line is not run.                                   *)
EnterLine ==
  /\ PC("idle") /\ script /= "next" /\ ed.buf \in Entered
  /\ key_enter
  /\ exec' = IF ed.buf = <<>> THEN NoExec ELSE StartLine(ed.buf)
  /\ UNCHANGED <<g_vars, script>>

SourceLine ==
  /\ PC("idle") /\ script = "next" /\ script' = "done"
  /\ \E line \in ScriptLines : exec' = StartLine(line)
  /\ UNCHANGED <<editvars, g_vars>>

Next ==
  \/ Key \/ EnterLine \/ SourceLine
  \/ ExecStep /\ UNCHANGED <<editvars, script>>
Spec == Init /\ [][Next]_vars

------------------------------------------------------------------------------
(* The editor's cursor is in its line, the line in its buffer; the table   *)
(* holds no name twice, so that unset removes a variable.                  *)
TypeOK ==
  /\ ed.pos \in 0..Len(ed.buf) /\ Len(ed.buf) < LINE_MAX
  /\ ed.nav \in 0..hist_count /\ hist_head \in 0..(SHELL_HIST_MAX - 1)
  /\ \A i, j \in Slot : g_vars[i].used /\ g_vars[j].used /\ i /= j => g_vars[i].name /= g_vars[j].name
  /\ Len(exec.argv) <= SHELL_MAX_ARGS

(* lineedit_read edits as a line editor does, whatever comes in between:   *)
(* arrows, a recall from the ring as it wraps, a completion.               *)
Entry(n) == LET idx == (hist_head + SHELL_HIST_MAX - hist_count + n - 1) % SHELL_HIST_MAX IN hist[idx]
Editor == INSTANCE TextEditor WITH
  left <- SubSeq(ed.buf, 1, ed.pos), right <- SubSeq(ed.buf, ed.pos + 1, Len(ed.buf)),
  log <- [n \in 1..hist_count |-> Entry(n)], back <- ed.nav,
  Char <- Printable, Room <- LINE_MAX - 1, Kept <- SHELL_HIST_MAX
EditorSpec == Editor!Spec

(* shell_match_update: a completion to a common prefix rules no candidate  *)
(* out and none in.                                                        *)
CompletionKeepsAll ==
  [][ed'.tab /\ ed'.buf /= ed.buf => Candidates(ed'.buf, ed'.pos) = Candidates(ed.buf, ed.pos)]_vars

(* shell_var.c: the table with its holes is a map from names to values.    *)
Table == INSTANCE VarTable WITH
  map <- [n \in {g_vars[i].name : i \in {j \in Slot : g_vars[j].used}} |-> shell_var_get(g_vars, n)],
  Name <- UNION {[1..n -> Letter \union Digit] : n \in 1..(SHELL_VAR_NAME - 1)},
  Val <- UNION {[1..n -> Printable \union Quote \union Separator \union Letter \union {"=", "$", "{", "}", "#"}] :
                n \in 0..(SHELL_VAR_VAL - 1)},
  Limit <- SHELL_VAR_MAX
VarSpec == Table!Spec

(* shell_exec_line: no segment begins or ends inside quotes, so that no    *)
(* quoted separator or comment takes effect.                               *)
SegmentsBalanced ==
  \A n \in 1..(Len(exec.segs) - 1) :
    LET text == exec.segs[n].text IN OpenQuote(text)[Len(text) + 1] = ""

(* expand_vars and tokenize together: where quoted words stand alone, the  *)
(* command gets the words as they are written, quotes removed, variables   *)
(* replaced outside single quotes.                                         *)
WordsAsWritten ==
  PC("words") /\ Regular(g_vars, exec.text) => exec.argv = ArgumentsOf(g_vars, exec.text)

(* "Single-quoted segments are copied raw": not only where they are last.  *)
SingleQuotesRaw ==
  LET ws == WordsOf(exec.text)
  IN  PC("words") /\ (\A n \in DOMAIN ws : StandsAlone(ws[n])) /\ ToSet(exec.text) \intersect {"$"} = {}
        => exec.argv = ArgumentsOf(g_vars, exec.text)

(* A command is called with the words that were written, whatever is quoted,*)
(* expanded, commented out or separated (shell_parse.c).                   *)
WordsExact == TypeOK /\ SegmentsBalanced /\ WordsAsWritten

(* The line is edited as a line is, and completion never takes a choice away*)
(* (lineedit.c, shell_complete_cmds).                                      *)
LineEdited == EditorSpec /\ CompletionKeepsAll

-----------------------------------------------------------------------------
(* Instances for TLC.  The user types s, x, a blank and a slash into a     *)
(* line of five characters; scripts have all short lines of the characters *)
(* the parser treats in a way of their own.                                *)
SetName == <<"s">>
UnsetName == <<"s", "x">>
Keys == {"s", "x", " ", "/"}
Commands == <<<<"s">>, <<"s", "x">>, <<"x", "s", "s">>>>
Root == <<"/">>
Names == (Root :> <<<<"s", "x">>, <<"x", "x">>>>) @@ (<<"/", "s", "x">> :> <<<<"x", "s">>>>)
Mounts == <<Root, <<"/", "s", "x", "s">>, <<"/", "s", "x", "/", "s">>>>
Directories == {Root, <<"/", "s", "x">>, <<"/", "s", "x", "s">>}
Lines3 == {<<>>, <<"s">>, <<"s", " ", "x">>, <<"x", "/">>}

Strings(A, n) == UNION {[1..m -> A] : m \in 0..n}
Alphabet == {"x", "s", "=", "$", "'", "\"", " ", ";"}
LongLines ==
  {<<"s", " ", "x", "=", "s", " ", "s", "=", "x">>,
   <<"s", " ", "x", "=", "s", " ", "x">>,
   <<"s", "x", " ", "x", ";", "x", "=", "x", ";", "s", "x", " ", "x">>,
   <<"s", "x", " ", "s", " ", "x", "&&", "x", "||", "s">>,
   <<"$", "{", "x", "}", "s", " ", "$", "x", "s">>,
   <<"x", " ", "'", "$", "x", "'">>,
   <<"'", "#", ";", "'", "#", "x", ";">>,
   <<"x", " ", "\"", "s", ";", "$", "x", "\"", " ", "s">>,
   <<"x", " ", "x", " ", "x", " ", "x">>,
   <<"x", "=", "s", "||", "s", "=", "x", "&&", " ", " ", ";", "x", "s", "=", "s">>}
Scripts == Strings(Alphabet, 4) \union LongLines

Var(name, val) == [used |-> TRUE, name |-> name, val |-> val]
Tables == {<<Var(<<"s">>, <<"x">>), Var(<<"x">>, <<"s">>)>>, <<FreeVar, Var(<<"x">>, <<" ">>)>>}
=============================================================================
