------------------------------ MODULE ShellParse ------------------------------
(***************************************************************************)
(* From the text of a line to the words of its commands: the variables     *)
(* (shell_var.c), and the parser (shell_parse.c).                          *)
(***************************************************************************)
EXTENDS SequencesExt, Integers

(***************************************************************************)
(* services/shell/shell_var.c: a table of variables with holes.  A text is *)
(* a sequence of characters, a character a short string.                   *)
(***************************************************************************)

CONSTANTS
  Letter,            \* the characters a name may begin with
  Digit,             \* the others it may have
  SHELL_VAR_MAX,
  SHELL_VAR_NAME,    \* size of a name's buffer
  SHELL_VAR_VAL

ASSUME ShellVarAssumption ==
  /\ Letter \intersect Digit = {}
  /\ SHELL_VAR_MAX \in Nat \ {0} /\ SHELL_VAR_NAME \in Nat \ {0} /\ SHELL_VAR_VAL \in Nat \ {0}

Upto(s, n) == SubSeq(s, 1, IF Len(s) < n THEN Len(s) ELSE n)
LeastOf(S) == CHOOSE n \in S : \A m \in S : n <= m

Slot == 1..SHELL_VAR_MAX
FreeVar == [used |-> FALSE, name |-> <<>>, val |-> <<>>]

ValidName(name) ==
  /\ name /= <<>> /\ name[1] \in Letter
  /\ ToSet(name) \subseteq Letter \union Digit
  /\ Len(name) < SHELL_VAR_NAME

Named(g_vars, name) == {i \in Slot : g_vars[i].used /\ g_vars[i].name = name}
Unused(g_vars) == {i \in Slot : ~g_vars[i].used}

(* Faulty: the first hole is taken before the rest of the table is seen.   *)
shell_var_set_FirstHole(g_vars, name, val) ==
  LET at == {i \in Slot : ~g_vars[i].used \/ g_vars[i].name = name}
  IN  IF ~ValidName(name) \/ at = {} THEN [ok |-> FALSE, vars |-> g_vars]
      ELSE [ok |-> TRUE, vars |-> [g_vars EXCEPT ![LeastOf(at)] =
              [used |-> TRUE, name |-> name, val |-> Upto(val, SHELL_VAR_VAL - 1)]]]

(* Faulty: when there is no hole, the first slot counts as one. *)
shell_var_set_Evicts(g_vars, name, val) ==
  LET holes == IF Unused(g_vars) = {} THEN {1} ELSE Unused(g_vars)
      at == IF Named(g_vars, name) /= {} THEN Named(g_vars, name) ELSE holes
  IN  IF ~ValidName(name) THEN [ok |-> FALSE, vars |-> g_vars]
      ELSE [ok |-> TRUE, vars |-> [g_vars EXCEPT ![LeastOf(at)] =
              [used |-> TRUE, name |-> name, val |-> Upto(val, SHELL_VAR_VAL - 1)]]]

(* The slot with the name, wherever the holes are; else the first hole.    *)
shell_var_set(g_vars, name, val) ==
  LET at == IF Named(g_vars, name) /= {} THEN Named(g_vars, name) ELSE Unused(g_vars)
  IN  IF ~ValidName(name) \/ at = {} THEN [ok |-> FALSE, vars |-> g_vars]
      ELSE [ok |-> TRUE, vars |-> [g_vars EXCEPT ![LeastOf(at)] =
              [used |-> TRUE, name |-> name, val |-> Upto(val, SHELL_VAR_VAL - 1)]]]

shell_var_unset(g_vars, name) ==
  LET at == Named(g_vars, name)
  IN  IF at = {} THEN [ok |-> FALSE, vars |-> g_vars]
      ELSE [ok |-> TRUE, vars |-> [g_vars EXCEPT ![LeastOf(at)] = FreeVar]]

(* The value; a variable that is not set reads as nothing.                 *)
shell_var_get(g_vars, name) ==
  LET at == Named(g_vars, name)
  IN  IF at = {} THEN <<>> ELSE g_vars[LeastOf(at)].val

-----------------------------------------------------------------------------
(***************************************************************************)
(* services/shell/shell_parse.c, character by character: comments, the     *)
(* segments of a line, the expansion of variables, and words.  && and ||   *)
(* are one character here.  The scans are functions of the position.       *)
(***************************************************************************)

CONSTANTS
  SHELL_LINE_MAX,    \* size of a line's buffer
  SHELL_MAX_ARGS

ASSUME ShellParseAssumption ==
  SHELL_LINE_MAX \in Nat \ {0} /\ SHELL_MAX_ARGS \in Nat \ {0}

Quote == {"'", "\""}
Blank == {" ", "\t"}
Separator == {";", "&&", "||"}
From(s, i) == SubSeq(s, i, Len(s))

(* The first position of s at or after i with the property P, or the end.  *)
Scan(s, i, P(_)) ==
  LeastOf({j \in i..Len(s) : P(s[j])} \union {IF i > Len(s) THEN i ELSE Len(s) + 1})

(* The quote that is open before each position.                            *)
OpenQuote(s) ==
  LET q[i \in 1..(Len(s) + 1)] ==
        IF i = 1 THEN ""
        ELSE CASE q[i - 1] /= "" /\ s[i - 1] = q[i - 1] -> ""
               [] q[i - 1] = "" /\ s[i - 1] \in Quote -> s[i - 1]
               [] OTHER -> q[i - 1]
  IN  q

strip_comment(s) ==
  LET hash == {i \in DOMAIN s : s[i] = "#" /\ OpenQuote(s)[i] = ""}
  IN  IF hash = {} THEN s ELSE SubSeq(s, 1, LeastOf(hash) - 1)

(* Faulty: a separator counts inside quotes too. *)
Cuts_Anywhere(s) == {i \in DOMAIN s : s[i] \in Separator}

(* The separators of a line are those outside quotes.                      *)
Cuts(s) == {i \in DOMAIN s : s[i] \in Separator /\ OpenQuote(s)[i] = ""}

(* The segments of a line, each with the separator before it.              *)
Segments(s) ==
  LET cuts == SetToSortSeq({0} \union Cuts(s), LAMBDA a, b : a < b)
      Stop(n) == IF n = Len(cuts) THEN Len(s) ELSE cuts[n + 1] - 1
  IN  [n \in DOMAIN cuts |->
         [op |-> IF n = 1 THEN ";" ELSE s[cuts[n]], text |-> SubSeq(s, cuts[n] + 1, Stop(n))]]

(* $NAME, ${NAME}: where the reference at position i ends, and its name,   *)
(* cut to the size of its buffer, which leaves the rest in the text.       *)
Reference(s, i) ==
  LET brace == i < Len(s) /\ s[i + 1] = "{"
      from == IF brace THEN i + 2 ELSE i + 1
      stop == Scan(s, from, LAMBDA c : IF brace THEN c = "}" ELSE c \notin Letter \union Digit)
      end == LeastOf({stop, from + SHELL_VAR_NAME - 1})
  IN  [name |-> SubSeq(s, from, end - 1),
       next |-> IF brace /\ end <= Len(s) /\ s[end] = "}" THEN end + 1 ELSE end,
       there |-> brace \/ (i < Len(s) /\ s[i + 1] \in Letter)]

(* Faulty: references are replaced inside single quotes too. *)
expand_vars_InQuotes(g_vars, s) ==
  LET e[i \in 1..(Len(s) + 1)] ==
        IF i > Len(s) THEN <<>>
        ELSE IF s[i] = "$" /\ Reference(s, i).there
             THEN shell_var_get(g_vars, Reference(s, i).name) \o e[Reference(s, i).next]
             ELSE <<s[i]>> \o e[i + 1]
  IN  Upto(e[1], SHELL_LINE_MAX - 1)

(* References are replaced outside single quotes; of a single-quoted part  *)
(* the opening quote is copied and the closing one is not.                 *)
expand_vars(g_vars, s) ==
  LET e[i \in 1..(Len(s) + 1), q \in Quote \union {""}] ==
        IF i > Len(s) THEN <<>>
        ELSE CASE q = "'" /\ s[i] = "'" -> e[i + 1, ""]
               [] q = "'" /\ s[i] /= "'" -> <<s[i]>> \o e[i + 1, q]
               [] q = "" /\ s[i] \in Quote -> <<s[i]>> \o e[i + 1, s[i]]
               [] q = "\"" /\ s[i] = q -> <<s[i]>> \o e[i + 1, ""]
               [] q /= "'" /\ s[i] = "$" /\ Reference(s, i).there ->
                    shell_var_get(g_vars, Reference(s, i).name) \o e[Reference(s, i).next, q]
               [] OTHER -> <<s[i]>> \o e[i + 1, q]
  IN  Upto(e[1, ""], SHELL_LINE_MAX - 1)

(* A word that begins with a quote ends at the next one like it.  Another  *)
(* ends at a blank, or at a quote, and then the rest of the text is lost.  *)
tokenize(s) ==
  LET t[i \in 1..(Len(s) + 2)] ==
        LET b == Scan(s, i, LAMBDA c : c \notin Blank)
        IN  IF b > Len(s) THEN <<>>
            ELSE IF s[b] \in Quote
                 THEN LET stop == Scan(s, b + 1, LAMBDA c : c = s[b])
                      IN  <<SubSeq(s, b + 1, stop - 1)>> \o t[stop + 1]
                 ELSE LET stop == Scan(s, b, LAMBDA c : c \in Blank \union Quote)
                      IN  IF stop <= Len(s) /\ s[stop] \in Quote
                          THEN <<SubSeq(s, b, stop - 1)>>
                          ELSE <<SubSeq(s, b, stop - 1)>> \o t[stop + 1]
  IN  Upto(t[1], SHELL_MAX_ARGS)

(* NAME=value: where the = is, or 0.                                       *)
is_assign(tok) ==
  LET eq == Scan(tok, 1, LAMBDA c : c = "=")
  IN  IF eq <= Len(tok) /\ ValidName(SubSeq(tok, 1, eq - 1)) THEN eq ELSE 0
=============================================================================
