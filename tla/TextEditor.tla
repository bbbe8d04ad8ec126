------------------------------ MODULE TextEditor ------------------------------
(***************************************************************************)
(* What a line editor promises: the text left and right of the cursor, and *)
(* the lines entered, the oldest first, of which the last Kept are kept.   *)
(* back is the number of lines the user has gone back.                     *)
(***************************************************************************)
EXTENDS Sequences, Integers

CONSTANTS Char, Room, Kept

VARIABLES left, right, log, back

vars == <<left, right, log, back>>

Init == left = <<>> /\ right = <<>> /\ back = 0 /\ Len(log) <= Kept

Fits == Len(left') + Len(right') <= Room

Type(c) == left' = Append(left, c) /\ back' = 0 /\ Fits /\ UNCHANGED <<right, log>>
Erase ==
  /\ left /= <<>> /\ left' = SubSeq(left, 1, Len(left) - 1)
  /\ UNCHANGED <<right, log, back>>
Left ==
  /\ left /= <<>> /\ left' = SubSeq(left, 1, Len(left) - 1)
  /\ right' = <<left[Len(left)]>> \o right /\ UNCHANGED <<log, back>>
Right ==
  /\ right /= <<>> /\ right' = Tail(right)
  /\ left' = Append(left, Head(right)) /\ UNCHANGED <<log, back>>

(* The text is that of the line back lines ago, as it was entered.         *)
Recall(n) ==
  /\ back' = n /\ right' = <<>> /\ UNCHANGED log
  /\ left' = IF n = 0 THEN <<>> ELSE log[Len(log) + 1 - n]
Older == back < Len(log) /\ Recall(back + 1)
Newer == back > 0 /\ Recall(back - 1)

(* A word around the cursor is replaced, what is before and after it is    *)
(* kept; words are what blanks separate.                                   *)
Complete ==
  /\ back' = 0 /\ Fits /\ UNCHANGED log
  /\ \E i \in 0..Len(left), j \in 0..Len(right) :
       /\ \A n \in (i + 1)..Len(left) : left[n] /= " "
       /\ \A n \in 1..j : right[n] /= " "
       /\ i <= Len(left') /\ SubSeq(left', 1, i) = SubSeq(left, 1, i)
       /\ right' = SubSeq(right, j + 1, Len(right))

Enter ==
  /\ left' = <<>> /\ right' = <<>> /\ back' = 0
  /\ LET line == left \o right
         all == Append(log, line)
     IN  log' = IF line = <<>> THEN log
                ELSE IF Len(all) > Kept THEN Tail(all) ELSE all
Interrupt == left' = <<>> /\ right' = <<>> /\ back' = 0 /\ UNCHANGED log

Next ==
  \/ \E c \in Char : Type(c)
  \/ Erase \/ Left \/ Right \/ Older \/ Newer \/ Complete \/ Enter \/ Interrupt
Spec == Init /\ [][Next]_vars
=============================================================================
