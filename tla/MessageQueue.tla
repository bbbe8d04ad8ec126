---------------------------- MODULE MessageQueue ----------------------------
(***************************************************************************)
(* What a kernel mailbox promises: the messages of a box come out first to *)
(* last, or by priority and first to last within one priority.  There are  *)
(* no links between messages here, and no waiting tasks.                   *)
(***************************************************************************)
EXTENDS Integers, SequencesExt

CONSTANTS Box, Msg, Msgpri

VARIABLES queue,    \* the messages in every box, the next one first
          bypri     \* the boxes that order by priority

vars == <<queue, bypri>>

Init ==
  /\ queue = [o \in Box |-> <<>>]
  /\ bypri = {}

(* A message is behind those that came before it, but for the less urgent. *)
Put(o, m) ==
  \E i \in 1..Len(queue[o]) + 1 :
    /\ queue' = [queue EXCEPT ![o] = InsertAt(@, i, m)]
    /\ \A j \in 1..(i - 1) : o \in bypri => Msgpri[queue[o][j]] <= Msgpri[m]
    /\ \A j \in i..Len(queue[o]) : o \in bypri /\ Msgpri[queue[o][j]] > Msgpri[m]
    /\ UNCHANGED bypri

Get(o) ==
  /\ queue[o] # <<>>
  /\ queue' = [queue EXCEPT ![o] = Tail(@)]
  /\ UNCHANGED bypri

(* A box is made, or it is deleted with the messages it has. *)
Make(o) ==
  /\ queue' = [queue EXCEPT ![o] = <<>>]
  /\ bypri' \in {bypri, bypri \union {o}, bypri \ {o}}

Next == \E o \in Box : Get(o) \/ Make(o) \/ \E m \in Msg : Put(o, m)

Spec == Init /\ [][Next]_vars
=============================================================================
