---------------------------- MODULE PriorityFifo ----------------------------
(***************************************************************************)
(* What the scheduler promises: tasks of one priority take the processor   *)
(* in the order they became ready, and the processor always goes to the    *)
(* first task of the highest priority that has one.  There is no bitmap,   *)
(* no cached top and no incremental update of the choice here.             *)
(***************************************************************************)
EXTENDS Integers, SequencesExt

CONSTANTS Task, NoTask, Pri

VARIABLES line,    \* the ready tasks of every priority, in order of arrival
          chosen   \* the task the processor goes to

vars == <<line, chosen>>

Ready == {t \in Task : \E p \in Pri : t \in ToSet(line[p])}

Choice(l) ==
  LET some == {p \in Pri : l[p] # <<>>}
  IN  IF some = {} THEN NoTask
      ELSE Head(l[CHOOSE p \in some : \A q \in some : p <= q])

Init ==
  /\ line = [p \in Pri |-> <<>>]
  /\ chosen = NoTask

(* A task that was not ready arrives behind the others of its priority. *)
Arrive(t, p) ==
  /\ t \notin Ready
  /\ line' = [line EXCEPT ![p] = Append(@, t)]

(* A ready task leaves; the order of the others stays. *)
Leave(t) ==
  \E p \in Pri : \E i \in 1..Len(line[p]) :
    /\ line[p][i] = t
    /\ line' = [line EXCEPT ![p] = RemoveAt(@, i)]

(* A ready task leaves its line and arrives in one, perhaps the same. *)
Move(t, q) ==
  \E p \in Pri : \E i \in 1..Len(line[p]) :
    /\ line[p][i] = t
    /\ LET left == [line EXCEPT ![p] = RemoveAt(@, i)]
       IN  line' = [left EXCEPT ![q] = Append(@, t)]

(* The first of a line gives way to the others of its priority. *)
GiveWay(p) ==
  /\ line[p] # <<>>
  /\ line' = [line EXCEPT ![p] = Append(Tail(@), Head(@))]

Next ==
  /\ \/ \E t \in Task, p \in Pri : Arrive(t, p) \/ Move(t, p)
     \/ \E t \in Task : Leave(t)
     \/ \E p \in Pri : GiveWay(p)
  /\ chosen' = Choice(line')

Spec == Init /\ [][Next]_vars
=============================================================================
