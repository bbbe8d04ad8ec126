-------------------------------- MODULE Sched --------------------------------
(***************************************************************************)
(* The scheduler alone: the ready queue and schedtsk as the rest of the    *)
(* kernel drives them through task.c, one action per entry point.  A task  *)
(* becomes ready when it is not, stops being ready when it is, has its     *)
(* priority changed while it is ready, and a line is rotated.              *)
(***************************************************************************)
EXTENDS Tasks

VARIABLE sched    \* the kernel state, of which only these fields matter here

schedvars == <<sched>>

SchedType == [state    : [Task -> {"RDY", "WAI"}],
              tskpri   : [Task -> Line],
              rdyq     : RdyqType,
              schedtsk : Task \union {NoTask}]

(* task_initialize, with priorities already given by cre_tsk. *)
SchedInit ==
  \E pri \in [Task -> Line] :
    sched = [state    |-> [t \in Task |-> "WAI"],
             tskpri   |-> pri,
             rdyq     |-> rdyq_init,
             schedtsk |-> NoTask]

MakeReady(t) ==
  /\ sched.state[t] # "RDY"
  /\ sched' = task_make_ready(sched, t)

MakeUnready(t) ==
  /\ sched.state[t] = "RDY"
  /\ sched' = [task_make_unready(sched, t) EXCEPT !.state[t] = "WAI"]

ChangePri(t, p) ==
  /\ sched.state[t] = "RDY"
  /\ sched' = task_change_pri(sched, t, p)

RotateAt(p) == sched' = rdyq_rotate_at(sched, p)

RotateCurrent == sched' = rdyq_rotate_current(sched)

SchedNext ==
  \/ \E t \in Task : MakeReady(t) \/ MakeUnready(t)
  \/ \E t \in Task, p \in Line : ChangePri(t, p)
  \/ \E p \in Line : RotateAt(p)
  \/ RotateCurrent

SchedSpec == SchedInit /\ [][SchedNext]_schedvars

-----------------------------------------------------------------------------
(* Every field of the scheduler's state has its type. *)
SchedTypeOK == sched \in SchedType

(* The bitmap and the cached top_priority of rdyq.h agree with the lists,  *)
(* after every insert, remove, priority change and rotation, across words; *)
(* every field of the scheduler's state has its type.                      *)
ReadyQueueOK == SchedTypeOK /\ RdyqInv(sched.rdyq)

(* A task is in the line of its current priority exactly while it is       *)
(* READY; no other line holds it (tskpri and the lists, task.c).           *)
ReadyIffLinked == ReadyLinks(sched)

(* schedtsk, which task.c updates piecemeal, is always the first task of   *)
(* the highest line that holds one, and null only when no task is ready.   *)
SchedIsTop ==
  /\ sched.schedtsk = NoTask <=> \A t \in Task : sched.state[t] # "RDY"
  /\ sched.schedtsk # NoTask =>
       /\ sched.schedtsk = Head(sched.rdyq.priq[sched.tskpri[sched.schedtsk]])
       /\ \A t \in Task : sched.state[t] = "RDY" => sched.tskpri[sched.schedtsk] <= sched.tskpri[t]

(* The scheduler's lists and schedtsk implement the FIFO-within-priority   *)
(* policy: every kernel step is a step of it or leaves it unchanged.       *)
SchedFifo == INSTANCE PriorityFifo WITH Pri    <- Line,
                                        line   <- sched.rdyq.priq,
                                        chosen <- sched.schedtsk
SchedFifoSpec == SchedFifo!Spec
=============================================================================
