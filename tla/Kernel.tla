-------------------------------- MODULE Kernel --------------------------------
(***************************************************************************)
(* Tasks, the dispatcher, interrupts and the timer: the service calls of   *)
(* src/kernel/tsk_manage.c and tsk_dep_syn.c, timer_handler, and what a    *)
(* port does at dispatch() and at the end of an interrupt.                 *)
(*                                                                         *)
(* A critical section masks interrupts, so it is one step.  What runs with *)
(* interrupts enabled is a step of its own: the state checks made before a *)
(* critical section, and the call of dispatch() after it.  call[t] is how  *)
(* far task t is in a service call.  The loop of timer_handler is one step *)
(* per timer event, with nothing else enabled until it ends.               *)
(***************************************************************************)
EXTENDS Tasks, FiniteSets

CONSTANTS
  INIT_TASK,      \* the task main() creates and activates
  Itskpri,        \* the initial priority every task is created with
  Services,       \* the service calls the application makes
  Creators,       \* the tasks that call cre_tsk
  PriTargets,     \* the tasks a task calls chg_pri on, beside itself
  NestedSuspend,  \* does the application suspend a SUSPENDED task again?
  Preemptive,     \* does the end of an interrupt switch tasks?
  Tmo,            \* the timeouts given to tslp_tsk
  Dly,            \* the delays given to dly_tsk
  TMAX_ACTCNT,    \* the limit of actcnt, wupcnt and suscnt
  TMO_WIDTH       \* the number of values of a TMO, which is signed

ASSUME KernelAssumption ==
  /\ INIT_TASK \in Task
  /\ Itskpri \in [Task -> Line]
  /\ Creators \subseteq Task
  /\ PriTargets \subseteq Task
  /\ NestedSuspend \in BOOLEAN
  /\ Preemptive \in BOOLEAN
  /\ TMAX_ACTCNT \in Nat \ {0}
  /\ RELTIM_MAX \in Nat \ {0}
  /\ TMO_WIDTH \in Nat \ {0, 1}
  /\ Tmo \subseteq Int
  /\ QueueHead # NoTask
  /\ Dly \subseteq 0..RELTIM_MAX

VARIABLES
  k,        \* the kernel's tables, queues and schedtsk (module Tasks)
  runtsk,   \* the task whose context the processor has; null when idle
  call,     \* where each task is: in its own code, or in a service call
  event     \* what a loop with interrupts masked is at: timer_handler's event,
            \* or the object wait_delete empties; NoTask outside such loops

vars == <<k, runtsk, call, event>>

User == <<"user">>
Dispatch == <<"dispatch">>   \* its critical section is over
Boot == <<"boot">>           \* INIT_TASK, until it is activated
TPRI_INI == -1

KernelType ==
  [state    : [Task -> States],
   tskpri   : [Task -> Line],
   itskpri  : [Task -> Line],
   actcnt   : [Task -> 0..TMAX_ACTCNT],
   wupcnt   : [Task -> 0..TMAX_ACTCNT],
   suscnt   : [Task -> 0..TMAX_ACTCNT],
   tskwait  : [Task -> {"none", "SLP", "DLY"}],
   ercd     : [Task -> {"E_OK", "E_TMOUT", "E_DLT"}],
   count    : [Task -> 0..RELTIM_MAX],
   rdyq     : RdyqType,
   schedtsk : Task \union {NoTask},
   waitq    : [Obj -> Seq(Task)],
   timerq   : Seq(Task)]

Calls == {User, Dispatch, Boot}
         \union {<<"cre_tsk", x>> : x \in Task}
         \union {<<"chg_pri", x, p>> : x \in Task, p \in Line \union {TPRI_INI}}

(* task_initialize: no task exists. *)
task_initialize ==
  [state    |-> [t \in Task |-> "NOEXS"],
   tskpri   |-> Itskpri,
   itskpri  |-> Itskpri,
   actcnt   |-> [t \in Task |-> 0],
   wupcnt   |-> [t \in Task |-> 0],
   suscnt   |-> [t \in Task |-> 0],
   tskwait  |-> [t \in Task |-> "none"],
   ercd     |-> [t \in Task |-> "E_OK"],
   count    |-> [t \in Task |-> 0],
   rdyq     |-> rdyq_init,
   schedtsk |-> NoTask,
   waitq    |-> [o \in Obj |-> <<>>],
   timerq   |-> <<>>]

(* The critical section of cre_tsk.  kqueue_remove takes the TCB out of    *)
(* free_tcb, which nothing else reads.                                     *)
create(t) ==
  task_make_dormant([qnode_remove(k, t) EXCEPT !.itskpri[t] = Itskpri[t],
                                               !.actcnt[t]  = 0], t)

Init ==
  /\ k = task_initialize
  /\ runtsk = NoTask
  /\ call = [t \in Task |-> IF t = INIT_TASK THEN Boot ELSE User]
  /\ event = NoTask

-----------------------------------------------------------------------------
(* The processor. *)

At(t, c) == runtsk = t /\ call[t] = c /\ event = NoTask
Calls_(t, service) == service \in Services /\ At(t, User)
Goto(t, c) == call' = [call EXCEPT ![t] = c] /\ UNCHANGED <<runtsk, event>>

(* main(): it creates INIT_TASK; act_tsk and its dispatch() follow.  The   *)
(* timer already interrupts, and what it would switch to is INIT_TASK.     *)
main_cre ==
  /\ event = NoTask /\ call[INIT_TASK] = Boot
  /\ k.state[INIT_TASK] = "NOEXS"
  /\ k' = create(INIT_TASK)
  /\ UNCHANGED <<runtsk, call, event>>

(* dispatch(): the context is saved; the one of schedtsk, if any, resumes. *)
dispatch(t) ==
  /\ At(t, Dispatch)
  /\ runtsk' = k.schedtsk
  /\ call' = [call EXCEPT ![t] = User]
  /\ UNCHANGED <<k, event>>

(* The dispatch() that ends ext_tsk, and the idle loop's. *)
dispatch_null ==
  /\ runtsk = NoTask /\ event = NoTask
  /\ k.schedtsk # NoTask
  /\ runtsk' = k.schedtsk
  /\ UNCHANGED <<k, call, event>>

(* Interrupts are enabled outside critical sections and handlers.  *)
irq_entry == event = NoTask

(* Faulty: the interrupted task resumes whatever the handler did. *)
irq_return_NoSwitch == runtsk' = runtsk

irq_return == runtsk' = IF Preemptive THEN k'.schedtsk ELSE runtsk

-----------------------------------------------------------------------------
(* tsk_manage.c.  A call that fails and dispatches nothing changes nothing *)
(* and has no action.                                                      *)

(* acre_tsk: cre_tsk of the first reserved ID it finds free; the model's   *)
(* IDs are of both kinds, and every free one may be found.                 *)
cre_tsk_check(t, x) ==
  /\ Calls_(t, "cre_tsk") /\ t \in Creators
  /\ k.state[x] = "NOEXS"
  /\ Goto(t, <<"cre_tsk", x>>)
  /\ UNCHANGED k

cre_tsk(t, x) ==
  /\ At(t, <<"cre_tsk", x>>)
  /\ k' = create(x)
  /\ Goto(t, User)

(* Faulty: the limit of the activation requests is not tested. *)
_act_tsk_NoLimit(x, c) ==
  \/ /\ k.state[x] = "DMT"
     /\ k' = task_make_ready(k, x)
     /\ call' = [c EXCEPT ![x] = User]
  \/ /\ k.state[x] \notin {"NOEXS", "DMT"}
     /\ k' = [k EXCEPT !.actcnt[x] = @ + 1]
     /\ call' = c

(* c is call as the caller leaves it; a dormant task starts afresh. *)
_act_tsk(x, c) ==
  \/ /\ k.state[x] = "DMT"
     /\ k' = task_make_ready(k, x)
     /\ call' = [c EXCEPT ![x] = User]
  \/ /\ k.state[x] \notin {"NOEXS", "DMT"}
     /\ k.actcnt[x] < TMAX_ACTCNT
     /\ k' = [k EXCEPT !.actcnt[x] = @ + 1]
     /\ call' = c

main_act ==
  /\ event = NoTask /\ call[INIT_TASK] = Boot
  /\ _act_tsk(INIT_TASK, call)
  /\ UNCHANGED <<runtsk, event>>

act_tsk(t, x) ==
  /\ Calls_(t, "act_tsk")
  /\ _act_tsk(x, [call EXCEPT ![t] = Dispatch])
  /\ UNCHANGED <<runtsk, event>>

iact_tsk(x) ==
  /\ "iact_tsk" \in Services /\ irq_entry
  /\ _act_tsk(x, call)
  /\ irq_return
  /\ UNCHANGED event

(* Faulty: a READY task is deleted while it is linked. *)
del_tsk_KeepsReady(t, x) ==
  /\ Calls_(t, "del_tsk")
  /\ k.state[x] # "NOEXS" /\ x # t
  /\ LET out == IF k.state[x] \in Waiting THEN wait_cancel(k, x) ELSE k
     IN  k' = [out EXCEPT !.state[x] = "NOEXS", !.actcnt[x] = 0]
  /\ Goto(t, Dispatch)

del_tsk(t, x) ==
  /\ Calls_(t, "del_tsk")
  /\ k.state[x] # "NOEXS" /\ x # t
  /\ LET out == CASE k.state[x] \in Waiting -> wait_cancel(k, x)
                  [] k.state[x] = "RDY"     -> task_make_unready(k, x)
                  [] OTHER                  -> k
     IN  k' = [out EXCEPT !.state[x] = "NOEXS", !.actcnt[x] = 0]
  /\ Goto(t, Dispatch)

chg_pri_check(t, x, p) ==
  /\ Calls_(t, "chg_pri") /\ x \in PriTargets \union {t}
  /\ k.state[x] \notin {"NOEXS", "DMT"}
  /\ Goto(t, <<"chg_pri", x, p>>)
  /\ UNCHANGED k

(* Faulty: a task that lowers its own priority runs on. *)
chg_pri_NoDispatch(t, x, p) ==
  /\ At(t, <<"chg_pri", x, p>>)
  /\ k' = task_change_pri(k, x, IF p = TPRI_INI THEN k.itskpri[x] ELSE p)
  /\ Goto(t, User)

chg_pri(t, x, p) ==
  /\ At(t, <<"chg_pri", x, p>>)
  /\ k' = task_change_pri(k, x, IF p = TPRI_INI THEN k.itskpri[x] ELSE p)
  /\ Goto(t, Dispatch)

(* TPRI_SELF rotates the line of schedtsk, any other value its own line. *)
rot_rdq(t) ==
  /\ Calls_(t, "rot_rdq")
  /\ k' \in {rdyq_rotate_current(k)} \union {rdyq_rotate_at(k, p) : p \in Line}
  /\ Goto(t, Dispatch)

ext_tsk(t) ==
  /\ Calls_(t, "ext_tsk")
  /\ LET out == task_make_dormant(task_make_unready(k, t), t)
     IN  k' = IF k.actcnt[t] = 0 THEN out
              ELSE task_make_ready([out EXCEPT !.actcnt[t] = @ - 1], t)
  /\ runtsk' = NoTask
  /\ UNCHANGED <<call, event>>

-----------------------------------------------------------------------------
(* tsk_dep_syn.c *)

(* An unsigned RELTIM passed as the narrower, signed TMO of make_wait. *)
as_TMO(d) ==
  LET low == d % TMO_WIDTH
  IN  IF low < TMO_WIDTH \div 2 THEN low ELSE low - TMO_WIDTH

dly_tsk(t, d) ==
  /\ Calls_(t, "dly_tsk")
  /\ k' = make_wait([k EXCEPT !.ercd[t] = "E_OK", !.tskwait[t] = "DLY"],
                    t, as_TMO(d))
  /\ Goto(t, Dispatch)

(* A call that fails dispatches as well. *)
sus_tsk(t, x) ==
  /\ Calls_(t, "sus_tsk")
  /\ IF k.state[x] \in {"NOEXS", "DMT"} \/ k.suscnt[x] = TMAX_ACTCNT
     THEN UNCHANGED k
     ELSE /\ k.state[x] = "SUS" => NestedSuspend
          /\ LET out == IF k.state[x] = "RDY"
                        THEN [task_make_unready(k, x) EXCEPT !.state[x] = "SUS"]
                        ELSE [k EXCEPT !.state[x] = "WAS"]
             IN  k' = [out EXCEPT !.suscnt[x] = @ + 1]
  /\ Goto(t, Dispatch)

rsm_tsk(t, x) ==
  /\ Calls_(t, "rsm_tsk")
  /\ LET out == [k EXCEPT !.suscnt[x] = @ - 1]
     IN  k' = CASE k.state[x] \notin {"SUS", "WAS"} -> k
                [] k.state[x] \in {"SUS", "WAS"} /\ k.suscnt[x] # 1 -> out
                [] k.state[x] = "WAS" /\ k.suscnt[x] = 1 ->
                     [out EXCEPT !.state[x] = "WAI"]
                [] k.state[x] = "SUS" /\ k.suscnt[x] = 1 ->
                     task_make_ready(out, x)
  /\ Goto(t, Dispatch)

(* slp_tsk is __slp_tsk with TMO_FEVR, tslp_tsk with any timeout. *)
__slp_tsk(t, tmo) ==
  /\ Calls_(t, "slp_tsk")
  /\ LET out == [k EXCEPT !.ercd[t] = "E_TMOUT"]
     IN  k' = CASE k.wupcnt[t] > 0 ->
                     [k EXCEPT !.wupcnt[t] = @ - 1, !.ercd[t] = "E_OK"]
                [] k.wupcnt[t] = 0 /\ tmo = TMO_POL -> out
                [] k.wupcnt[t] = 0 /\ tmo # TMO_POL ->
                     make_wait([out EXCEPT !.tskwait[t] = "SLP"], t, tmo)
  /\ Goto(t, Dispatch)

(* Faulty: a task asleep and suspended is not seen to be asleep. *)
_wup_tsk_NotSuspended(x) ==
  /\ k.state[x] \notin {"NOEXS", "DMT"}
  /\ LET asleep == k.state[x] = "WAI" /\ k.tskwait[x] = "SLP"
     IN  \/ asleep /\ k' = wait_release_ok(k, x)
         \/ /\ ~asleep /\ k.wupcnt[x] < TMAX_ACTCNT
            /\ k' = [k EXCEPT !.wupcnt[x] = @ + 1]

_wup_tsk(x) ==
  /\ k.state[x] \notin {"NOEXS", "DMT"}
  /\ LET asleep == k.state[x] \in Waiting /\ k.tskwait[x] = "SLP"
     IN  \/ asleep /\ k' = wait_release_ok(k, x)
         \/ /\ ~asleep /\ k.wupcnt[x] < TMAX_ACTCNT
            /\ k' = [k EXCEPT !.wupcnt[x] = @ + 1]

wup_tsk(t, x) ==
  /\ Calls_(t, "wup_tsk")
  /\ _wup_tsk(x)
  /\ Goto(t, Dispatch)

iwup_tsk(x) ==
  /\ "iwup_tsk" \in Services /\ irq_entry
  /\ _wup_tsk(x)
  /\ irq_return
  /\ UNCHANGED <<call, event>>

can_wup(t, x) ==
  /\ Calls_(t, "can_wup")
  /\ k.state[x] \notin {"NOEXS", "DMT"}
  /\ k' = [k EXCEPT !.wupcnt[x] = 0]
  /\ UNCHANGED <<runtsk, call, event>>

-----------------------------------------------------------------------------
(* timer.c: timer_handler. *)

(* Faulty: the walk begins behind the first event of the queue. *)
timer_enter_SkipsFirst ==
  /\ irq_entry
  /\ event' = IF Len(k.timerq) > 1 THEN k.timerq[2] ELSE QueueHead
  /\ UNCHANGED <<k, runtsk, call>>

timer_enter ==
  /\ irq_entry
  /\ event' = kqueue_next(k.timerq)
  /\ UNCHANGED <<k, runtsk, call>>

(* One turn of the loop; next is read before the callback unlinks event.   *)
timer_step ==
  /\ event \in Task
  /\ LET q    == k.timerq
         i    == Position(q, event)
         n    == (k.count[event] + RELTIM_MAX) % (RELTIM_MAX + 1)
         out  == [k EXCEPT !.count[event] = n]
     IN  /\ k' = IF n = 0
                 THEN wait_release_tmout(timer_delete(out, event), event)
                 ELSE out
         /\ event' = IF i = Len(q) THEN QueueHead ELSE q[i + 1]
  /\ UNCHANGED <<runtsk, call>>

timer_exit ==
  /\ event = QueueHead
  /\ event' = NoTask
  /\ k' = k
  /\ irq_return
  /\ UNCHANGED call

-----------------------------------------------------------------------------
(* wait.c: a turn of wait_delete's loop, for an object of any kind. *)
wait_delete ==
  /\ event \in Obj
  /\ ~kqueue_empty(k.waitq[event])
  /\ k' = wait_release_dlt(k, kqueue_next(k.waitq[event]))
  /\ UNCHANGED <<runtsk, call, event>>

-----------------------------------------------------------------------------
TaskStep(t) ==
  \/ dispatch(t)
  \/ rot_rdq(t)
  \/ ext_tsk(t)
  \/ \E x \in Task :
       \/ cre_tsk_check(t, x) \/ cre_tsk(t, x)
       \/ act_tsk(t, x) \/ del_tsk(t, x)
       \/ sus_tsk(t, x) \/ rsm_tsk(t, x)
       \/ wup_tsk(t, x) \/ can_wup(t, x)
       \/ \E p \in Line \union {TPRI_INI} :
            chg_pri_check(t, x, p) \/ chg_pri(t, x, p)
  \/ \E d \in Dly : dly_tsk(t, d)
  \/ \E tmo \in Tmo : __slp_tsk(t, tmo)

Handler == timer_enter \/ timer_step \/ timer_exit

Next ==
  \/ \E t \in Task : TaskStep(t)
  \/ \E x \in Task : iact_tsk(x) \/ iwup_tsk(x)
  \/ main_cre \/ main_act \/ dispatch_null
  \/ Handler

(* The timer interrupts again and again, a handler ends, and a context     *)
(* that is about to dispatch goes on when it has the processor; main()     *)
(* starts INIT_TASK.  Nothing is assumed of the tasks' own code.           *)
Fairness ==
  /\ WF_vars(Handler)
  /\ WF_vars(main_cre \/ main_act)
  /\ WF_vars(dispatch_null \/ \E t \in Task : dispatch(t))

Spec == Init /\ [][Next]_vars
FairSpec == Spec /\ Fairness

-----------------------------------------------------------------------------
(* Every variable has its type; the counters stay within their limits. *)
TypeOK ==
  /\ k \in KernelType
  /\ runtsk \in Task \union {NoTask}
  /\ call \in [Task -> Calls]
  /\ event \in Task \union Obj \union {NoTask, QueueHead}

(* The kernel as a whole implements the FIFO-within-priority policy: every *)
(* service call, interrupt and timeout is one step of it or none.          *)
Fifo == INSTANCE PriorityFifo WITH Pri    <- Line,
                                   line   <- k.rdyq.priq,
                                   chosen <- k.schedtsk
FifoSpec == Fifo!Spec

(* Whatever order tasks, interrupts and the timer call task.c in, the      *)
(* ready queue is sound, holds the READY tasks at their current priority,  *)
(* and schedtsk is its first task (rdyq.h, task.c); every variable has its *)
(* type.                                                                   *)
SchedOK == TypeOK /\ SchedInv(k)

(* The TCBs in use; the fields of the others are left over. *)
Exists == {t \in Task : k.state[t] # "NOEXS"}

(* A task is in a WAITING state exactly while something can end the wait:  *)
(* tskwait, or one object's queue, which holds it once (wait.c and the     *)
(* sus_tsk / rsm_tsk pair, which edit the same state field).               *)
BlockedHasCause ==
  \A t \in Exists :
    LET queues == {o \in Obj : t \in ToSet(k.waitq[o])}
    IN  /\ Cardinality(queues) = IF /\ k.state[t] \in Waiting
                                   /\ k.tskwait[t] = "none" THEN 1 ELSE 0
        /\ k.tskwait[t] # "none" => k.state[t] \in Waiting
        /\ \A o \in queues : IsInjective(k.waitq[o])

(* suscnt counts the suspensions in force: a task has some exactly while   *)
(* it is SUSPENDED or WAITING-SUSPENDED, whatever else ended in between.   *)
SuspensionCounted ==
  \A t \in Exists : k.suscnt[t] > 0 <=> k.state[t] \in {"SUS", "WAS"}

(* No wakeup is lost: a task asleep has no wakeup request queued, whether  *)
(* it came from a task, an interrupt, or while the task was suspended.     *)
NoLostWakeup ==
  \A t \in Exists : k.tskwait[t] = "SLP" => k.wupcnt[t] = 0

(* timer_queue holds waiting tasks only, each once, however their waits    *)
(* end, and the event timer_handler is at is still linked: the next        *)
(* pointer it read ahead never dangles (timer.c, wait.h).                  *)
TimerQueueExact ==
  /\ IsInjective(k.timerq)
  /\ \A t \in ToSet(k.timerq) : k.state[t] \in Waiting
  /\ event \in Task => event \in ToSet(k.timerq)

(* On a port that preempts, a task in its own code is the one the scheduler *)
(* chose; on any port it is READY (dispatch() and irq_entry of the ports). *)
RunsTheChosen ==
  runtsk # NoTask /\ call[runtsk] # Dispatch /\ event = NoTask =>
    /\ k.state[runtsk] = "RDY"
    /\ Preemptive => runtsk = k.schedtsk

(* A timeout is honoured: a task in timer_queue leaves it again, by its    *)
(* count or by an earlier release, however the ticks interleave.           *)
TimedWaitEnds ==
  \A t \in Task : t \in ToSet(k.timerq) ~> t \notin ToSet(k.timerq)

(* A task the scheduler chooses gets the processor, or another is chosen:  *)
(* no choice is left standing while the processor idles or runs on.        *)
ChosenRuns ==
  Preemptive => \A t \in Task : k.schedtsk = t ~> runtsk = t \/ k.schedtsk # t

(* dly_tsk's task comes back: its delay is a number of ticks.              *)
DelayEnds ==
  \A t \in Task :
    k.tskwait[t] = "DLY" ~> k.tskwait[t] # "DLY" \/ t \notin Exists

(* What the waits, the suspensions, the wakeup requests and the timer keep *)
(* of a task agrees, whatever the calls, interrupts and timeouts between   *)
(* that begin and end them (wait.c, tsk_dep_syn.c, timer.c).               *)
WaitsExact == BlockedHasCause /\ SuspensionCounted /\ NoLostWakeup /\ TimerQueueExact
=============================================================================
