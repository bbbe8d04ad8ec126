-------------------------------- MODULE Tasks --------------------------------
(***************************************************************************)
(* What the kernel does to its task control blocks inside a critical       *)
(* section: src/kernel/task.c, wait.c, wait.h and timer.c.                 *)
(*                                                                         *)
(* A kernel state k is a record.  The fields of a TCB that the kernel      *)
(* reads are fields of k, each a function from tasks:                      *)
(*    state, tskpri, itskpri, actcnt, wupcnt, suscnt, tskwait, ercd, count *)
(* (count is wtmeb.count), and beside them k has                           *)
(*    rdyq      the ready queue                                            *)
(*    schedtsk  the task that should have the processor                    *)
(*    waitq     the list of waiting tasks of every object                  *)
(*    timerq    timer_queue, the tasks whose wtmeb is linked, in order     *)
(* Every operator takes k and returns the kernel state after the call.     *)
(***************************************************************************)
EXTENDS ReadyQueue

CONSTANTS
  Obj,          \* the objects a task can wait for: semaphores, flags, boxes
  RELTIM_MAX    \* the largest value of wtmeb.count, an unsigned RELTIM

TMO_FEVR == -1
TMO_POL == 0

(* TTS_RUN is never assigned: the running task stays READY, in its line.   *)
States == {"NOEXS", "DMT", "RDY", "WAI", "SUS", "WAS"}
Waiting == {"WAI", "WAS"}      \* state & TTS_WAI

task_make_dormant(k, t) ==
  [k EXCEPT !.state[t]   = "DMT",
            !.tskpri[t]  = k.itskpri[t],
            !.wupcnt[t]  = 0,
            !.suscnt[t]  = 0,
            !.tskwait[t] = "none"]

task_make_ready(k, t) ==
  [k EXCEPT !.state[t] = "RDY",
            !.rdyq     = rdyq_insert(@, t, k.tskpri[t]),
            !.schedtsk = IF rdyq_insert_tops(k.rdyq, k.tskpri[t]) THEN t ELSE @]

(* Faulty: schedtsk keeps pointing at the task that left. *)
task_make_unready_StaleChoice(k, t) ==
  [k EXCEPT !.rdyq = rdyq_remove(@, t, k.tskpri[t])]

task_make_unready(k, t) ==
  LET rq == rdyq_remove(k.rdyq, t, k.tskpri[t])
  IN  [k EXCEPT !.rdyq     = rq,
                !.schedtsk = IF @ = t THEN rdyq_top(rq) ELSE @]

(* Faulty: tskpri is assigned after the insertion that reads it. *)
task_change_pri_LateAssignment(k, t, p) ==
  LET old == k.tskpri[t]
      rq  == rdyq_remove(k.rdyq, t, old)
  IN  [k EXCEPT !.rdyq      = rdyq_insert(rq, t, old),
                !.tskpri[t] = p,
                !.schedtsk  = IF rdyq_insert_tops(rq, old) THEN t
                              ELSE rdyq_top(rq)]

task_change_pri(k, t, p) ==
  LET rq == rdyq_remove(k.rdyq, t, k.tskpri[t])
  IN  [k EXCEPT !.rdyq      = rdyq_insert(rq, t, p),
                !.tskpri[t] = p,
                !.schedtsk  = IF rdyq_insert_tops(rq, p) THEN t
                              ELSE rdyq_top(rq)]

rdyq_rotate_at(k, p) ==
  LET rq == rdyq_rotate(k.rdyq, p)
  IN  [k EXCEPT !.rdyq = rq, !.schedtsk = rdyq_top(rq)]

rdyq_rotate_current(k) ==
  IF k.schedtsk = NoTask THEN k ELSE rdyq_rotate_at(k, k.rdyq.top_priority)

-----------------------------------------------------------------------------
(* timer.c: a wait for ever leaves wtmeb linked to itself only.  A negative *)
(* tmo becomes a large count.                                              *)

timer_insert(k, t, tmo) ==
  IF tmo = TMO_FEVR THEN k
  ELSE [k EXCEPT !.count[t] = tmo % (RELTIM_MAX + 1),
                 !.timerq = kqueue_insert(@, t)]

timer_delete(k, t) == [k EXCEPT !.timerq = kqueue_remove(@, t)]

-----------------------------------------------------------------------------
(* wait.h and wait.c *)

(* kqueue_remove(&tcb->qnode): qnode is what links the task into its line  *)
(* of the ready queue or into an object's waitq, whichever it is in.       *)
qnode_remove(k, t) ==
  [k EXCEPT !.rdyq.priq = rdyq_unlink(k.rdyq, t),
            !.waitq     = [o \in Obj |-> kqueue_remove(@[o], t)]]

(* Faulty: the reason of the wait is left behind. *)
task_leave_wait_KeepsReason(k, t) ==
  IF k.state[t] = "WAI" THEN task_make_ready(k, t)
  ELSE [k EXCEPT !.state[t] = "SUS"]

(* Faulty: the end of a wait makes a suspended task run. *)
task_leave_wait_Resumes(k, t) ==
  task_make_ready([k EXCEPT !.tskwait[t] = "none"], t)

task_leave_wait(k, t) ==
  LET left == [k EXCEPT !.tskwait[t] = "none"]
  IN  IF k.state[t] = "WAI" THEN task_make_ready(left, t)
      ELSE [left EXCEPT !.state[t] = "SUS"]

(* Faulty: the timer event of a wait that ended early stays linked. *)
wait_cancel_KeepsTimer(k, t) == qnode_remove(k, t)

wait_cancel(k, t) == qnode_remove(timer_delete(k, t), t)

wait_release(k, t) == task_leave_wait(wait_cancel(k, t), t)

(* E_OK to the waiter, E_DLT when its object is deleted under it. *)
wait_release_ok(k, t) == wait_release([k EXCEPT !.ercd[t] = "E_OK"], t)
wait_release_dlt(k, t) == wait_release([k EXCEPT !.ercd[t] = "E_DLT"], t)

(* Faulty: the waiter stays in the queue it waited in. *)
wait_release_tmout_KeepsPlace(k, t) == task_leave_wait(k, t)

(* The timer handler has unlinked wtmeb before it calls this back; ercd    *)
(* keeps what the waiting call left in it.                                 *)
wait_release_tmout(k, t) == task_leave_wait(qnode_remove(k, t), t)

(* make_wait for the running task t. *)
make_wait(k, t, tmo) ==
  LET w == CASE k.state[t] = "RDY" -> [task_make_unready(k, t)
                                         EXCEPT !.state[t] = "WAI"]
             [] k.state[t] = "SUS" -> [k EXCEPT !.state[t] = "WAS"]
             [] OTHER              -> k
  IN  timer_insert(w, t, tmo)

(* Faulty: the object's attribute is not looked at. *)
obj_make_wait_Fifo(k, t, o, tmo, tpri) ==
  [make_wait(k, t, tmo) EXCEPT !.waitq[o] = kqueue_insert(@, t)]

(* obj_make_wait: tpri is the object's TA_TPRI bit.  tskwait is left as is. *)
obj_make_wait(k, t, o, tmo, tpri) ==
  LET w == make_wait(k, t, tmo)
  IN  [w EXCEPT !.waitq[o] = IF tpri THEN kqueue_insert_pri(@, t, w.tskpri)
                             ELSE kqueue_insert(@, t)]

wait_tskid(k, o) == IF kqueue_empty(k.waitq[o]) THEN NoTask ELSE k.waitq[o][1]

-----------------------------------------------------------------------------
(* What task.c keeps true of the scheduler, whoever calls it. *)

(* A task is in the line of its current priority exactly while it is READY *)
(* and no other line holds it.                                             *)
ReadyLinks(k) ==
  \A t \in Task, p \in Line :
    t \in ToSet(k.rdyq.priq[p]) <=> k.state[t] = "RDY" /\ k.tskpri[t] = p

SchedInv(k) ==
  /\ RdyqInv(k.rdyq)
  /\ k.schedtsk = rdyq_top(k.rdyq)
  /\ ReadyLinks(k)
=============================================================================
