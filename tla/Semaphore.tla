------------------------------ MODULE Semaphore ------------------------------
(***************************************************************************)
(* The semaphores of src/kernel/semaphore.c over the kernel of module      *)
(* Kernel.  Existence is tested before the critical section in cre_sem,    *)
(* wai_sem and sig_sem, so each of them is two steps; del_sem tests it     *)
(* inside.  A waiting call returns the ercd it finds once it runs again.   *)
(***************************************************************************)
EXTENDS Kernel

CONSTANTS
  Csem,           \* the creation packets: sematr & TA_TPRI, isemcnt, maxsem
  TMAX_MAXSEM,    \* the limit of isemcnt and maxsem
  GuardedDelete   \* is no semaphore deleted while a call is about to use it?

ASSUME SemaphoreAssumption ==
  /\ TMAX_MAXSEM \in Nat \ {0}
  /\ Csem \subseteq [tpri    : BOOLEAN,
                     isemcnt : 0..TMAX_MAXSEM,
                     maxsem  : 0..TMAX_MAXSEM]
  /\ GuardedDelete \in BOOLEAN
  /\ Obj \intersect (Task \union {NoTask, QueueHead}) = {}

VARIABLE sem    \* semcb_table: exists, tpri, semcnt, maxsem of every semaphore

semvars == <<k, runtsk, call, event, sem>>

SemType == [Obj -> [exists : BOOLEAN,
                    tpri   : BOOLEAN,
                    semcnt : 0..TMAX_MAXSEM,
                    maxsem : 0..TMAX_MAXSEM]]

SemCalls == Calls
            \union {<<"cre_sem", s, c>> : s \in Obj, c \in Csem}
            \union {<<"wai_sem", s, tmo>> : s \in Obj, tmo \in Tmo}
            \union {<<svc, s>> : s \in Obj, svc \in {"sig_sem", "dispatch", "ercd"}}

semaphore_initialize ==
  [s \in Obj |-> [exists |-> FALSE, tpri |-> FALSE, semcnt |-> 0, maxsem |-> 0]]

SemInit ==
  /\ Init
  /\ sem = semaphore_initialize

(* acre_sem: _cre_sem of the first reserved ID it finds free; the model's  *)
(* IDs are of both kinds, and every free one may be found.                 *)
cre_sem_check(t, s, c) ==
  /\ Calls_(t, "cre_sem")
  /\ ~sem[s].exists
  /\ Goto(t, <<"cre_sem", s, c>>)
  /\ UNCHANGED <<k, sem>>

_cre_sem(t, s, c) ==
  /\ At(t, <<"cre_sem", s, c>>)
  /\ sem' = [sem EXCEPT ![s] = [exists |-> TRUE,      tpri   |-> c.tpri,
                                semcnt |-> c.isemcnt, maxsem |-> c.maxsem]]
  /\ k' = [k EXCEPT !.waitq[s] = <<>>]
  /\ Goto(t, User)

(* Faulty: ercd says E_OK before the wait. *)
__wai_sem_PresetOk(t, s, tmo) ==
  /\ At(t, <<"wai_sem", s, tmo>>)
  /\ LET out == [k EXCEPT !.ercd[t] = "E_OK"]
     IN  \/ /\ sem[s].semcnt > 0
            /\ sem' = [sem EXCEPT ![s].semcnt = @ - 1]
            /\ k' = out
         \/ /\ sem[s].semcnt = 0
            /\ k' = IF tmo = TMO_POL THEN [k EXCEPT !.ercd[t] = "E_TMOUT"]
                    ELSE obj_make_wait(out, t, s, tmo, sem[s].tpri)
            /\ UNCHANGED sem
  /\ Goto(t, <<"dispatch", s>>)

(* wai_sem, twai_sem and pol_sem differ in tmo only. *)
wai_sem_check(t, s, tmo) ==
  /\ Calls_(t, "wai_sem")
  /\ sem[s].exists
  /\ Goto(t, <<"wai_sem", s, tmo>>)
  /\ UNCHANGED <<k, sem>>

__wai_sem(t, s, tmo) ==
  /\ At(t, <<"wai_sem", s, tmo>>)
  /\ \/ /\ sem[s].semcnt > 0
        /\ sem' = [sem EXCEPT ![s].semcnt = @ - 1]
        /\ k' = [k EXCEPT !.ercd[t] = "E_OK"]
     \/ /\ sem[s].semcnt = 0
        /\ LET out == [k EXCEPT !.ercd[t] = "E_TMOUT"]
           IN  k' = IF tmo = TMO_POL THEN out
                    ELSE obj_make_wait(out, t, s, tmo, sem[s].tpri)
        /\ UNCHANGED sem
  /\ Goto(t, <<"dispatch", s>>)

wai_sem_dispatch(t, s) ==
  /\ At(t, <<"dispatch", s>>)
  /\ runtsk' = k.schedtsk
  /\ call' = [call EXCEPT ![t] = <<"ercd", s>>]
  /\ UNCHANGED <<k, event, sem>>

(* return runtsk->ercd *)
wai_sem_return(t, s) ==
  /\ At(t, <<"ercd", s>>)
  /\ Goto(t, User)
  /\ UNCHANGED <<k, sem>>

(* Faulty: the token goes to the first waiter and back to the count. *)
_sig_sem_Twice(s) ==
  /\ sem' = [sem EXCEPT ![s].semcnt = IF @ >= sem[s].maxsem THEN @ ELSE @ + 1]
  /\ k' = IF kqueue_empty(k.waitq[s]) THEN k
          ELSE wait_release_ok(k, kqueue_next(k.waitq[s]))

(* Faulty: maxsem is not tested. *)
_sig_sem_NoLimit(s) ==
  \/ /\ ~kqueue_empty(k.waitq[s])
     /\ k' = wait_release_ok(k, kqueue_next(k.waitq[s]))
     /\ UNCHANGED sem
  \/ /\ kqueue_empty(k.waitq[s])
     /\ sem' = [sem EXCEPT ![s].semcnt = @ + 1]
     /\ UNCHANGED k

(* Faulty: the token is counted, and the waiter left where it is. *)
_sig_sem_Counts(s) ==
  /\ sem' = [sem EXCEPT ![s].semcnt = IF @ >= sem[s].maxsem THEN @ ELSE @ + 1]
  /\ UNCHANGED k

(* The critical section: the first waiter takes the token, if one waits. *)
_sig_sem(s) ==
  \/ /\ ~kqueue_empty(k.waitq[s])
     /\ k' = wait_release_ok(k, kqueue_next(k.waitq[s]))
     /\ UNCHANGED sem
  \/ /\ kqueue_empty(k.waitq[s])
     /\ sem' = [sem EXCEPT ![s].semcnt = IF @ >= sem[s].maxsem THEN @ ELSE @ + 1]
     /\ UNCHANGED k

(* sig_sem dispatches whether or not it succeeds. *)
sig_sem_check(t, s) ==
  /\ Calls_(t, "sig_sem")
  /\ Goto(t, IF sem[s].exists THEN <<"sig_sem", s>> ELSE Dispatch)
  /\ UNCHANGED <<k, sem>>

sig_sem(t, s) ==
  /\ At(t, <<"sig_sem", s>>)
  /\ _sig_sem(s)
  /\ Goto(t, Dispatch)

isig_sem(s) ==
  /\ "isig_sem" \in Services /\ irq_entry
  /\ sem[s].exists
  /\ _sig_sem(s)
  /\ irq_return
  /\ UNCHANGED <<call, event>>

(* The calls between their check of s and their critical section. *)
AboutToUse(s) ==
  {t \in Task : \/ call[t] = <<"sig_sem", s>>
                \/ \E tmo \in Tmo : call[t] = <<"wai_sem", s, tmo>>}

(* wait_delete releases the waiters before the rest of del_sem. *)
del_sem(t, s) ==
  /\ Calls_(t, "del_sem")
  /\ sem[s].exists
  /\ GuardedDelete => AboutToUse(s) = {}
  /\ event' = s
  /\ call' = [call EXCEPT ![t] = Dispatch]
  /\ UNCHANGED <<k, runtsk, sem>>

del_sem_end ==
  /\ event \in Obj
  /\ kqueue_empty(k.waitq[event])
  /\ sem' = [sem EXCEPT ![event].exists = FALSE, ![event].semcnt = 0]
  /\ event' = NoTask
  /\ UNCHANGED <<k, runtsk, call>>

-----------------------------------------------------------------------------
SemTaskStep(t) ==
  \E s \in Obj :
    \/ wai_sem_dispatch(t, s) \/ wai_sem_return(t, s)
    \/ sig_sem_check(t, s) \/ sig_sem(t, s)
    \/ del_sem(t, s)
    \/ \E c \in Csem : cre_sem_check(t, s, c) \/ _cre_sem(t, s, c)
    \/ \E tmo \in Tmo : wai_sem_check(t, s, tmo) \/ __wai_sem(t, s, tmo)

SemNext ==
  \/ Next /\ UNCHANGED sem
  \/ wait_delete /\ UNCHANGED sem
  \/ \E t \in Task : SemTaskStep(t)
  \/ \E s \in Obj : isig_sem(s)
  \/ del_sem_end

SemSpec == SemInit /\ [][SemNext]_semvars

-----------------------------------------------------------------------------
(* Every variable has its type; semcnt stays within the table's limits.    *)
SemTypeOK ==
  /\ k \in KernelType
  /\ runtsk \in Task \union {NoTask}
  /\ call \in [Task -> SemCalls]
  /\ event \in Task \union Obj \union {NoTask, QueueHead}
  /\ sem \in SemType

(* No token lies idle while a task waits for one, and no task waits for a  *)
(* semaphore that does not exist: sig_sem, timeouts, del_sem and del_tsk   *)
(* of a waiting task leave the queue and the count consistent.             *)
NoIdleToken ==
  \A s \in Obj : k.waitq[s] # <<>> => sem[s].exists /\ sem[s].semcnt = 0

(* maxsem is the maximum of the resource count (ittrium.h:175), which      *)
(* cre_sem compares isemcnt with only through TMAX_MAXSEM.                 *)
CountWithinMax ==
  \A s \in Obj : sem[s].exists => sem[s].semcnt <= sem[s].maxsem

(* The queue of a TA_TPRI semaphore is in priority order, while timeouts   *)
(* and deletions take tasks from its middle; kqueue_find_pri finds the     *)
(* place of a new one.                                                     *)
QueueByPriority ==
  \A s \in Obj : sem[s].tpri =>
    \A i, j \in DOMAIN k.waitq[s] :
      i < j => k.tskpri[k.waitq[s][i]] <= k.tskpri[k.waitq[s][j]]

(* A call past its existence test finds the semaphore still there: the     *)
(* test is outside the critical section (semaphore.c:107, 152), and on the *)
(* host port no other task can run in between.                             *)
UsesExisting ==
  \A s \in Obj : AboutToUse(s) # {} => sem[s].exists

(* A task waits in one place: while it is in a semaphore's queue, once, it *)
(* is WAITING inside wai_sem for that semaphore; a timeout or del_tsk that *)
(* ends the wait has unlinked qnode from the queue (wait.c).               *)
WaitersInCall ==
  \A s \in Obj :
    /\ IsInjective(k.waitq[s])
    /\ \A t \in ToSet(k.waitq[s]) :
         /\ k.state[t] \in Waiting
         /\ call[t] \in {<<"dispatch", s>>, <<"ercd", s>>}

(* A semaphore's queue holds none but tasks WAITING inside wai_sem for it, *)
(* each in one place, in the order of its attribute (semaphore.c, wait.c). *)
QueueExact == SemTypeOK /\ QueueByPriority /\ WaitersInCall
=============================================================================
