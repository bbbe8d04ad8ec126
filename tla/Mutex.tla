-------------------------------- MODULE Mutex --------------------------------
(***************************************************************************)
(* The use that services/net/arch/sys_arch.c makes of a semaphore with one *)
(* token: sys_mutex_lock waits for ever, a sys_sem taken with a timeout    *)
(* waits for a time, and sys_mutex_unlock or sys_sem_signal gives it back. *)
(* owns is what the tasks know: a task owns the semaphore when its wait    *)
(* returned E_OK, until it signals.                                        *)
(***************************************************************************)
EXTENDS Semaphore

CONSTANT TmoOf    \* task -> the timeouts of its waits

ASSUME MutexAssumption == TmoOf \in [Task -> SUBSET Tmo]

VARIABLE owns    \* the tasks that own each semaphore

mutexvars == <<k, runtsk, call, event, sem, owns>>

MutexInit ==
  /\ SemInit
  /\ owns = [s \in Obj |-> {}]

lock(t, s, tmo) == /\ t \notin owns[s]
                   /\ wai_sem_check(t, s, tmo)
                   /\ UNCHANGED owns

locked(t, s) ==
  /\ wai_sem_return(t, s)
  /\ owns' = [owns EXCEPT ![s] = IF k.ercd[t] = "E_OK" THEN @ \union {t} ELSE @]

(* The owner stops using what it guards before it calls sig_sem. *)
unlock(t, s) ==
  /\ t \in owns[s]
  /\ sig_sem_check(t, s)
  /\ owns' = [owns EXCEPT ![s] = @ \ {t}]

MutexTaskStep(t) ==
  \E s \in Obj :
    \/ \E tmo \in TmoOf[t] : lock(t, s, tmo)
    \/ locked(t, s)
    \/ unlock(t, s)
    \/ /\ \/ \E tmo \in TmoOf[t] : __wai_sem(t, s, tmo)
          \/ wai_sem_dispatch(t, s)
          \/ sig_sem(t, s)
       /\ UNCHANGED owns

(* sys_mutex_new and sys_sem_new: one task makes what the others then use. *)
MutexCreate ==
  /\ \E t \in Creators, s \in Obj, c \in Csem : cre_sem_check(t, s, c) \/ _cre_sem(t, s, c)
  /\ UNCHANGED owns

MutexNext ==
  \/ Next /\ UNCHANGED <<sem, owns>>
  \/ MutexCreate
  \/ \E t \in Task : MutexTaskStep(t)

(* Fairness of Kernel, and of the tasks: one that is inside a call goes on *)
(* when it has the processor, and so does one that uses the semaphore.     *)
(* Strong, because the tick interrupts again and again, and returns.       *)
MutexFairness ==
  /\ WF_mutexvars(Handler /\ UNCHANGED <<sem, owns>>)
  /\ WF_mutexvars(UNCHANGED <<sem, owns>> /\ (main_cre \/ main_act))
  /\ SF_mutexvars(UNCHANGED <<sem, owns>>
                  /\ (dispatch_null \/ \E t \in Task : call[t] # <<"user">> /\ TaskStep(t)))
  /\ \A t \in Task : SF_mutexvars(MutexTaskStep(t))

MutexSpec == MutexInit /\ [][MutexNext]_mutexvars
FairMutexSpec == MutexSpec /\ MutexFairness

-----------------------------------------------------------------------------
(* At most one task is between its lock and its unlock, with timeouts that *)
(* race the hand-over of the token to a waiter.                            *)
MutualExclusion == \A s \in Obj : Cardinality(owns[s]) <= 1

(* A wait that was served and has not returned yet, or an unlock that has  *)
(* not signalled yet, has the token.                                       *)
InHand(s) ==
  {t \in Task : \/ call[t] = <<"sig_sem", s>>
                \/ /\ call[t] \in {<<"dispatch", s>>, <<"ercd", s>>}
                   /\ k.ercd[t] = "E_OK"}

(* The one token is in the count, with its owner or on its way, always in  *)
(* exactly one place: none is lost to a wait that times out as it is       *)
(* served, none is made (semaphore.c, wait.c, timer.c).                    *)
TokenConserved ==
  \A s \in Obj : sem[s].exists =>
    sem[s].semcnt + Cardinality(owns[s]) + Cardinality(InHand(s)) = 1

(* Who waits for the semaphore is served or gives up: the owner, of any    *)
(* priority, gets the processor while the others wait.                     *)
WaiterServed ==
  \A s \in Obj, t \in Task : t \in ToSet(k.waitq[s]) ~> t \notin ToSet(k.waitq[s])

(* The lwIP mutex is one: its one token has one place at any time, and so  *)
(* one owner, whatever times out (sys_mutex_lock, sys_mutex_unlock).       *)
TokenExact == MutualExclusion /\ TokenConserved

(* No wait is without end: a timed one ends by its count, any other when the*)
(* owner, which gets the processor, unlocks; and who is chosen runs.       *)
WaitsEnd == TimedWaitEnds /\ ChosenRuns /\ WaiterServed
=============================================================================
