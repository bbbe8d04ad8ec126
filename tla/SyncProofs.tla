------------------------------ MODULE SyncProofs ------------------------------
(***************************************************************************)
(* Semaphores, for any number of them, of tasks and of tokens: what each   *)
(* queue holds, in which order, and that no token is idle while a task     *)
(* waits for one; the mutexes made of them: where the one token is.  Event *)
(* flags, for any number of them, of tasks and of bits: nobody waits for   *)
(* an event that is there, and what a wait returns satisfies what was      *)
(* asked for.                                                              *)
(***************************************************************************)
EXTENDS Mutex, Eventflag, KernelProofs

------------------------------------------------------------------------------
(* The semaphores of src/kernel/semaphore.c.                               *)

(* The tasks inside wai_sem for s, from its critical section on.           *)
SemInside(s) == {t \in Task : call[t] \in {<<"dispatch", s>>, <<"ercd", s>>}}

(* A task may wait for s: no token is left, and s is there.                *)
SemMayWait(s) == sem[s].semcnt = 0 /\ (GuardedDelete => sem[s].exists)

(* What the kernel's lemmas leave open: a semaphore's queue holds tasks    *)
(* inside wai_sem for it, in the order of its attribute, while no token is *)
(* left; __wai_sem sets no tskwait.                                        *)
SemCtx == [calls  |-> SemCalls,
           member |-> [s \in Obj |-> IF SemMayWait(s) THEN SemInside(s) ELSE {}],
           sorted |-> {s \in Obj : sem[s].tpri},
           caused |-> FALSE]

(* While wait_delete empties a queue, the task in del_sem is past its      *)
(* critical section, and no other call is about to use the semaphore.      *)
DeleteInv ==
  /\ event \in Obj => /\ runtsk \in Task /\ call[runtsk] = Dispatch
                      /\ GuardedDelete => AboutToUse(event) = {}
  /\ GuardedDelete => UsesExisting

SInv == IInv(SemCtx) /\ sem \in SemType /\ DeleteInv

-----------------------------------------------------------------------------
(* Where the tasks are: the calls of module Kernel, and those of this one. *)

(* The calls of a semaphore are none of the kernel's.                      *)
LEMMA SemCallsApart ==
  /\ Calls \subseteq SemCalls
  /\ \A s \in Obj : /\ <<"dispatch", s>> \in SemCalls /\ Leaving(<<"dispatch", s>>)
                    /\ <<"ercd", s>> \in SemCalls /\ <<"sig_sem", s>> \in SemCalls
                    /\ \A c \in Csem : <<"cre_sem", s, c>> \in SemCalls
                    /\ \A tmo \in Tmo : <<"wai_sem", s, tmo>> \in SemCalls
  /\ \A s : /\ <<"ercd", s>> \notin Calls /\ <<"dispatch", s>> \notin Calls
            /\ <<"sig_sem", s>> \notin Calls /\ ~Leaving(<<"ercd", s>>)
            /\ ~Leaving(<<"sig_sem", s>>) /\ <<"sig_sem", s>> # Boot
            /\ <<"ercd", s>> # Boot /\ <<"dispatch", s>> # Boot
            /\ \A x : /\ <<"ercd", s>> # <<"cre_tsk", x>>
                      /\ <<"sig_sem", s>> # <<"cre_tsk", x>>
                      /\ <<"ercd", s>> # <<"dispatch", x>>
                      /\ <<"sig_sem", s>> \notin {<<"dispatch", x>>, <<"ercd", x>>}
            /\ \A x, p : /\ <<"ercd", s>> # <<"chg_pri", x, p>>
                         /\ <<"sig_sem", s>> # <<"chg_pri", x, p>>
  /\ \A s, v : /\ <<"wai_sem", s, v>> \notin Calls /\ ~Leaving(<<"wai_sem", s, v>>)
               /\ <<"cre_sem", s, v>> \notin Calls /\ ~Leaving(<<"cre_sem", s, v>>)
               /\ <<"wai_sem", s, v>> # Boot /\ <<"cre_sem", s, v>> # Boot
               /\ \A x : /\ <<"wai_sem", s, v>> # <<"cre_tsk", x>>
                         /\ <<"cre_sem", s, v>> # <<"cre_tsk", x>>
                         /\ <<"wai_sem", s, v>> \notin {<<"dispatch", x>>, <<"ercd", x>>,
                                                        <<"sig_sem", x>>}
                         /\ <<"cre_sem", s, v>> \notin {<<"dispatch", x>>, <<"ercd", x>>,
                                                        <<"sig_sem", x>>}
               /\ \A x, p : /\ <<"wai_sem", s, v>> # <<"chg_pri", x, p>>
                            /\ <<"cre_sem", s, v>> # <<"chg_pri", x, p>>
                            /\ <<"cre_sem", s, v>> # <<"wai_sem", x, p>>
<1>1. \A s \in Obj : /\ \A c \in Csem : <<"cre_sem", s, c>> \in SemCalls
                     /\ \A tmo \in Tmo : <<"wai_sem", s, tmo>> \in SemCalls
                     /\ \A v \in {"sig_sem", "dispatch", "ercd"} : <<v, s>> \in SemCalls
  BY DEF SemCalls
<1>2. Calls \subseteq SemCalls
  BY DEF SemCalls
<1>3. \A c \in Calls : \/ c[1] \in {"user", "dispatch", "boot"} /\ Len(c) = 1
                       \/ c[1] = "cre_tsk" /\ Len(c) = 2
                       \/ c[1] = "chg_pri" /\ Len(c) = 3
  BY DEF Calls, User, Dispatch, Boot
<1>4. \A c : Leaving(c) => c[1] = "dispatch"
  BY DEF Leaving, Dispatch
<1> QED BY <1>1, <1>2, <1>3, <1>4 DEF Leaving, Dispatch, Boot

-----------------------------------------------------------------------------
(* The steps. *)

(* The invariant, with the value that SemCtx has before a step.            *)
LEMMA SemHere ==
  ASSUME SInv
  PROVE  \E a : /\ a = SemCtx /\ IInv(a) /\ Sound(k, a) /\ Flow(a)
                /\ a.calls = SemCalls /\ ~a.caused
                /\ a.sorted = {s \in Obj : sem[s].tpri}
                /\ \A s \in Obj : a.member[s] = IF SemMayWait(s) THEN SemInside(s) ELSE {}
<1>1. PICK a : a = SemCtx
  OBVIOUS
<1>2. IInv(a) /\ Sound(k, a) /\ Flow(a)
  BY <1>1 DEF SInv, IInv, Flow, Typed
<1>3. /\ a.calls = SemCalls /\ ~a.caused /\ a.sorted = {s \in Obj : sem[s].tpri}
      /\ \A s \in Obj : a.member[s] = IF SemMayWait(s) THEN SemInside(s) ELSE {}
  BY <1>1 DEF SemCtx
<1> QED BY <1>1, <1>2, <1>3

(* What is kept with that value is kept, when the tasks that still wait    *)
(* may wait, and are inside their call.                                    *)
LEMMA SemCarried ==
  ASSUME NEW a, a = SemCtx, Sound(k', a), Flow(a)',
         \A o \in Obj : k'.waitq[o] # <<>> =>
           /\ sem'[o].tpri = sem[o].tpri
           /\ SemMayWait(o) => SemMayWait(o)',
         \A o \in Obj, u \in Task :
           u \in SemInside(o) /\ k'.state[u] \in Waiting => u \in SemInside(o)'
  PROVE  IInv(SemCtx)'
<1>1. PICK b : b = SemCtx'
  OBVIOUS
<1>2. /\ a.calls = SemCalls /\ ~a.caused /\ a.sorted = {s \in Obj : sem[s].tpri}
      /\ \A s \in Obj : a.member[s] = IF SemMayWait(s) THEN SemInside(s) ELSE {}
  BY DEF SemCtx
<1>3. /\ b.calls = SemCalls /\ ~b.caused /\ b.sorted = {s \in Obj : sem'[s].tpri}
      /\ \A s \in Obj : b.member[s] = IF SemMayWait(s)' THEN SemInside(s)' ELSE {}
  BY <1>1 DEF SemCtx
<1>4. \A o \in Obj : k'.waitq[o] # <<>> => (o \in b.sorted => o \in a.sorted)
  BY <1>2, <1>3
<1>5. ASSUME NEW o \in Obj, NEW u \in ToSet(k'.waitq[o]) PROVE u \in b.member[o]
  <2>1. /\ k'.waitq[o] \in Seq(Task) /\ k'.state[u] \in Waiting /\ u \in a.member[o]
    BY DEF Sound, KernelType, WaitsInv, QueueOK
  <2>2. u \in Task /\ k'.waitq[o] # <<>>
    BY <2>1 DEF ToSet
  <2>3. SemMayWait(o) /\ u \in SemInside(o)
    BY <2>1, <1>2
  <2>4. SemMayWait(o)' /\ u \in SemInside(o)'
    BY <2>1, <2>2, <2>3
  <2> QED BY <2>4, <1>3
<1>6. Sound(k', b)
  BY <1>2, <1>3, <1>4, <1>5, Recontext
<1>7. Sound(k', SemCtx')
  BY <1>1, <1>6
<1>8. SemCtx'.calls = a.calls
  BY <1>1, <1>2, <1>3
<1> QED BY <1>7, <1>8 DEF IInv, Flow, Typed

(* A step of module Kernel.                                                *)
LEMMA SemKernelStep ==
  ASSUME SInv, WellBehaved, Next, UNCHANGED sem PROVE SInv'
<1>1. PICK a : /\ a = SemCtx /\ IInv(a)
  BY SemHere
<1>2. IInv(a)' /\ event \notin Obj /\ event' \notin Obj /\ \A u \in Task : CallMoves(u)
  BY <1>1, StepIInv, NextMoves, SemaphoreAssumption
<1>3. Sound(k', a) /\ Flow(a)'
  BY <1>2 DEF IInv
<1>4. ASSUME NEW o \in Obj, NEW u \in Task, u \in SemInside(o), k'.state[u] \in Waiting
      PROVE  u \in SemInside(o)'
  <2>1. call[u] \notin Calls /\ k'.state[u] # "RDY"
    BY <1>4, SemCallsApart DEF SemInside, Waiting
  <2>2. call'[u] = call[u]
    BY <2>1, <1>2 DEF CallMoves
  <2> QED BY <2>2, <1>4 DEF SemInside
<1>5. \A o \in Obj : SemMayWait(o) => SemMayWait(o)'
  BY DEF SemMayWait
<1>6. IInv(SemCtx)'
  BY <1>1, <1>3, <1>4, <1>5, SemCarried
<1>7. \A o \in Obj : AboutToUse(o)' \subseteq AboutToUse(o)
  BY <1>2, SemCallsApart DEF AboutToUse, CallMoves
<1> QED BY <1>2, <1>6, <1>7 DEF SInv, DeleteInv, UsesExisting

(* A call that is not one of the kernel's unfinished ones.                 *)
SemOwnCall(d) ==
  /\ d \in SemCalls /\ d # Boot
  /\ \A x : d # <<"cre_tsk", x>>
  /\ \A x, p : d # <<"chg_pri", x, p>>

LEMMA SemOwnCalls ==
  /\ SemOwnCall(User) /\ SemOwnCall(Dispatch)
  /\ \A s \in Obj : /\ SemOwnCall(<<"sig_sem", s>>)
                    /\ \A c \in Csem : SemOwnCall(<<"cre_sem", s, c>>)
                    /\ \A tmo \in Tmo : SemOwnCall(<<"wai_sem", s, tmo>>)
<1>1. /\ User \in SemCalls /\ Dispatch \in SemCalls /\ User # Boot /\ Dispatch # Boot
      /\ \A x : User # <<"cre_tsk", x>> /\ Dispatch # <<"cre_tsk", x>>
      /\ \A x, p : User # <<"chg_pri", x, p>> /\ Dispatch # <<"chg_pri", x, p>>
  BY DEF User, Dispatch, Boot, SemCalls, Calls
<1> QED BY <1>1, SemCallsApart DEF SemOwnCall

(* A running task that is in no queue goes on from c to d.                 *)
LEMMA MovesOn ==
  ASSUME SInv, NEW t \in Task, NEW c, ~Leaving(c), At(t, c),
         NEW d, SemOwnCall(d), Goto(t, d), k'.state = k.state, k'.schedtsk = k.schedtsk
  PROVE  /\ runtsk = t /\ event = NoTask /\ runtsk' = t /\ event' = NoTask
         /\ k.state[t] = "RDY" /\ event' \notin Obj
         /\ \A u \in Task : call'[u] = IF u = t THEN d ELSE call[u]
         /\ \A a : a = SemCtx => Flow(a)'
         /\ \A o \in Obj, u \in Task :
              u \in SemInside(o) /\ k'.state[u] \in Waiting => u \in SemInside(o)'
<1>1. PICK a : a = SemCtx /\ IInv(a) /\ Flow(a) /\ a.calls = SemCalls
  BY SemHere
<1>2. /\ runtsk = t /\ event = NoTask /\ runtsk' = t /\ event' = NoTask
      /\ k.state[t] = "RDY" /\ call \in [Task -> SemCalls]
  BY <1>1, Running DEF Goto
<1>3. event' \notin Obj
  BY <1>2, SemaphoreAssumption
<1>4. \A u \in Task : call'[u] = IF u = t THEN d ELSE call[u]
  BY <1>2 DEF Goto
<1>5. Flow(a)'
  BY <1>1, GoOnFlow DEF SemOwnCall
<1>6. ASSUME NEW o \in Obj, NEW u \in Task, u \in SemInside(o), k'.state[u] \in Waiting
      PROVE  u \in SemInside(o)'
  <2>1. u # t
    BY <1>2, <1>6 DEF Waiting
  <2> QED BY <2>1, <1>4, <1>6 DEF SemInside
<1>7. ASSUME NEW b, b = SemCtx PROVE Flow(b)'
  BY <1>1, <1>5, <1>7
<1> QED BY <1>2, <1>3, <1>4, <1>6, <1>7

(* The existence tests, and the return from wai_sem.                       *)
LEMMA SemGoOnStep ==
  ASSUME SInv, NEW t \in Task, NEW c, ~Leaving(c), At(t, c),
         NEW d, SemOwnCall(d), Goto(t, d), UNCHANGED <<k, sem>>,
         \A o \in Obj : \/ sem[o].exists
                        \/ /\ d # <<"sig_sem", o>>
                           /\ \A tmo \in Tmo : d # <<"wai_sem", o, tmo>>
  PROVE  SInv'
<1>1. PICK a : a = SemCtx /\ Sound(k, a)
  BY SemHere
<1>2. /\ k' = k /\ sem' = sem /\ event' \notin Obj
      /\ \A u \in Task : call'[u] = IF u = t THEN d ELSE call[u]
      /\ \A o \in Obj, u \in Task :
              u \in SemInside(o) /\ k'.state[u] \in Waiting => u \in SemInside(o)'
  BY MovesOn
<1>3. Flow(a)'
  BY <1>1, MovesOn
<1>4. IInv(SemCtx)'
  BY <1>1, <1>2, <1>3, SemCarried DEF SemMayWait
<1>5. ASSUME NEW o \in Obj, NEW u \in AboutToUse(o)' PROVE u \in AboutToUse(o) \/ sem[o].exists
  BY <1>2 DEF AboutToUse
<1>6. GuardedDelete => UsesExisting'
  BY <1>2, <1>5 DEF SInv, DeleteInv, UsesExisting
<1> QED BY <1>2, <1>4, <1>6 DEF SInv, DeleteInv

LEMMA CreateStep ==
  ASSUME SInv, NEW t \in Task, NEW s \in Obj, NEW c \in Csem, _cre_sem(t, s, c)
  PROVE  SInv'
<1>1. PICK a : a = SemCtx /\ Sound(k, a) /\ ~a.caused
  BY SemHere
<1>2. /\ At(t, <<"cre_sem", s, c>>) /\ ~Leaving(<<"cre_sem", s, c>>)
      /\ Goto(t, User) /\ SemOwnCall(User)
  BY SemCallsApart, SemOwnCalls DEF _cre_sem
<1>3. /\ Sound(k', a) /\ k'.state = k.state /\ k'.schedtsk = k.schedtsk
      /\ k'.waitq = [k.waitq EXCEPT ![s] = <<>>] /\ k.waitq \in [Obj -> Seq(Task)]
  <2>1. k' = [k EXCEPT !.waitq[s] = <<>>] /\ k \in KernelType
    BY <1>1 DEF _cre_sem, Sound
  <2>2. Sound(k', a)
    BY <1>1, <2>1, EmptySound
  <2> QED BY <2>1, <2>2 DEF KernelType
<1>4. /\ event' \notin Obj
      /\ \A u \in Task : call'[u] = IF u = t THEN User ELSE call[u]
      /\ \A o \in Obj, u \in Task :
              u \in SemInside(o) /\ k'.state[u] \in Waiting => u \in SemInside(o)'
      /\ \A b : b = SemCtx => Flow(b)'
  BY <1>2, <1>3, MovesOn
<1>5. /\ sem' \in SemType /\ sem'[s].exists
      /\ \A o \in Obj : o # s => sem'[o] = sem[o]
  BY SemaphoreAssumption DEF _cre_sem, SInv, SemType
<1>6. ASSUME NEW o \in Obj, k'.waitq[o] # <<>>
      PROVE  sem'[o].tpri = sem[o].tpri /\ (SemMayWait(o) => SemMayWait(o)')
  BY <1>3, <1>5, <1>6 DEF SemMayWait
<1>7. IInv(SemCtx)'
  BY <1>1, <1>3, <1>4, <1>6, SemCarried
<1>8. \A o \in Obj : AboutToUse(o)' \subseteq AboutToUse(o)
  BY <1>4, SemCallsApart, CallsApart DEF AboutToUse, User
<1>9. GuardedDelete => UsesExisting'
  BY <1>5, <1>8 DEF SInv, DeleteInv, UsesExisting
<1> QED BY <1>4, <1>5, <1>7, <1>9 DEF SInv, DeleteInv

(* _sig_sem: the first waiter is released, or the token is counted.        *)
LEMMA SignalSound ==
  ASSUME SInv, NEW a, a = SemCtx, NEW s \in Obj, _sig_sem(s)
  PROVE  /\ Sound(k', a) /\ sem' \in SemType
         /\ \A o \in Obj : sem'[o].exists = sem[o].exists /\ sem'[o].tpri = sem[o].tpri
         /\ \A o \in Obj : k'.waitq[o] # <<>> => (SemMayWait(o) => SemMayWait(o)')
         /\ \A u \in Task : /\ k.state[u] = "RDY" => k'.state[u] = "RDY"
                            /\ k.state[u] = "NOEXS" => k'.state[u] = "NOEXS"
         /\ k' = k \/ \E u \in Task : k.state[u] \in Waiting
<1>1. Sound(k, a) /\ k \in KernelType /\ sem \in SemType
  BY SemHere DEF Sound, SInv
<1>2. CASE /\ ~kqueue_empty(k.waitq[s])
           /\ k' = wait_release_ok(k, kqueue_next(k.waitq[s]))
           /\ UNCHANGED sem
  <2> DEFINE t == kqueue_next(k.waitq[s])
             l == [k EXCEPT !.ercd[t] = "E_OK"]
  <2>1. k.waitq[s] # <<>> /\ k' = wait_release(l, t)
    BY <1>2 DEF kqueue_empty, wait_release_ok
  <2>2. /\ t \in Task /\ k.state[t] \in Waiting /\ Sound(k', a)
        /\ Released(l, k', t) /\ l.state = k.state
    <3>1. PICK e \in {"E_OK", "E_TMOUT", "E_DLT"} : l = [k EXCEPT !.ercd[t] = e]
      OBVIOUS
    <3> HIDE DEF l, t
    <3> QED BY <1>1, <2>1, <3>1, ReleaseFirst DEF t
  <2> HIDE DEF l, t
  <2>3. k.state \in [Task -> States]
    BY <1>1 DEF KernelType
  <2>4. \A u \in Task : /\ k.state[u] = "RDY" => k'.state[u] = "RDY"
                        /\ k.state[u] = "NOEXS" => k'.state[u] = "NOEXS"
    BY <2>2, <2>3 DEF Waiting, Released
  <2> QED BY <1>1, <1>2, <2>2, <2>4 DEF SemMayWait
<1>3. CASE /\ kqueue_empty(k.waitq[s])
           /\ sem' = [sem EXCEPT ![s].semcnt = IF @ >= sem[s].maxsem THEN @ ELSE @ + 1]
           /\ UNCHANGED k
  <2> DEFINE n == IF sem[s].semcnt >= sem[s].maxsem THEN sem[s].semcnt
                  ELSE sem[s].semcnt + 1
  <2>1. n \in 0..TMAX_MAXSEM
    BY <1>1, SemaphoreAssumption DEF SemType
  <2>2. sem' = [sem EXCEPT ![s].semcnt = n]
    BY <1>3
  <2> HIDE DEF n
  <2>3. /\ sem' \in SemType
        /\ \A o \in Obj : sem'[o].exists = sem[o].exists /\ sem'[o].tpri = sem[o].tpri
        /\ \A o \in Obj : o # s => sem'[o] = sem[o]
    BY <1>1, <2>1, <2>2 DEF SemType
  <2>4. \A o \in Obj : k'.waitq[o] # <<>> => (SemMayWait(o) => SemMayWait(o)')
    BY <1>3, <2>3 DEF SemMayWait, kqueue_empty
  <2> QED BY <1>1, <1>3, <2>3, <2>4
<1> QED BY <1>2, <1>3 DEF _sig_sem

(* What DeleteInv says stays true when no call is begun.                   *)
LEMMA DeleteKept ==
  ASSUME SInv, event' \notin Obj,
         \A o \in Obj : AboutToUse(o)' \subseteq AboutToUse(o),
         \A o \in Obj : sem[o].exists => sem'[o].exists
  PROVE  DeleteInv'
BY DEF SInv, DeleteInv, UsesExisting

LEMMA SigStep ==
  ASSUME SInv, NEW t \in Task, NEW s \in Obj, sig_sem(t, s) PROVE SInv'
<1>1. PICK a : a = SemCtx /\ Flow(a) /\ IInv(a) /\ a.calls = SemCalls
  BY SemHere
<1>2. /\ At(t, <<"sig_sem", s>>) /\ Goto(t, Dispatch) /\ _sig_sem(s)
      /\ ~Leaving(<<"sig_sem", s>>)
  BY SemCallsApart DEF sig_sem
<1>3. /\ runtsk = t /\ event = NoTask /\ call[t] = <<"sig_sem", s>>
      /\ call \in [Task -> SemCalls] /\ k.state[t] = "RDY"
  BY <1>1, <1>2, Running
<1>4. /\ call' \in [Task -> SemCalls] /\ Leaving(call'[t])
      /\ runtsk' = runtsk /\ event' = event
      /\ \A u \in Task : call'[u] = IF u = t THEN Dispatch ELSE call[u]
  BY <1>2, <1>3, SemCallsApart, CallsApart DEF Goto, Calls
<1>5. /\ Sound(k', a) /\ sem' \in SemType
      /\ \A o \in Obj : sem'[o].exists = sem[o].exists /\ sem'[o].tpri = sem[o].tpri
      /\ \A o \in Obj : k'.waitq[o] # <<>> => (SemMayWait(o) => SemMayWait(o)')
      /\ \A u \in Task : /\ k.state[u] = "RDY" => k'.state[u] = "RDY"
                         /\ k.state[u] = "NOEXS" => k'.state[u] = "NOEXS"
  BY <1>1, <1>2, SignalSound
<1>6. event' \in (Obj \union {NoTask}) \ Task /\ event' \notin Obj
  BY <1>3, <1>4, SemaphoreAssumption, ReadyQueueAssumption
<1>7. Flow(a)'
  BY <1>1, <1>3, <1>4, <1>5, <1>6, DispatchFlow
<1>8. ASSUME NEW o \in Obj, NEW u \in Task, u \in SemInside(o), k'.state[u] \in Waiting
      PROVE  u \in SemInside(o)'
  BY <1>3, <1>4, <1>8, SemCallsApart DEF SemInside
<1>9. IInv(SemCtx)'
  BY <1>1, <1>5, <1>7, <1>8, SemCarried
<1>10. \A o \in Obj : AboutToUse(o)' \subseteq AboutToUse(o)
  <2>1. Dispatch \in Calls
    BY DEF Calls
  <2> QED BY <2>1, <1>4, SemCallsApart DEF AboutToUse
<1>11. DeleteInv'
  BY <1>5, <1>6, <1>10, DeleteKept
<1> QED BY <1>5, <1>9, <1>11 DEF SInv

LEMMA IsigStep ==
  ASSUME SInv, NEW s \in Obj, isig_sem(s) PROVE SInv'
<1>1. PICK a : /\ a = SemCtx /\ Flow(a) /\ IInv(a) /\ Sound(k, a) /\ a.calls = SemCalls
  BY SemHere
<1>2. /\ event = NoTask /\ event' = NoTask /\ call' = call /\ _sig_sem(s) /\ irq_return
  BY DEF isig_sem, irq_entry
<1>3. /\ Sound(k', a) /\ sem' \in SemType
      /\ \A o \in Obj : sem'[o].exists = sem[o].exists /\ sem'[o].tpri = sem[o].tpri
      /\ \A o \in Obj : k'.waitq[o] # <<>> => (SemMayWait(o) => SemMayWait(o)')
      /\ \A u \in Task : /\ k.state[u] = "RDY" => k'.state[u] = "RDY"
                         /\ k.state[u] = "NOEXS" => k'.state[u] = "NOEXS"
      /\ k' = k \/ \E u \in Task : k.state[u] \in Waiting
  BY <1>1, <1>2, SignalSound
<1>4. call' \in [Task -> a.calls] /\ event' \notin Obj
  BY <1>1, <1>2, SemaphoreAssumption DEF Flow, Typed
<1>5. call[INIT_TASK] = Boot => k' = k
  BY <1>1, <1>3 DEF Flow, CallInv, Waiting
<1>6. Flow(a)'
  BY <1>1, <1>2, <1>3, <1>4, <1>5, IrqFlow
<1>7. \A o \in Obj : SemInside(o)' = SemInside(o) /\ AboutToUse(o)' = AboutToUse(o)
  BY <1>2 DEF SemInside, AboutToUse
<1>8. IInv(SemCtx)'
  BY <1>1, <1>3, <1>6, <1>7, SemCarried
<1>9. DeleteInv'
  BY <1>3, <1>4, <1>7, DeleteKept
<1> QED BY <1>3, <1>8, <1>9 DEF SInv

(* del_sem up to wait_delete.                                              *)
LEMMA DelSemStep ==
  ASSUME SInv, NEW t \in Task, NEW s \in Obj, del_sem(t, s) PROVE SInv'
<1>1. PICK a : /\ a = SemCtx /\ Flow(a) /\ IInv(a) /\ Sound(k, a) /\ a.calls = SemCalls
  BY SemHere
<1>2. /\ At(t, User) /\ ~Leaving(User) /\ event' = s /\ k' = k /\ sem' = sem
      /\ runtsk' = runtsk /\ call' = [call EXCEPT ![t] = Dispatch]
      /\ GuardedDelete => AboutToUse(s) = {}
  BY CallsApart DEF del_sem, Calls_
<1>3. /\ runtsk = t /\ event = NoTask /\ call[t] = User
      /\ call \in [Task -> SemCalls] /\ k.state[t] = "RDY"
  BY <1>1, <1>2, Running
<1>4. Dispatch \in Calls /\ Dispatch \in SemCalls /\ User \in Calls
  BY SemCallsApart DEF Calls
<1>5. /\ call' \in [Task -> SemCalls] /\ Leaving(call'[t])
      /\ \A u \in Task : call'[u] = IF u = t THEN Dispatch ELSE call[u]
  BY <1>2, <1>3, <1>4, CallsApart
<1>6. event' \in (Obj \union {NoTask}) \ Task
  BY <1>2, SemaphoreAssumption
<1>7. Flow(a)'
  BY <1>1, <1>2, <1>3, <1>5, <1>6, DispatchFlow
<1>8. \A o \in Obj : SemInside(o)' = SemInside(o) /\ AboutToUse(o)' = AboutToUse(o)
  <2>1. ASSUME NEW o \in Obj, NEW u \in Task
        PROVE  /\ u \in SemInside(o)' <=> u \in SemInside(o)
               /\ u \in AboutToUse(o)' <=> u \in AboutToUse(o)
    <3>1. CASE u = t
      BY <3>1, <1>3, <1>4, <1>5, SemCallsApart DEF SemInside, AboutToUse
    <3>2. CASE u # t
      BY <3>2, <1>5 DEF SemInside, AboutToUse
    <3> QED BY <3>1, <3>2
  <2> QED BY <2>1 DEF SemInside, AboutToUse
<1>9. Sound(k', a) /\ \A o \in Obj : SemMayWait(o)' = SemMayWait(o)
  BY <1>1, <1>2 DEF SemMayWait
<1>10. IInv(SemCtx)'
  BY <1>1, <1>2, <1>7, <1>8, <1>9, SemCarried
<1>11. DeleteInv'
  BY <1>2, <1>3, <1>5, <1>8 DEF SInv, DeleteInv, UsesExisting
<1> QED BY <1>2, <1>10, <1>11 DEF SInv

(* While del_sem empties a queue, its task has left its critical section.  *)
LEMMA DeletingHere ==
  ASSUME SInv, event \in Obj
  PROVE  /\ runtsk \in Task /\ Leaving(call[runtsk])
         /\ \A a : a = SemCtx => Flow(a)
BY SemHere, CallsApart DEF SInv, DeleteInv

(* A turn of wait_delete's loop.                                           *)
LEMMA SemWaitDeleteStep ==
  ASSUME SInv, wait_delete, UNCHANGED sem PROVE SInv'
<1>1. PICK a : a = SemCtx /\ Sound(k, a)
  BY SemHere
<1> DEFINE t == kqueue_next(k.waitq[event])
           l == [k EXCEPT !.ercd[t] = "E_DLT"]
<1>2. /\ event \in Obj /\ k.waitq[event] # <<>> /\ k' = wait_release(l, t)
      /\ runtsk' = runtsk /\ call' = call /\ event' = event
  BY DEF wait_delete, kqueue_empty, wait_release_dlt
<1>3. /\ t \in Task /\ k.state[t] \in Waiting /\ Sound(k', a)
      /\ Released(l, k', t) /\ l.state = k.state
  <2>1. PICK e \in {"E_OK", "E_TMOUT", "E_DLT"} : l = [k EXCEPT !.ercd[t] = e]
    OBVIOUS
  <2>2. PICK o \in Obj : o = event
    BY <1>2
  <2>3. t = kqueue_next(k.waitq[o])
    BY <2>2
  <2> HIDE DEF l, t
  <2> QED BY <1>1, <1>2, <2>1, <2>2, <2>3, ReleaseFirst
<1> HIDE DEF l, t
<1>4. k.state \in [Task -> States]
  BY <1>1 DEF Sound, KernelType
<1>5. \A u \in Task : k.state[u] = "NOEXS" => k'.state[u] = "NOEXS"
  BY <1>3, <1>4 DEF Waiting, Released
<1>6. event' \in (Obj \union {NoTask}) \ Task
  BY <1>2, SemaphoreAssumption
<1>7. Flow(a)'
  BY <1>1, <1>2, <1>5, <1>6, DeletingHere, LoopFlow
<1>8. \A o \in Obj : /\ SemInside(o)' = SemInside(o) /\ AboutToUse(o)' = AboutToUse(o)
                     /\ SemMayWait(o)' = SemMayWait(o) /\ sem'[o] = sem[o]
  BY <1>2 DEF SemInside, AboutToUse, SemMayWait
<1>9. IInv(SemCtx)'
  BY <1>1, <1>3, <1>7, <1>8, SemCarried
<1>10. DeleteInv'
  BY <1>2, <1>8 DEF SInv, DeleteInv, UsesExisting
<1> QED BY <1>9, <1>10 DEF SInv

(* The end of del_sem.                                                     *)
LEMMA DelSemEndStep ==
  ASSUME SInv, del_sem_end PROVE SInv'
<1>1. PICK a : a = SemCtx /\ Sound(k, a)
  BY SemHere
<1>2. PICK s \in Obj :
        /\ s = event /\ k.waitq[s] = <<>>
        /\ sem' = [sem EXCEPT ![s].exists = FALSE, ![s].semcnt = 0]
        /\ event' = NoTask /\ k' = k /\ runtsk' = runtsk /\ call' = call
  BY DEF del_sem_end, kqueue_empty
<1>3. /\ sem' \in SemType
      /\ \A o \in Obj : o # s => sem'[o] = sem[o]
  <2> DEFINE R == [exists : BOOLEAN, tpri : BOOLEAN,
                   semcnt : 0..TMAX_MAXSEM, maxsem : 0..TMAX_MAXSEM]
             q == sem[s]
             r == [[q EXCEPT !.exists = FALSE] EXCEPT !.semcnt = 0]
  <2>1. 0 \in 0..TMAX_MAXSEM /\ sem \in [Obj -> R]
    BY SemaphoreAssumption DEF SInv, SemType
  <2>2. q \in R
    BY <2>1
  <2>3. sem' = [sem EXCEPT ![s] = r]
    BY <1>2, <2>1
  <2> HIDE DEF q
  <2>4. r \in R
    BY <2>1, <2>2
  <2> HIDE DEF r
  <2> QED BY <2>1, <2>3, <2>4 DEF SemType
<1>4. event' \in (Obj \union {NoTask}) \ Task /\ event' \notin Obj
  BY <1>2, SemaphoreAssumption, ReadyQueueAssumption
<1>5. Flow(a)'
  BY <1>1, <1>2, <1>4, DeletingHere, LoopFlow
<1>6. /\ Sound(k', a)
      /\ \A o \in Obj : SemInside(o)' = SemInside(o) /\ AboutToUse(o)' = AboutToUse(o)
  BY <1>1, <1>2 DEF SemInside, AboutToUse
<1>7. ASSUME NEW o \in Obj, k'.waitq[o] # <<>>
      PROVE  sem'[o].tpri = sem[o].tpri /\ (SemMayWait(o) => SemMayWait(o)')
  BY <1>2, <1>3, <1>7 DEF SemMayWait
<1>8. IInv(SemCtx)'
  BY <1>1, <1>5, <1>6, <1>7, SemCarried
<1>9. GuardedDelete => UsesExisting'
  BY <1>2, <1>3, <1>6 DEF SInv, DeleteInv, UsesExisting
<1> QED BY <1>3, <1>4, <1>8, <1>9 DEF SInv, DeleteInv

(* The dispatch() of a waiting call: who comes next returns its ercd.      *)
LEMMA WaiDispatchStep ==
  ASSUME SInv, NEW t \in Task, NEW s \in Obj, wai_sem_dispatch(t, s) PROVE SInv'
<1>1. PICK a : /\ a = SemCtx /\ Flow(a) /\ Sound(k, a) /\ a.calls = SemCalls
  BY SemHere
<1> DEFINE d == <<"ercd", s>>
<1>2. /\ runtsk = t /\ event = NoTask /\ t # NoTask /\ k' = k /\ event' = event
      /\ runtsk' = k.schedtsk /\ call' = [call EXCEPT ![t] = d]
      /\ call[t] = <<"dispatch", s>> /\ sem' = sem
      /\ Typed(a) /\ SchedInv(k) /\ INIT_TASK \in Task
  BY <1>1, ReadyQueueAssumption, KernelAssumption DEF wai_sem_dispatch, At, Flow, Sound
<1>4. /\ d \in SemCalls /\ d # Boot /\ \A x : d # <<"cre_tsk", x>>
      /\ \A x, p : d # <<"chg_pri", x, p>>
  BY SemCallsApart
<1>5. d \in {<<"dispatch", s>>, <<"ercd", s>>}
  OBVIOUS
<1>6. \A o : d # <<"sig_sem", o>> /\ \A v : d # <<"wai_sem", o, v>>
  BY SemCallsApart
<1> HIDE DEF d
<1>7. \A u \in Task : call'[u] = IF u = t THEN d ELSE call[u]
  BY <1>2 DEF Typed
<1>11. Flow(a)'
  <2>1. /\ d \in a.calls /\ SchedInv(k') /\ runtsk' = k'.schedtsk
        /\ \A u \in Task : k.state[u] = "NOEXS" => k'.state[u] = "NOEXS"
    BY <1>1, <1>2, <1>4
  <2> QED BY <1>1, <1>2, <1>4, <2>1, SwitchFlow
<1>12. ASSUME NEW o \in Obj, NEW u \in Task, u \in SemInside(o) PROVE u \in SemInside(o)'
  <2>1. CASE u = t
    <3>1. o = s
      BY <2>1, <1>2, <1>12 DEF SemInside
    <3> QED BY <2>1, <3>1, <1>5, <1>7 DEF SemInside
  <2>2. CASE u # t
    BY <2>2, <1>7, <1>12 DEF SemInside
  <2> QED BY <2>1, <2>2
<1>13. IInv(SemCtx)'
  BY <1>1, <1>2, <1>11, <1>12, SemCarried DEF SemMayWait
<1>14. event' \notin Obj /\ \A o \in Obj : AboutToUse(o)' \subseteq AboutToUse(o)
  BY <1>2, <1>6, <1>7, SemaphoreAssumption DEF AboutToUse
<1>15. DeleteInv'
  BY <1>2, <1>14, DeleteKept
<1> QED BY <1>2, <1>13, <1>15 DEF SInv

(* A task without a token waits: it joins the queue of s.                  *)
LEMMA WaiJoin ==
  ASSUME SInv, NEW a, a = SemCtx, NEW t \in Task, NEW s \in Obj, NEW tmo \in Tmo,
         call[t] = <<"wai_sem", s, tmo>>, k.state[t] = "RDY", sem[s].semcnt = 0,
         UNCHANGED sem, \A u \in Task : call'[u] = IF u = t THEN <<"dispatch", s>> ELSE call[u],
         NEW l, l = [k EXCEPT !.ercd[t] = "E_TMOUT"],
         k' = obj_make_wait(l, t, s, tmo, sem[s].tpri)
  PROVE  /\ \A b : b = SemCtx' => Sound(k', b)
         /\ Joined(k', l, t)
<1>1. /\ Sound(k, a) /\ a.sorted = {o \in Obj : sem[o].tpri}
      /\ ~a.caused /\ sem \in SemType /\ tmo \in Int
      /\ \A o \in Obj : a.member[o] = IF SemMayWait(o) THEN SemInside(o) ELSE {}
  BY SemHere, KernelAssumption DEF SInv, Sound
<1>2. PICK b : b = SemCtx'
  OBVIOUS
<1>3. /\ ~b.caused /\ b.sorted = a.sorted
      /\ \A o \in Obj : b.member[o] = IF SemMayWait(o)' THEN SemInside(o)' ELSE {}
      /\ \A o \in Obj : SemMayWait(o)' = SemMayWait(o)
  <2>1. b.sorted = {o \in Obj : sem'[o].tpri}
    BY <1>2 DEF SemCtx
  <2> QED BY <1>1, <1>2, <2>1 DEF SemCtx, SemMayWait
<1>4. ASSUME NEW o \in Obj, NEW u \in ToSet(k.waitq[o]) PROVE u \in b.member[o]
  <2>1. u \in a.member[o] /\ k.state[u] \in Waiting
    BY <1>1 DEF Sound, WaitsInv, QueueOK
  <2>2. SemMayWait(o) /\ u \in SemInside(o) /\ u # t
    BY <1>1, <2>1 DEF Waiting
  <2>3. u \in SemInside(o)'
    BY <2>2 DEF SemInside
  <2> QED BY <1>3, <2>2, <2>3
<1>5. t \in b.member[s]
  <2>1. GuardedDelete => sem[s].exists
    BY DEF SInv, DeleteInv, UsesExisting, AboutToUse
  <2>2. SemMayWait(s)' /\ t \in SemInside(s)'
    BY <2>1 DEF SemMayWait, SemInside
  <2> QED BY <1>3, <2>2
<1>6. PICK p : p = (s \in a.sorted)
  OBVIOUS
<1>7. PICK z : z = k'
  OBVIOUS
<1>8. z = obj_make_wait(l, t, s, tmo, p)
  <2>1. sem[s].tpri \in BOOLEAN /\ (p <=> sem[s].tpri)
    BY <1>1, <1>6 DEF SemType
  <2> QED BY <1>7, <2>1 DEF obj_make_wait
<1>9. PICK e \in {"E_OK", "E_TMOUT", "E_DLT"} : l = [k EXCEPT !.ercd[t] = e]
  OBVIOUS
<1>10. Sound(z, b) /\ Joined(z, l, t)
  BY <1>1, <1>3, <1>4, <1>5, <1>6, <1>8, <1>9, JoinsQueue
<1> QED BY <1>2, <1>7, <1>10

LEMMA SemWaiStep ==
  ASSUME SInv, NEW t \in Task, NEW s \in Obj, NEW tmo \in Tmo, __wai_sem(t, s, tmo)
  PROVE  SInv'
<1> DEFINE d == <<"dispatch", s>>
<1>1. PICK a : /\ a = SemCtx /\ Flow(a) /\ IInv(a) /\ Sound(k, a) /\ a.calls = SemCalls
               /\ k \in KernelType
  BY SemHere DEF Sound
<1>2. /\ At(t, <<"wai_sem", s, tmo>>) /\ ~Leaving(<<"wai_sem", s, tmo>>) /\ Goto(t, d)
  BY SemCallsApart DEF __wai_sem
<1>3. /\ runtsk = t /\ event = NoTask /\ call[t] = <<"wai_sem", s, tmo>>
      /\ call \in [Task -> SemCalls] /\ k.state[t] = "RDY"
  BY <1>1, <1>2, Running
<1>4. /\ call' \in [Task -> SemCalls] /\ Leaving(call'[t])
      /\ runtsk' = runtsk /\ event' = event
      /\ \A u \in Task : call'[u] = IF u = t THEN d ELSE call[u]
  BY <1>2, <1>3, SemCallsApart DEF Goto
<1>5. event' \in (Obj \union {NoTask}) \ Task /\ event' \notin Obj
  BY <1>3, <1>4, SemaphoreAssumption, ReadyQueueAssumption
<1>6. \A o \in Obj, u \in Task : u # t /\ u \in SemInside(o) => u \in SemInside(o)'
  BY <1>4 DEF SemInside
<1>7. \A o \in Obj : t \notin SemInside(o)
  BY <1>3, SemCallsApart DEF SemInside
<1>8. sem' \in SemType /\ \A o \in Obj : sem'[o].exists = sem[o].exists
  <2>1. CASE sem' = [sem EXCEPT ![s].semcnt = @ - 1] /\ sem[s].semcnt > 0
    <3> DEFINE n == sem[s].semcnt - 1
    <3>1. n \in 0..TMAX_MAXSEM /\ sem' = [sem EXCEPT ![s].semcnt = n]
      BY <2>1, SemaphoreAssumption DEF SInv, SemType
    <3> HIDE DEF n
    <3> QED BY <3>1 DEF SInv, SemType
  <2>2. CASE sem' = sem
    BY <2>2 DEF SInv
  <2> QED BY <2>1, <2>2 DEF __wai_sem
<1>9. IInv(SemCtx)' /\ k'.state[t] \in {"RDY", "WAI"}
  <2>1. ASSUME NEW e \in {"E_OK", "E_TMOUT", "E_DLT"}, k' = [k EXCEPT !.ercd[t] = e],
               \/ sem[s].semcnt > 0 /\ sem' = [sem EXCEPT ![s].semcnt = @ - 1]
               \/ sem' = sem
        PROVE  IInv(SemCtx)' /\ k'.state = k.state
    <3>1. /\ k' \in KernelType /\ k'.state = k.state /\ k'.tskpri = k.tskpri
          /\ k'.rdyq = k.rdyq /\ k'.schedtsk = k.schedtsk
          /\ k'.tskwait = k.tskwait /\ k'.wupcnt = k.wupcnt
          /\ k'.suscnt = k.suscnt /\ k'.waitq = k.waitq /\ k'.timerq = k.timerq
      BY <1>1, <2>1 DEF KernelType
    <3>2. Sound(k', a)
      BY <1>1, <3>1, OtherFields
    <3>3. Flow(a)'
      BY <1>1, <1>3, <1>4, <1>5, <3>1, DispatchFlow
    <3>4. ASSUME NEW o \in Obj
          PROVE  sem'[o].tpri = sem[o].tpri /\ (SemMayWait(o) => SemMayWait(o)')
      BY <2>1, SemaphoreAssumption DEF SInv, SemType, SemMayWait
    <3>5. IInv(SemCtx)'
      BY <1>1, <1>6, <1>7, <3>2, <3>3, <3>4, SemCarried
    <3> QED BY <3>1, <3>5
  <2>2. CASE /\ sem[s].semcnt = 0 /\ sem' = sem
             /\ k' = obj_make_wait([k EXCEPT !.ercd[t] = "E_TMOUT"], t, s, tmo, sem[s].tpri)
    <3>1. PICK b : b = SemCtx'
      OBVIOUS
    <3>2. PICK l : l = [k EXCEPT !.ercd[t] = "E_TMOUT"]
      OBVIOUS
    <3>3. Sound(k', b) /\ Joined(k', l, t)
      BY <1>1, <1>3, <1>4, <2>2, <3>1, <3>2, WaiJoin
    <3>4. k.state \in [Task -> States] /\ k'.state = [k.state EXCEPT ![t] = "WAI"]
      BY <1>1, <3>2, <3>3 DEF KernelType, Joined
    <3>5. \A u \in Task : k.state[u] = "NOEXS" => k'.state[u] = "NOEXS"
      BY <1>3, <3>4
    <3>6. Flow(a)'
      BY <1>1, <1>3, <1>4, <1>5, <3>5, DispatchFlow
    <3>7. Sound(k', SemCtx') /\ SemCtx'.calls = a.calls
      BY <1>1, <3>1, <3>3 DEF SemCtx
    <3> QED BY <3>3, <3>4, <3>6, <3>7 DEF IInv, Flow, Typed
  <2> QED BY <1>3, <2>1, <2>2 DEF __wai_sem
<1>10. \A o \in Obj : AboutToUse(o)' \subseteq AboutToUse(o)
  BY <1>4, SemCallsApart DEF AboutToUse
<1>11. DeleteInv'
  BY <1>5, <1>8, <1>10, DeleteKept
<1> QED BY <1>8, <1>9, <1>11 DEF SInv

(* Every step of the semaphores and of the kernel under them.              *)
LEMMA SemStep ==
  SInv /\ WellBehaved /\ [SemNext]_semvars => SInv'
<1> SUFFICES ASSUME SInv, WellBehaved, [SemNext]_semvars PROVE SInv'
  OBVIOUS
<1>1. CASE UNCHANGED semvars
  <2>1. k' = k /\ runtsk' = runtsk /\ call' = call /\ event' = event /\ sem' = sem
    BY <1>1 DEF semvars
  <2>2. PICK a : a = SemCtx /\ Sound(k, a) /\ Flow(a)
    BY SemHere
  <2>3. Flow(a)'
    BY <2>1, <2>2 DEF Flow, Typed, RunInv, CallInv
  <2>4. IInv(SemCtx)'
    BY <2>1, <2>2, <2>3, SemCarried DEF SemMayWait, SemInside
  <2> QED BY <2>1, <2>4 DEF SInv, DeleteInv, UsesExisting, AboutToUse
<1>2. CASE Next /\ UNCHANGED sem
  BY <1>2, SemKernelStep
<1>3. CASE wait_delete /\ UNCHANGED sem
  BY <1>3, SemWaitDeleteStep
<1>4. ASSUME NEW t \in Task, NEW s \in Obj, wai_sem_return(t, s) PROVE SInv'
  <2> DEFINE c == <<"ercd", s>>
  <2>1. /\ ~Leaving(c) /\ At(t, c) /\ Goto(t, User) /\ UNCHANGED <<k, sem>>
    BY <1>4, SemCallsApart DEF wai_sem_return
  <2>2. SemOwnCall(User) /\ User \in Calls
    BY SemOwnCalls DEF Calls
  <2>3. \A o \in Obj : User # <<"sig_sem", o>> /\ \A v \in Tmo : User # <<"wai_sem", o, v>>
    BY <2>2, SemCallsApart
  <2> HIDE DEF c
  <2> QED BY <2>1, <2>2, <2>3, SemGoOnStep
<1>5. ASSUME NEW t \in Task, NEW s \in Obj, sig_sem_check(t, s) PROVE SInv'
  <2> DEFINE d == IF sem[s].exists THEN <<"sig_sem", s>> ELSE Dispatch
  <2>1. /\ ~Leaving(User) /\ At(t, User) /\ Goto(t, d) /\ UNCHANGED <<k, sem>>
    BY <1>5, CallsApart DEF sig_sem_check, Calls_
  <2>2. SemOwnCall(d) /\ Dispatch \in Calls
    BY SemOwnCalls DEF Calls
  <2>3. \A o \in Obj : \/ sem[o].exists
                       \/ /\ d # <<"sig_sem", o>>
                          /\ \A v \in Tmo : d # <<"wai_sem", o, v>>
    <3>1. CASE sem[s].exists
      BY <3>1, SemCallsApart
    <3>2. CASE ~sem[s].exists
      BY <3>2, <2>2, SemCallsApart
    <3> QED BY <3>1, <3>2
  <2> HIDE DEF d
  <2> QED BY <2>1, <2>2, <2>3, SemGoOnStep
<1>6. ASSUME NEW t \in Task, NEW s \in Obj, NEW c \in Csem, cre_sem_check(t, s, c)
      PROVE  SInv'
  <2> DEFINE d == <<"cre_sem", s, c>>
  <2>1. /\ ~Leaving(User) /\ At(t, User) /\ Goto(t, d) /\ UNCHANGED <<k, sem>>
    BY <1>6, CallsApart DEF cre_sem_check, Calls_
  <2>2. SemOwnCall(d) /\ \A o \in Obj : /\ d # <<"sig_sem", o>>
                                     /\ \A v \in Tmo : d # <<"wai_sem", o, v>>
    BY SemOwnCalls, SemCallsApart
  <2> HIDE DEF d
  <2> QED BY <2>1, <2>2, SemGoOnStep
<1>7. ASSUME NEW t \in Task, NEW s \in Obj, NEW tmo \in Tmo, wai_sem_check(t, s, tmo)
      PROVE  SInv'
  <2> DEFINE d == <<"wai_sem", s, tmo>>
  <2>1. /\ ~Leaving(User) /\ At(t, User) /\ Goto(t, d) /\ UNCHANGED <<k, sem>>
        /\ sem[s].exists
    BY <1>7, CallsApart DEF wai_sem_check, Calls_
  <2>2. SemOwnCall(d)
    BY SemOwnCalls
  <2>3. \A o \in Obj : \/ sem[o].exists
                       \/ /\ d # <<"sig_sem", o>>
                          /\ \A v \in Tmo : d # <<"wai_sem", o, v>>
    BY <2>1, SemCallsApart
  <2> HIDE DEF d
  <2> QED BY <2>1, <2>2, <2>3, SemGoOnStep
<1>8. CASE \E t \in Task : SemTaskStep(t)
  BY <1>4, <1>5, <1>6, <1>7, <1>8, WaiDispatchStep, SigStep, DelSemStep, CreateStep, SemWaiStep
  DEF SemTaskStep
<1>9. CASE \E s \in Obj : isig_sem(s)
  BY <1>9, IsigStep
<1>10. CASE del_sem_end
  BY <1>10, DelSemEndStep
<1> QED BY <1>1, <1>2, <1>3, <1>8, <1>9, <1>10 DEF SemNext

LEMMA SemInitInv == SemInit => SInv
<1> SUFFICES ASSUME SemInit PROVE SInv
  OBVIOUS
<1>1. /\ Init /\ event = NoTask /\ sem = semaphore_initialize
      /\ call = [t \in Task |-> IF t = INIT_TASK THEN Boot ELSE User]
  BY DEF SemInit, Init
<1>2. IInv(SemCtx)
  <2>1. PICK a : a = SemCtx
    OBVIOUS
  <2>2. Calls \subseteq a.calls
    BY <2>1, SemCallsApart DEF SemCtx
  <2> QED BY <1>1, <2>1, <2>2, InitIInv
<1>3. sem \in SemType
  BY <1>1, SemaphoreAssumption DEF semaphore_initialize, SemType
<1>4. Boot \in Calls /\ User \in Calls
  BY DEF Calls
<1>5. \A s \in Obj : AboutToUse(s) = {}
  BY <1>1, <1>4, SemCallsApart DEF AboutToUse
<1>6. event \notin Obj
  BY <1>1, SemaphoreAssumption
<1> QED BY <1>2, <1>3, <1>5, <1>6 DEF SInv, DeleteInv, UsesExisting

LEMMA SemInvariance == ASSUME WellBehaved PROVE SemSpec => []SInv
<1>1. SInv /\ [SemNext]_semvars => SInv'
  BY SemStep
<1> QED BY <1>1, SemInitInv, PTL DEF SemSpec

-----------------------------------------------------------------------------
(* semaphore.c, wait.c: whatever order tasks, timeouts and interrupts take *)
(* their steps in, a semaphore's queue holds tasks that are WAITING inside *)
(* wai_sem for it, each in one place and in the order of the semaphore's   *)
(* attribute, and the count stays within the table's limits.               *)
THEOREM SemaphoreQueueExact == ASSUME WellBehaved PROVE SemSpec => []QueueExact
<1>1. SInv => QueueExact
  <2> SUFFICES ASSUME SInv PROVE QueueExact
    OBVIOUS
  <2>1. PICK a : /\ a = SemCtx /\ Sound(k, a) /\ Flow(a) /\ a.calls = SemCalls
                 /\ a.sorted = {s \in Obj : sem[s].tpri}
                 /\ \A s \in Obj : a.member[s] = IF SemMayWait(s) THEN SemInside(s) ELSE {}
    BY SemHere
  <2>2. SemTypeOK
    BY <2>1, ReadyQueueAssumption DEF SInv, Flow, Typed, Sound, SemTypeOK
  <2>3. ASSUME NEW s \in Obj, sem[s].tpri
        PROVE  InOrder(k.waitq[s], k.tskpri)
    BY <2>1, <2>3 DEF Sound, WaitsInv, QueueOK
  <2>4. QueueByPriority
    BY <2>3 DEF QueueByPriority, InOrder
  <2>5. WaitersInCall
    <3>1. \A s \in Obj : IsInjective(k.waitq[s])
      BY <2>1 DEF Sound, WaitsInv, QueueOK
    <3>2. ASSUME NEW s \in Obj, NEW t \in ToSet(k.waitq[s])
          PROVE  /\ k.state[t] \in Waiting
                 /\ call[t] \in {<<"dispatch", s>>, <<"ercd", s>>}
      <4>1. t \in a.member[s] /\ k.state[t] \in Waiting
        BY <2>1 DEF Sound, WaitsInv, QueueOK
      <4> QED BY <2>1, <4>1 DEF SemInside
    <3> QED BY <3>1, <3>2 DEF WaitersInCall
  <2> QED BY <2>2, <2>4, <2>5 DEF QueueExact
<1> QED BY <1>1, SemInvariance, PTL

(* _sig_sem, __wai_sem, wait_delete: when no semaphore is deleted between  *)
(* a call's existence test and its critical section, no token is idle      *)
(* while a task waits for one, and no task waits for a semaphore that is   *)
(* not there.                                                              *)
THEOREM SemaphoreNoIdleToken ==
  ASSUME WellBehaved, GuardedDelete PROVE SemSpec => []NoIdleToken
<1>1. SInv => NoIdleToken
  <2> SUFFICES ASSUME SInv, NEW s \in Obj, k.waitq[s] # <<>>
               PROVE  sem[s].exists /\ sem[s].semcnt = 0
    BY DEF NoIdleToken
  <2>1. PICK a : /\ a = SemCtx /\ Sound(k, a)
                 /\ \A o \in Obj : a.member[o] = IF SemMayWait(o) THEN SemInside(o) ELSE {}
    BY SemHere
  <2>2. k.waitq[s] \in Seq(Task)
    BY <2>1 DEF Sound, KernelType
  <2>3. k.waitq[s][1] \in ToSet(k.waitq[s])
    BY <2>2 DEF ToSet
  <2>4. k.waitq[s][1] \in a.member[s]
    BY <2>1, <2>3 DEF Sound, WaitsInv, QueueOK
  <2> QED BY <2>1, <2>4 DEF SemMayWait
<1> QED BY <1>1, SemInvariance, PTL

-----------------------------------------------------------------------------
(* The mutex: a semaphore made with one token, of which its users take and *)
(* give back no more than that.                                            *)

(* What sys_arch.c does: sem_alloc_from_pool(1) gives a semaphore one      *)
(* token, and maxsem is room for it; one task makes the mutexes.  And no   *)
(* task is deleted, which would take along the token it was just handed.   *)
MutexUse ==
  /\ WellBehaved
  /\ "del_tsk" \notin Services
  /\ \A c \in Csem : c.isemcnt = 1 /\ c.maxsem >= 1

(* The one token of s is in the count, in a hand, or with an owner; before *)
(* s is made there is none.                                                *)
Token(s) ==
  /\ sem[s].exists => sem[s].maxsem >= 1
  /\ \/ /\ owns[s] = {} /\ InHand(s) = {}
        /\ sem[s].exists => sem[s].semcnt = 1
     \/ /\ sem[s].exists /\ sem[s].semcnt = 0
        /\ \E t \in Task : \/ owns[s] = {t} /\ InHand(s) = {}
                           \/ owns[s] = {} /\ InHand(s) = {t}

(* A task between two steps of a call is there, and in wai_sem it waits    *)
(* for no wakeup; the ID that cre_sem found free is free.                  *)
UsersInv ==
  /\ \A t \in Task : call[t] \notin Calls => k.state[t] \notin {"NOEXS", "DMT"}
  /\ \A s \in Obj : \A t \in SemInside(s) : k.tskwait[t] = "none"
  /\ \A t \in Task, s \in Obj, c \in Csem :
       call[t] = <<"cre_sem", s, c>> => t \in Creators /\ ~sem[s].exists
  /\ UsesExisting

MInv ==
  /\ owns \in [Obj -> SUBSET Task]
  /\ \A s \in Obj : Token(s)
  /\ UsersInv

(* The calls that say for which semaphore they are.                        *)
LEMMA MutexCallsApart ==
  /\ \A s, o : /\ <<"sig_sem", s>> = <<"sig_sem", o>> => s = o
               /\ <<"dispatch", s>> = <<"dispatch", o>> => s = o
               /\ <<"ercd", s>> = <<"ercd", o>> => s = o
               /\ <<"dispatch", s>> # <<"sig_sem", o>> /\ <<"ercd", s>> # <<"sig_sem", o>>
               /\ <<"dispatch", s>> # <<"ercd", o>>
  /\ \A s, o, v, w : /\ <<"wai_sem", s, v>> = <<"wai_sem", o, w>> => s = o
                     /\ <<"cre_sem", s, v>> = <<"cre_sem", o, w>> => s = o
                     /\ <<"sig_sem", s>> # <<"wai_sem", o, w>>
                     /\ <<"sig_sem", s>> # <<"cre_sem", o, w>>
                     /\ <<"dispatch", s>> # <<"wai_sem", o, w>>
                     /\ <<"dispatch", s>> # <<"cre_sem", o, w>>
                     /\ <<"ercd", s>> # <<"wai_sem", o, w>>
                     /\ <<"ercd", s>> # <<"cre_sem", o, w>>
                     /\ <<"wai_sem", s, v>> # <<"cre_sem", o, w>>
  /\ User \in Calls /\ Dispatch \in Calls
<1>1. User \in Calls /\ Dispatch \in Calls
  BY DEF Calls
<1> QED BY <1>1

(* A user of the semaphores, before a step.                                *)
LEMMA UserHere ==
  ASSUME SInv
  PROVE  /\ k \in KernelType /\ call \in [Task -> SemCalls] /\ sem \in SemType
         /\ \A t \in Task : \A c : At(t, c) => call[t] = c
         /\ \A t \in Task : \A c : ~Leaving(c) /\ At(t, c) =>
              k.state[t] = "RDY" /\ k.tskwait[t] = "none"
<1>1. PICK a : /\ IInv(a) /\ Sound(k, a) /\ Flow(a) /\ a.calls = SemCalls
  BY SemHere
<1>2. ASSUME NEW t \in Task, NEW c, ~Leaving(c), At(t, c)
      PROVE  k.state[t] = "RDY" /\ k.tskwait[t] = "none"
  <2>1. k.state[t] = "RDY"
    BY <1>1, <1>2, Running
  <2> QED BY <2>1, <1>1 DEF Sound, WaitsInv, WaitOK, Waiting
<1> QED BY <1>1, <1>2 DEF Sound, Flow, Typed, At, SInv

(* Task t goes on to d.                                                    *)
LEMMA UsersMove ==
  ASSUME UsersInv, NEW t \in Task, NEW d,
         \A u \in Task : call'[u] = IF u = t THEN d ELSE call[u],
         d \notin Calls => k.state[t] \notin {"NOEXS", "DMT"},
         \A u \in Task : k.state[u] \notin {"NOEXS", "DMT"} =>
                           k'.state[u] \notin {"NOEXS", "DMT"},
         \A u \in Task : k.tskwait[u] = "none" => k'.tskwait[u] = "none",
         \A s \in Obj : d \in {<<"dispatch", s>>, <<"ercd", s>>} => k.tskwait[t] = "none",
         \A s \in Obj : sem[s].exists => sem'[s].exists,
         \A s \in Obj, c \in Csem : \A u \in Task \ {t} :
           call[u] = <<"cre_sem", s, c>> => sem'[s].exists = sem[s].exists,
         \A s \in Obj, c \in Csem : d = <<"cre_sem", s, c>> =>
                                      t \in Creators /\ ~sem'[s].exists,
         \A s \in Obj : d = <<"sig_sem", s>> => sem'[s].exists,
         \A s \in Obj, tmo \in Tmo : d = <<"wai_sem", s, tmo>> => sem'[s].exists
  PROVE  UsersInv'
<1>1. \A u \in Task : call'[u] \notin Calls => k'.state[u] \notin {"NOEXS", "DMT"}
  BY DEF UsersInv
<1>2. ASSUME NEW s \in Obj, NEW u \in SemInside(s)' PROVE k'.tskwait[u] = "none"
  <2>1. u \in Task /\ call'[u] \in {<<"dispatch", s>>, <<"ercd", s>>}
    BY DEF SemInside
  <2>2. CASE u = t
    BY <2>1, <2>2
  <2>3. CASE u # t
    <3>1. u \in SemInside(s)
      BY <2>1, <2>3 DEF SemInside
    <3> QED BY <2>1, <3>1 DEF UsersInv
  <2> QED BY <2>2, <2>3
<1>3. ASSUME NEW u \in Task, NEW s \in Obj, NEW c \in Csem, call'[u] = <<"cre_sem", s, c>>
      PROVE  u \in Creators /\ ~sem'[s].exists
  <2>1. CASE u = t
    <3>1. d = <<"cre_sem", s, c>>
      BY <1>3, <2>1
    <3> QED BY <2>1, <3>1
  <2>2. CASE u # t
    <3>1. call[u] = <<"cre_sem", s, c>> /\ u \in Task \ {t}
      BY <1>3, <2>2
    <3> QED BY <3>1 DEF UsersInv
  <2> QED BY <2>1, <2>2
<1>4. ASSUME NEW s \in Obj, NEW u \in AboutToUse(s)' PROVE sem'[s].exists
  <2>1. /\ u \in Task
        /\ \/ call'[u] = <<"sig_sem", s>>
           \/ \E tmo \in Tmo : call'[u] = <<"wai_sem", s, tmo>>
    BY DEF AboutToUse
  <2>2. CASE u = t
    BY <2>1, <2>2
  <2>3. CASE u # t
    <3>1. u \in AboutToUse(s)
      BY <2>1, <2>3 DEF AboutToUse
    <3> QED BY <3>1 DEF UsersInv, UsesExisting
  <2> QED BY <2>2, <2>3
<1>5. UsesExisting'
  BY <1>4 DEF UsesExisting
<1> QED BY <1>1, <1>2, <1>3, <1>5 DEF UsersInv

(* Who has the token, when t goes on and the others keep their ercd.       *)
LEMMA HandMove ==
  ASSUME NEW t \in Task, NEW d, \A u \in Task : call'[u] = IF u = t THEN d ELSE call[u],
         NEW s, \A u \in Task \ {t} : u \in SemInside(s) => k'.ercd[u] = k.ercd[u]
  PROVE  InHand(s)' \ {t} = InHand(s) \ {t}
<1>1. ASSUME NEW u \in Task \ {t} PROVE u \in InHand(s)' <=> u \in InHand(s)
  BY <1>1 DEF InHand, SemInside
<1> QED BY <1>1 DEF InHand

(* The token stays where it is.                                            *)
LEMMA TokenStays ==
  ASSUME NEW s, Token(s), owns'[s] = owns[s], InHand(s)' = InHand(s),
         sem'[s].exists = sem[s].exists, sem'[s].semcnt = sem[s].semcnt,
         sem'[s].maxsem = sem[s].maxsem
  PROVE  Token(s)'
BY DEF Token

(* A step of the kernel leaves the tokens where they are.                  *)
LEMMA MutexKernelStep ==
  ASSUME SInv, MInv, MutexUse, Next, UNCHANGED <<sem, owns>> PROVE MInv'
<1>1. \A u \in Task : call[u] \notin Calls => Kept(k, k', u) /\ call'[u] = call[u]
  <2>1. PICK a : IInv(a)
    BY SemHere
  <2> QED BY <2>1, NextKept DEF MInv, UsersInv, MutexUse
<1>2. \A u \in Task : call[u] \in Calls => call'[u] \in Calls
  <2>1. PICK a : IInv(a)
    BY SemHere
  <2>2. \A u \in Task : CallMoves(u)
    BY <2>1, NextMoves, SemaphoreAssumption
  <2> QED BY <2>2 DEF CallMoves
<1>3. ASSUME NEW s \in Obj PROVE InHand(s)' = InHand(s)
  <2>1. ASSUME NEW u \in Task PROVE u \in InHand(s)' <=> u \in InHand(s)
    <3>1. CASE call[u] \in Calls
      BY <3>1, <1>2, SemCallsApart DEF InHand
    <3>2. CASE call[u] \notin Calls
      BY <3>2, <1>1 DEF InHand, Kept, Asks, MInv, UsersInv, SemInside
    <3> QED BY <3>1, <3>2
  <2> QED BY <2>1 DEF InHand
<1>4. ASSUME NEW s \in Obj PROVE Token(s)'
  BY <1>3, TokenStays DEF MInv
<1>5. UsersInv'
  <2>1. \A u \in Task : call'[u] \notin Calls =>
          /\ call[u] \notin Calls /\ call'[u] = call[u]
          /\ k.state[u] \notin {"NOEXS", "DMT"} /\ k'.state[u] \notin {"NOEXS", "DMT"}
    BY <1>1, <1>2 DEF MInv, UsersInv, Kept
  <2>2. ASSUME NEW s \in Obj, NEW u \in SemInside(s)' PROVE k'.tskwait[u] = "none"
    BY <2>1, <1>1, SemCallsApart DEF MInv, UsersInv, SemInside, Kept, Asks
  <2>3. ASSUME NEW u \in Task, NEW s \in Obj, NEW c \in Csem, call'[u] = <<"cre_sem", s, c>>
        PROVE  u \in Creators /\ ~sem'[s].exists
    BY <2>1, <2>3, SemCallsApart DEF MInv, UsersInv
  <2>4. ASSUME NEW s \in Obj, NEW u \in AboutToUse(s)' PROVE u \in AboutToUse(s)
    BY <2>1, SemCallsApart DEF AboutToUse
  <2>5. UsesExisting'
    BY <2>4 DEF MInv, UsersInv, UsesExisting
  <2> QED BY <2>1, <2>2, <2>3, <2>5 DEF UsersInv
<1> QED BY <1>4, <1>5 DEF MInv

(* A step that moves a READY task t from c to d, where neither has to do   *)
(* with the token.                                                         *)
LEMMA PlainStep ==
  ASSUME SInv, MInv, NEW t \in Task, NEW c, ~Leaving(c), At(t, c), NEW d, Goto(t, d),
         UNCHANGED <<k, sem, owns>>,
         \A s \in Obj : /\ c \notin {<<"sig_sem", s>>, <<"dispatch", s>>, <<"ercd", s>>}
                        /\ d \notin {<<"sig_sem", s>>, <<"dispatch", s>>, <<"ercd", s>>},
         \A s \in Obj, p \in Csem : d = <<"cre_sem", s, p>> =>
                                      t \in Creators /\ ~sem[s].exists,
         \A s \in Obj, tmo \in Tmo : d = <<"wai_sem", s, tmo>> => sem[s].exists
  PROVE  MInv'
<1>1. /\ call[t] = c /\ k.state[t] = "RDY" /\ k.tskwait[t] = "none"
      /\ \A u \in Task : call'[u] = IF u = t THEN d ELSE call[u]
  BY UserHere DEF Goto
<1>2. UsersInv'
  BY <1>1, UsersMove DEF MInv
<1>3. ASSUME NEW s \in Obj PROVE Token(s)'
  <2>1. InHand(s)' = InHand(s)
    <3>1. ASSUME NEW u \in Task PROVE u \in InHand(s)' <=> u \in InHand(s)
      BY <1>1 DEF InHand
    <3> QED BY <3>1 DEF InHand
  <2> QED BY <2>1, TokenStays DEF MInv
<1> QED BY <1>2, <1>3 DEF MInv

(* sys_mutex_lock is about to wait, after the existence test of wai_sem.   *)
LEMMA LockStep ==
  ASSUME SInv, MInv, NEW t \in Task, NEW s \in Obj, NEW tmo \in Tmo, lock(t, s, tmo)
  PROVE  MInv'
<1> DEFINE d == <<"wai_sem", s, tmo>>
<1>1. /\ ~Leaving(User) /\ At(t, User) /\ Goto(t, d) /\ UNCHANGED <<k, sem, owns>>
      /\ sem[s].exists
  BY CallsApart DEF lock, wai_sem_check, Calls_
<1>2. /\ \A o \in Obj : /\ User \notin {<<"sig_sem", o>>, <<"dispatch", o>>, <<"ercd", o>>}
                        /\ d \notin {<<"sig_sem", o>>, <<"dispatch", o>>, <<"ercd", o>>}
      /\ \A o \in Obj, p \in Csem : d # <<"cre_sem", o, p>>
      /\ \A o \in Obj, v \in Tmo : d = <<"wai_sem", o, v>> => sem[o].exists
  BY <1>1, MutexCallsApart, SemCallsApart
<1> HIDE DEF d
<1> QED BY <1>1, <1>2, PlainStep

(* sys_mutex_new found a free ID.                                          *)
LEMMA CreateCheckStep ==
  ASSUME SInv, MInv, NEW t \in Creators, NEW s \in Obj, NEW p \in Csem,
         cre_sem_check(t, s, p), UNCHANGED owns
  PROVE  MInv'
<1> DEFINE d == <<"cre_sem", s, p>>
<1>1. /\ ~Leaving(User) /\ At(t, User) /\ Goto(t, d) /\ UNCHANGED <<k, sem, owns>>
      /\ ~sem[s].exists /\ t \in Task
  BY CallsApart, KernelAssumption DEF cre_sem_check, Calls_
<1>2. /\ \A o \in Obj : /\ User \notin {<<"sig_sem", o>>, <<"dispatch", o>>, <<"ercd", o>>}
                        /\ d \notin {<<"sig_sem", o>>, <<"dispatch", o>>, <<"ercd", o>>}
      /\ \A o \in Obj, q \in Csem : d = <<"cre_sem", o, q>> => t \in Creators /\ ~sem[o].exists
      /\ \A o \in Obj, v \in Tmo : d # <<"wai_sem", o, v>>
  BY <1>1, MutexCallsApart, SemCallsApart
<1> HIDE DEF d
<1> QED BY <1>1, <1>2, PlainStep

(* The wait returns: who was served owns the semaphore.                    *)
LEMMA LockedStep ==
  ASSUME SInv, MInv, NEW t \in Task, NEW s \in Obj, locked(t, s)
  PROVE  MInv'
<1>0. PICK d : d = User
  OBVIOUS
<1>1. /\ At(t, <<"ercd", s>>) /\ Goto(t, d) /\ UNCHANGED <<k, sem>>
      /\ ~Leaving(<<"ercd", s>>)
      /\ owns' = [owns EXCEPT ![s] = IF k.ercd[t] = "E_OK" THEN @ \union {t} ELSE @]
  BY <1>0, SemCallsApart DEF locked, wai_sem_return
<1>2. /\ call[t] = <<"ercd", s>> /\ k.state[t] = "RDY" /\ k.tskwait[t] = "none"
      /\ \A u \in Task : call'[u] = IF u = t THEN d ELSE call[u]
      /\ owns \in [Obj -> SUBSET Task] /\ UsersInv
  BY <1>1, UserHere DEF Goto, MInv
<1>3. /\ d \in Calls
      /\ \A o \in Obj : d \notin {<<"sig_sem", o>>, <<"dispatch", o>>, <<"ercd", o>>}
      /\ \A o \in Obj, p \in Csem : d # <<"cre_sem", o, p>>
      /\ \A o \in Obj, v \in Tmo : d # <<"wai_sem", o, v>>
  <2>1. d \in Calls
    BY <1>0, MutexCallsApart
  <2> QED BY <2>1, SemCallsApart
<1>4. UsersInv'
  BY <1>1, <1>2, <1>3, UsersMove
<1>5. ASSUME NEW o \in Obj PROVE t \notin InHand(o)' /\ InHand(o)' = InHand(o) \ {t}
  <2>1. ASSUME NEW u \in Task PROVE u \in InHand(o)' <=> u \in InHand(o) /\ u # t
    BY <1>1, <1>2, <1>3 DEF InHand
  <2> QED BY <2>1 DEF InHand
<1>6. ASSUME NEW o \in Obj, o # s \/ k.ercd[t] # "E_OK" PROVE Token(o)'
  <2>1. t \notin InHand(o)
    BY <1>2, <1>6, MutexCallsApart DEF InHand
  <2>2. InHand(o)' = InHand(o) /\ owns'[o] = owns[o]
    BY <2>1, <1>1, <1>2, <1>5, <1>6
  <2> QED BY <2>2, <1>1, TokenStays DEF MInv
<1>7. ASSUME k.ercd[t] = "E_OK" PROVE Token(s)'
  <2>1. t \in InHand(s)
    BY <1>2, <1>7 DEF InHand
  <2>2. InHand(s) = {t} /\ owns[s] = {} /\ sem[s].exists /\ sem[s].semcnt = 0
    BY <2>1 DEF MInv, Token
  <2>3. InHand(s)' = {} /\ owns'[s] = {t}
    BY <2>2, <1>1, <1>2, <1>5, <1>7
  <2>4. sem'[s] = sem[s] /\ sem[s].maxsem >= 1
    BY <2>2, <1>1 DEF MInv, Token
  <2> QED BY <2>2, <2>3, <2>4 DEF Token
<1>8. owns' \in [Obj -> SUBSET Task]
  BY <1>1, <1>2
<1> QED BY <1>4, <1>6, <1>7, <1>8 DEF MInv

(* The owner is about to signal.                                           *)
LEMMA UnlockStep ==
  ASSUME SInv, MInv, NEW t \in Task, NEW s \in Obj, unlock(t, s)
  PROVE  MInv'
<1> DEFINE d == <<"sig_sem", s>>
<1>1. /\ owns \in [Obj -> SUBSET Task] /\ t \in owns[s] /\ Token(s)
      /\ owns' = [owns EXCEPT ![s] = @ \ {t}]
  BY DEF unlock, MInv
<1>2. sem[s].exists /\ sem[s].semcnt = 0 /\ owns[s] = {t} /\ InHand(s) = {}
  BY <1>1 DEF Token
<1>3. /\ ~Leaving(User) /\ At(t, User) /\ Goto(t, d) /\ UNCHANGED <<k, sem>>
  BY <1>2, CallsApart DEF unlock, sig_sem_check, Calls_
<1>4. /\ call[t] = User /\ k.state[t] = "RDY" /\ k.tskwait[t] = "none"
      /\ \A u \in Task : call'[u] = IF u = t THEN d ELSE call[u]
  BY <1>3, UserHere DEF Goto
<1>5. /\ \A o \in Obj : d \notin {<<"dispatch", o>>, <<"ercd", o>>}
      /\ \A o \in Obj, p \in Csem : d # <<"cre_sem", o, p>>
      /\ \A o \in Obj, v \in Tmo : d # <<"wai_sem", o, v>>
      /\ \A o \in Obj : d = <<"sig_sem", o>> => o = s
      /\ \A o \in Obj : User \notin {<<"sig_sem", o>>, <<"dispatch", o>>, <<"ercd", o>>}
  BY MutexCallsApart, SemCallsApart
<1>6. d = <<"sig_sem", s>>
  OBVIOUS
<1> HIDE DEF d
<1>7. UsersInv'
  BY <1>2, <1>3, <1>4, <1>5, UsersMove DEF MInv
<1>8. ASSUME NEW o \in Obj PROVE InHand(o)' = IF o = s THEN InHand(o) \union {t} ELSE InHand(o)
  <2>1. ASSUME NEW u \in Task PROVE u \in InHand(o)' <=> u \in InHand(o) \/ (u = t /\ o = s)
    BY <1>3, <1>4, <1>5, <1>6 DEF InHand
  <2> QED BY <2>1 DEF InHand
<1>9. ASSUME NEW o \in Obj, o # s PROVE Token(o)'
  <2>1. InHand(o)' = InHand(o) /\ owns'[o] = owns[o]
    BY <1>1, <1>8, <1>9
  <2> QED BY <2>1, <1>3, TokenStays DEF MInv
<1>10. Token(s)'
  <2>1. InHand(s)' = {t} /\ owns'[s] = {} /\ sem'[s] = sem[s] /\ sem[s].maxsem >= 1
    BY <1>1, <1>2, <1>3, <1>8 DEF Token
  <2> QED BY <2>1, <1>2 DEF Token
<1>11. owns' \in [Obj -> SUBSET Task]
  BY <1>1
<1> QED BY <1>7, <1>9, <1>10, <1>11 DEF MInv

(* Between the critical section of wai_sem and the return of ercd.         *)
LEMMA WaitDispatchStep ==
  ASSUME SInv, MInv, NEW t \in Task, NEW s \in Obj, wai_sem_dispatch(t, s), UNCHANGED owns
  PROVE  MInv'
<1> DEFINE d == <<"ercd", s>>
<1>1. /\ call[t] = <<"dispatch", s>> /\ UNCHANGED <<k, sem, owns>>
      /\ \A u \in Task : call'[u] = IF u = t THEN d ELSE call[u]
  BY UserHere DEF wai_sem_dispatch, At
<1>2. /\ UsersInv /\ k.state[t] \notin {"NOEXS", "DMT"} /\ k.tskwait[t] = "none"
  <2>1. call[t] \notin Calls /\ t \in SemInside(s)
    BY <1>1, SemCallsApart DEF SemInside
  <2> QED BY <2>1 DEF MInv, UsersInv
<1>3. /\ \A o \in Obj : /\ d = <<"ercd", o>> <=> o = s
                        /\ <<"dispatch", s>> = <<"dispatch", o>> <=> o = s
                        /\ d # <<"sig_sem", o>> /\ d # <<"dispatch", o>>
                        /\ <<"dispatch", s>> # <<"sig_sem", o>>
                        /\ <<"dispatch", s>> # <<"ercd", o>>
      /\ \A o \in Obj, p \in Csem : d # <<"cre_sem", o, p>>
      /\ \A o \in Obj, v \in Tmo : d # <<"wai_sem", o, v>>
  BY MutexCallsApart
<1> HIDE DEF d
<1>4. UsersInv'
  BY <1>1, <1>2, <1>3, UsersMove
<1>5. ASSUME NEW o \in Obj PROVE Token(o)'
  <2>1. ASSUME NEW u \in Task PROVE u \in InHand(o)' <=> u \in InHand(o)
    <3>1. CASE u = t
      BY <1>1, <1>3, <3>1 DEF InHand
    <3>2. CASE u # t
      BY <1>1, <3>2 DEF InHand
    <3> QED BY <3>1, <3>2
  <2>2. InHand(o)' = InHand(o)
    BY <2>1 DEF InHand
  <2> QED BY <1>1, <2>2, TokenStays DEF MInv
<1> QED BY <1>1, <1>4, <1>5 DEF MInv

(* The wait takes the token, fails, or begins.                             *)
LEMMA WaitStep ==
  ASSUME SInv, MInv, NEW t \in Task, NEW s \in Obj, NEW tmo \in Tmo, __wai_sem(t, s, tmo),
         UNCHANGED owns
  PROVE  MInv'
<1> DEFINE d == <<"dispatch", s>>
           c == <<"wai_sem", s, tmo>>
           ok == k' = [k EXCEPT !.ercd[t] = "E_OK"]
<1>1. /\ call[t] = c /\ k.state[t] = "RDY" /\ k.tskwait[t] = "none"
      /\ \A u \in Task : call'[u] = IF u = t THEN d ELSE call[u]
      /\ k \in KernelType /\ sem \in SemType /\ UsersInv
  <2>1. At(t, c) /\ ~Leaving(c) /\ Goto(t, d)
    BY SemCallsApart DEF __wai_sem
  <2>2. call[t] = c /\ k.state[t] = "RDY" /\ k.tskwait[t] = "none"
    BY <2>1, UserHere
  <2>3. \A u \in Task : call'[u] = IF u = t THEN d ELSE call[u]
    BY <2>1, UserHere DEF Goto
  <2> QED BY <2>2, <2>3, UserHere DEF MInv
<1>2. sem[s].exists /\ Token(s)
  <2>1. t \in AboutToUse(s)
    BY <1>1 DEF AboutToUse
  <2> QED BY <2>1 DEF MInv, UsersInv, UsesExisting
<1>3. /\ \A o \in Obj : /\ d = <<"dispatch", o>> <=> o = s
                        /\ d # <<"sig_sem", o>> /\ d # <<"ercd", o>>
                        /\ c \notin {<<"sig_sem", o>>, <<"dispatch", o>>, <<"ercd", o>>}
      /\ \A o \in Obj, p \in Csem : d # <<"cre_sem", o, p>>
      /\ \A o \in Obj, v \in Tmo : d # <<"wai_sem", o, v>>
  BY MutexCallsApart
<1>4. /\ \/ /\ sem[s].semcnt > 0 /\ sem' = [sem EXCEPT ![s].semcnt = @ - 1]
            /\ k'.ercd = [k.ercd EXCEPT ![t] = "E_OK"] /\ k'.state = k.state
         \/ /\ sem[s].semcnt = 0 /\ sem' = sem
            /\ k'.ercd = [k.ercd EXCEPT ![t] = "E_TMOUT"]
            /\ k'.state = k.state \/ k'.state = [k.state EXCEPT ![t] = "WAI"]
      /\ k'.tskwait = k.tskwait
  <2>1. ASSUME NEW e, k' = [k EXCEPT !.ercd[t] = e]
        PROVE  /\ k'.ercd = [k.ercd EXCEPT ![t] = e] /\ k'.state = k.state
               /\ k'.tskwait = k.tskwait
    BY <1>1, <2>1 DEF KernelType
  <2>2. CASE sem[s].semcnt > 0 /\ sem' = [sem EXCEPT ![s].semcnt = @ - 1] /\ ok
    BY <2>1, <2>2
  <2>3. CASE /\ sem[s].semcnt = 0 /\ sem' = sem
             /\ k' = [k EXCEPT !.ercd[t] = "E_TMOUT"]
    BY <2>1, <2>3
  <2>4. CASE /\ sem[s].semcnt = 0 /\ sem' = sem
             /\ k' = obj_make_wait([k EXCEPT !.ercd[t] = "E_TMOUT"], t, s, tmo, sem[s].tpri)
    <3>1. PICK a : a = SemCtx
      OBVIOUS
    <3>2. PICK l : l = [k EXCEPT !.ercd[t] = "E_TMOUT"]
      OBVIOUS
    <3>3. /\ call[t] = <<"wai_sem", s, tmo>> /\ k.state[t] = "RDY" /\ sem[s].semcnt = 0
          /\ UNCHANGED sem
          /\ \A u \in Task : call'[u] = IF u = t THEN <<"dispatch", s>> ELSE call[u]
          /\ k' = obj_make_wait(l, t, s, tmo, sem[s].tpri)
      BY <1>1, <2>4, <3>2
    <3>4. Joined(k', l, t)
      BY <3>1, <3>2, <3>3, WaiJoin
    <3>5. /\ l.ercd = [k.ercd EXCEPT ![t] = "E_TMOUT"]
          /\ l.state = k.state /\ l.tskwait = k.tskwait
      BY <1>1, <3>2 DEF KernelType
    <3> QED BY <2>4, <3>4, <3>5 DEF Joined
  <2> QED BY <2>2, <2>3, <2>4 DEF __wai_sem
<1>5. /\ \A o \in Obj : /\ sem'[o].exists = sem[o].exists /\ sem'[o].maxsem = sem[o].maxsem
                        /\ o # s => sem'[o] = sem[o]
      /\ sem[s].semcnt > 0 => sem'[s].semcnt = sem[s].semcnt - 1
      /\ DOMAIN k.ercd = Task /\ DOMAIN k.state = Task
  <2>1. DOMAIN k.ercd = Task /\ DOMAIN k.state = Task
    BY <1>1 DEF KernelType
  <2> QED BY <1>1, <1>4, <2>1 DEF SemType
<1> HIDE DEF d, c
<1>6. UsersInv'
  <2>1. /\ \A u \in Task : k.state[u] \notin {"NOEXS", "DMT"} =>
                             k'.state[u] \notin {"NOEXS", "DMT"}
        /\ k.state[t] \notin {"NOEXS", "DMT"}
    BY <1>1, <1>4, <1>5
  <2> QED BY <1>1, <1>3, <1>4, <1>5, <2>1, UsersMove
<1>7. \A u \in Task \ {t} : k'.ercd[u] = k.ercd[u]
  BY <1>4, <1>5
<1>8. ASSUME NEW o \in Obj PROVE t \notin InHand(o) /\ InHand(o)' \ {t} = InHand(o)
  <2>1. t \notin InHand(o)
    BY <1>1, <1>3 DEF InHand
  <2>2. InHand(o)' \ {t} = InHand(o) \ {t}
    BY <1>1, <1>7, HandMove
  <2> QED BY <2>1, <2>2
<1>9. ASSUME NEW o \in Obj PROVE t \in InHand(o)' <=> o = s /\ k'.ercd[t] = "E_OK"
  BY <1>1, <1>3 DEF InHand
<1>10. ASSUME NEW o \in Obj, o # s \/ sem[s].semcnt = 0 PROVE Token(o)'
  <2>1. o = s => k'.ercd[t] = "E_TMOUT"
    BY <1>4, <1>5, <1>10
  <2>2. InHand(o)' = InHand(o)
    BY <1>8, <1>9, <2>1
  <2>3. sem'[o].semcnt = sem[o].semcnt
    BY <1>4, <1>5, <1>10
  <2> QED BY <1>5, <2>2, <2>3, TokenStays DEF MInv
<1>11. CASE sem[s].semcnt > 0
  <2>1. sem[s].semcnt = 1 /\ owns[s] = {} /\ InHand(s) = {} /\ sem[s].maxsem >= 1
    BY <1>2, <1>11 DEF Token
  <2>2. k'.ercd[t] = "E_OK"
    BY <1>4, <1>5, <1>11
  <2>3. InHand(s)' = {t}
    BY <1>8, <1>9, <2>1, <2>2
  <2>4. Token(s)'
    BY <1>2, <1>5, <2>1, <2>3 DEF Token
  <2> QED BY <1>6, <1>10, <2>4 DEF MInv
<1>12. CASE ~(sem[s].semcnt > 0)
  <2>1. sem[s].semcnt = 0
    BY <1>4, <1>12
  <2> QED BY <1>6, <1>10, <2>1 DEF MInv
<1> QED BY <1>11, <1>12

(* The signal gives the token to the first waiter, or counts it.           *)
LEMMA SignalStep ==
  ASSUME SInv, MInv, NEW t \in Task, NEW s \in Obj, sig_sem(t, s), UNCHANGED owns
  PROVE  MInv'
<1>1. PICK a : /\ a = SemCtx /\ Sound(k, a)
               /\ \A o \in Obj : a.member[o] = IF SemMayWait(o) THEN SemInside(o) ELSE {}
  BY SemHere
<1>2. PICK d : d = Dispatch
  OBVIOUS
<1>3. /\ call[t] = <<"sig_sem", s>> /\ k.state[t] = "RDY" /\ _sig_sem(s)
      /\ \A u \in Task : call'[u] = IF u = t THEN d ELSE call[u]
      /\ k \in KernelType /\ sem \in SemType /\ UsersInv
  <2>1. /\ At(t, <<"sig_sem", s>>) /\ ~Leaving(<<"sig_sem", s>>) /\ Goto(t, d)
        /\ _sig_sem(s)
    BY <1>2, SemCallsApart DEF sig_sem
  <2>2. call[t] = <<"sig_sem", s>> /\ k.state[t] = "RDY"
    BY <2>1, UserHere
  <2>3. \A u \in Task : call'[u] = IF u = t THEN d ELSE call[u]
    BY <2>1, UserHere DEF Goto
  <2> QED BY <2>1, <2>2, <2>3, UserHere DEF MInv
<1>4. /\ d \in Calls
      /\ \A o \in Obj : d \notin {<<"sig_sem", o>>, <<"dispatch", o>>, <<"ercd", o>>}
      /\ \A o \in Obj, p \in Csem : d # <<"cre_sem", o, p>>
      /\ \A o \in Obj, v \in Tmo : d # <<"wai_sem", o, v>>
  <2>1. d \in Calls
    BY <1>2, MutexCallsApart
  <2> QED BY <2>1, SemCallsApart
<1>5. /\ owns[s] = {} /\ InHand(s) = {t} /\ sem[s].exists /\ sem[s].semcnt = 0
      /\ sem[s].maxsem >= 1
  <2>1. t \in InHand(s)
    BY <1>3 DEF InHand
  <2> QED BY <2>1 DEF MInv, Token
<1>6. \A o \in Obj : o # s => t \notin InHand(o)
  BY <1>3, MutexCallsApart DEF InHand
<1>7. \A o \in Obj : t \notin InHand(o)'
  BY <1>3, <1>4 DEF InHand
<1>8. CASE /\ ~kqueue_empty(k.waitq[s])
           /\ k' = wait_release_ok(k, kqueue_next(k.waitq[s]))
           /\ UNCHANGED sem
  <2>1. PICK w : w = kqueue_next(k.waitq[s])
    OBVIOUS
  <2>2. PICK l : l = [k EXCEPT !.ercd[w] = "E_OK"]
    OBVIOUS
  <2>3. PICK m : m = k'
    OBVIOUS
  <2>4. /\ w \in Task /\ k.state[w] \in Waiting
        /\ Released(l, m, w) /\ l.state = k.state
    <3>1. m = wait_release(l, w) /\ k.waitq[s] # <<>>
      BY <1>8, <2>1, <2>2, <2>3 DEF wait_release_ok, kqueue_empty
    <3> QED BY <1>1, <2>1, <2>2, <3>1, ReleaseFirst
  <2>5. w # t /\ w \in SemInside(s)
    <3>1. w \in ToSet(k.waitq[s])
      <4>1. k.waitq[s] \in Seq(Task) /\ k.waitq[s] # <<>>
        BY <1>3, <1>8 DEF KernelType, kqueue_empty
      <4> QED BY <2>1, <4>1 DEF kqueue_next, ToSet
    <3>2. w \in a.member[s]
      BY <1>1, <3>1 DEF Sound, WaitsInv, QueueOK
    <3> QED BY <1>1, <1>3, <2>4, <3>2 DEF Waiting
  <2>6. /\ m.ercd = [k.ercd EXCEPT ![w] = "E_OK"] /\ DOMAIN k.ercd = Task
        /\ m.tskwait = [k.tskwait EXCEPT ![w] = "none"] /\ DOMAIN k.tskwait = Task
        /\ \E x \in {"RDY", "SUS"} : m.state = [k.state EXCEPT ![w] = x]
        /\ DOMAIN k.state = Task
    <3>1. l.ercd = [k.ercd EXCEPT ![w] = "E_OK"] /\ l.tskwait = k.tskwait
      BY <1>3, <2>2 DEF KernelType
    <3> QED BY <1>3, <2>4, <3>1 DEF Released, KernelType
  <2>7. UsersInv'
    <3>1. /\ \A u \in Task : k.state[u] \notin {"NOEXS", "DMT"} =>
                               k'.state[u] \notin {"NOEXS", "DMT"}
          /\ \A u \in Task : k.tskwait[u] = "none" => k'.tskwait[u] = "none"
      BY <2>3, <2>6
    <3> QED BY <1>3, <1>4, <1>8, <3>1, UsersMove
  <2>8. ASSUME NEW o \in Obj, NEW u \in Task \ {t}
        PROVE  u \in InHand(o)' <=> u \in InHand(o) \/ (u = w /\ o = s)
    <3>1. CASE u = w
      <4>1. call'[u] = call[u] /\ call[u] \in {<<"dispatch", s>>, <<"ercd", s>>}
            /\ k'.ercd[u] = "E_OK"
        BY <1>3, <2>3, <2>5, <2>6, <3>1 DEF SemInside
      <4>2. o # s => u \notin InHand(o)' /\ u \notin InHand(o)
        BY <4>1, MutexCallsApart DEF InHand
      <4>3. o = s => u \in InHand(o)'
        BY <4>1 DEF InHand
      <4> QED BY <3>1, <4>2, <4>3
    <3>2. CASE u # w
      BY <1>3, <2>3, <2>6, <3>2 DEF InHand
    <3> QED BY <3>1, <3>2
  <2>9. ASSUME NEW o \in Obj, o # s PROVE Token(o)'
    <3>1. InHand(o)' \subseteq Task /\ InHand(o) \subseteq Task
      BY DEF InHand
    <3>2. InHand(o)' = InHand(o)
      BY <1>6, <1>7, <2>8, <2>9, <3>1
    <3> QED BY <1>8, <3>2, TokenStays DEF MInv
  <2>10. Token(s)'
    <3>1. InHand(s)' \subseteq Task
      BY DEF InHand
    <3>2. InHand(s)' = {w}
      BY <1>5, <1>7, <2>4, <2>5, <2>8, <3>1
    <3> QED BY <1>5, <1>8, <2>4, <3>2 DEF Token
  <2> QED BY <2>7, <2>9, <2>10 DEF MInv
<1>9. CASE /\ kqueue_empty(k.waitq[s])
           /\ sem' = [sem EXCEPT ![s].semcnt = IF @ >= sem[s].maxsem THEN @ ELSE @ + 1]
           /\ UNCHANGED k
  <2>1. /\ sem'[s].semcnt = 1
        /\ \A o \in Obj : /\ sem'[o].exists = sem[o].exists
                          /\ sem'[o].maxsem = sem[o].maxsem
                          /\ o # s => sem'[o] = sem[o]
    <3>1. sem[s].maxsem \in Int
      BY <1>3 DEF SemType
    <3>2. ~(sem[s].semcnt >= sem[s].maxsem) /\ sem[s].semcnt + 1 = 1
      BY <1>5, <3>1
    <3>3. sem' = [sem EXCEPT ![s].semcnt = 1]
      BY <1>9, <3>2
    <3> QED BY <1>3, <3>3 DEF SemType
  <2>2. UsersInv'
    BY <1>3, <1>4, <1>9, <2>1, UsersMove
  <2>3. ASSUME NEW o \in Obj PROVE InHand(o)' = InHand(o) \ {t}
    <3>1. \A u \in Task \ {t} : u \in InHand(o)' <=> u \in InHand(o)
      BY <1>3, <1>9 DEF InHand
    <3>2. InHand(o)' \subseteq Task /\ InHand(o) \subseteq Task
      BY DEF InHand
    <3> QED BY <1>7, <3>1, <3>2
  <2>4. ASSUME NEW o \in Obj, o # s PROVE Token(o)'
    <3>1. InHand(o)' = InHand(o)
      BY <1>6, <2>3, <2>4
    <3> QED BY <2>1, <2>4, <3>1, TokenStays DEF MInv
  <2>5. Token(s)'
    <3>1. InHand(s)' = {}
      BY <1>5, <2>3
    <3> QED BY <1>5, <2>1, <3>1 DEF Token
  <2> QED BY <2>2, <2>4, <2>5 DEF MInv
<1> QED BY <1>3, <1>8, <1>9 DEF _sig_sem

(* The mutex is made, with its token in the count.                         *)
LEMMA MadeStep ==
  ASSUME SInv, MInv, MutexUse, NEW t \in Creators, NEW s \in Obj, NEW c \in Csem,
         _cre_sem(t, s, c), UNCHANGED owns
  PROVE  MInv'
<1>1. PICK d : d = User
  OBVIOUS
<1>2. /\ t \in Task /\ call[t] = <<"cre_sem", s, c>>
      /\ \A u \in Task : call'[u] = IF u = t THEN d ELSE call[u]
      /\ k \in KernelType /\ sem \in SemType /\ UsersInv
  <2>1. t \in Task /\ At(t, <<"cre_sem", s, c>>) /\ Goto(t, d)
    BY <1>1, KernelAssumption DEF _cre_sem
  <2> QED BY <2>1, UserHere DEF MInv, Goto
<1>3. /\ d \in Calls
      /\ \A o \in Obj : d \notin {<<"sig_sem", o>>, <<"dispatch", o>>, <<"ercd", o>>}
      /\ \A o \in Obj, p \in Csem : d # <<"cre_sem", o, p>>
      /\ \A o \in Obj, v \in Tmo : d # <<"wai_sem", o, v>>
  <2>1. d \in Calls
    BY <1>1, MutexCallsApart
  <2> QED BY <2>1, SemCallsApart
<1>4. ~sem[s].exists /\ owns[s] = {} /\ InHand(s) = {}
  BY <1>2 DEF MInv, UsersInv, Token
<1>5. /\ sem'[s].exists /\ sem'[s].semcnt = 1 /\ sem'[s].maxsem >= 1
      /\ \A o \in Obj : o # s => sem'[o] = sem[o]
  BY <1>2 DEF _cre_sem, SemType, MutexUse
<1>6. k'.state = k.state /\ k'.tskwait = k.tskwait /\ k'.ercd = k.ercd
  BY <1>2 DEF _cre_sem, KernelType
<1>7. ASSUME NEW o \in Obj, NEW p \in Csem, NEW u \in Task \ {t}
      PROVE  call[u] # <<"cre_sem", o, p>>
  BY <1>7 DEF UsersInv, MInv, MutexUse, WellBehaved
<1>8. UsersInv'
  BY <1>2, <1>3, <1>5, <1>6, <1>7, UsersMove
<1>9. ASSUME NEW o \in Obj PROVE InHand(o)' = InHand(o)
  <2>1. ASSUME NEW u \in Task PROVE u \in InHand(o)' <=> u \in InHand(o)
    <3>1. CASE u = t
      BY <1>2, <1>3, <3>1, MutexCallsApart DEF InHand
    <3>2. CASE u # t
      BY <1>2, <1>6, <3>2 DEF InHand
    <3> QED BY <3>1, <3>2
  <2> QED BY <2>1 DEF InHand
<1>10. ASSUME NEW o \in Obj PROVE Token(o)'
  <2>1. CASE o = s
    BY <1>4, <1>5, <1>9, <2>1 DEF Token
  <2>2. CASE o # s
    BY <1>5, <1>9, <2>2, TokenStays DEF MInv
  <2> QED BY <2>1, <2>2
<1> QED BY <1>8, <1>10 DEF MInv

(* Every step of the mutex's users and of the kernel under them is one of  *)
(* the semaphores' module, and keeps the token.                            *)
LEMMA MutexStep ==
  ASSUME MutexUse, SInv, MInv, [MutexNext]_mutexvars PROVE MInv'
<1>1. \A t \in Task : TmoOf[t] \subseteq Tmo
  BY MutexAssumption
<1>2. CASE UNCHANGED mutexvars
  <2>1. /\ k' = k /\ call' = call /\ sem' = sem /\ owns' = owns
    BY <1>2 DEF mutexvars
  <2>2. UsersInv'
    BY <2>1 DEF MInv, UsersInv, UsesExisting, AboutToUse, SemInside
  <2>3. ASSUME NEW s \in Obj PROVE Token(s)'
    <3>1. InHand(s)' = InHand(s)
      BY <2>1 DEF InHand
    <3> QED BY <2>1, <3>1, TokenStays DEF MInv
  <2> QED BY <2>1, <2>2, <2>3 DEF MInv
<1>3. CASE Next /\ UNCHANGED <<sem, owns>>
  BY <1>3, MutexKernelStep
<1>4. CASE MutexCreate
  BY <1>4, CreateCheckStep, MadeStep DEF MutexCreate
<1>5. ASSUME NEW t \in Task, MutexTaskStep(t) PROVE MInv'
  BY <1>1, <1>5, LockStep, LockedStep, UnlockStep, WaitStep, WaitDispatchStep, SignalStep
  DEF MutexTaskStep
<1> QED BY <1>2, <1>3, <1>4, <1>5 DEF MutexNext

(* The mutex's users are users of the semaphores.                          *)
LEMMA MutexIsSem ==
  /\ MutexInit => SemInit
  /\ [MutexNext]_mutexvars => [SemNext]_semvars
<1>1. MutexInit => SemInit
  BY DEF MutexInit
<1>2. ASSUME UNCHANGED mutexvars PROVE UNCHANGED semvars
  BY <1>2 DEF mutexvars, semvars
<1>3. ASSUME MutexCreate PROVE SemNext
  BY <1>3, KernelAssumption DEF MutexCreate, SemNext, SemTaskStep
<1>4. ASSUME NEW t \in Task, MutexTaskStep(t) PROVE SemTaskStep(t)
  BY <1>4, MutexAssumption DEF MutexTaskStep, lock, locked, unlock, SemTaskStep
<1>5. ASSUME MutexNext PROVE SemNext
  BY <1>3, <1>4, <1>5 DEF MutexNext, SemNext
<1> QED BY <1>1, <1>2, <1>5

(* At first no mutex is there, and no task is inside a call for one.       *)
LEMMA MutexInitInv == MutexInit => MInv
<1> SUFFICES ASSUME MutexInit PROVE MInv
  OBVIOUS
<1>1. /\ call = [t \in Task |-> IF t = INIT_TASK THEN Boot ELSE User]
      /\ sem = semaphore_initialize /\ owns = [s \in Obj |-> {}]
  BY DEF MutexInit, SemInit, Init
<1>2. Boot \in Calls /\ User \in Calls
  BY DEF Calls
<1>3. \A t \in Task : call[t] \in Calls
  BY <1>1, <1>2
<1>4. \A s \in Obj : AboutToUse(s) = {} /\ SemInside(s) = {} /\ InHand(s) = {}
  BY <1>3, SemCallsApart DEF AboutToUse, SemInside, InHand
<1>5. UsersInv
  BY <1>3, <1>4, SemCallsApart DEF UsersInv, UsesExisting
<1>6. \A s \in Obj : Token(s)
  BY <1>1, <1>4 DEF Token, semaphore_initialize
<1> QED BY <1>1, <1>5, <1>6 DEF MInv

(* sys_mutex_lock, sys_mutex_unlock over semaphore.c and wait.c: whatever  *)
(* times out while it is served, the mutex's one token is in the count, on *)
(* its way or with its one owner.                                          *)
THEOREM MutexTokenExact == ASSUME MutexUse PROVE MutexSpec => []TokenExact
<1>1. MInv => TokenExact
  <2> SUFFICES ASSUME MInv, NEW s \in Obj
               PROVE  /\ Cardinality(owns[s]) <= 1
                      /\ sem[s].exists =>
                           sem[s].semcnt + Cardinality(owns[s]) + Cardinality(InHand(s)) = 1
    BY DEF TokenExact, MutualExclusion, TokenConserved
  <2>1. Cardinality({}) = 0 /\ \A t \in Task : Cardinality({t}) = 1
    BY FS_EmptySet, FS_Singleton
  <2>2. CASE /\ owns[s] = {} /\ InHand(s) = {}
             /\ sem[s].exists => sem[s].semcnt = 1
    BY <2>1, <2>2
  <2>3. ASSUME /\ sem[s].exists /\ sem[s].semcnt = 0,
               NEW t \in Task, \/ owns[s] = {t} /\ InHand(s) = {}
                               \/ owns[s] = {} /\ InHand(s) = {t}
        PROVE  /\ Cardinality(owns[s]) <= 1
               /\ sem[s].semcnt + Cardinality(owns[s]) + Cardinality(InHand(s)) = 1
    <3>1. \/ Cardinality(owns[s]) = 1 /\ Cardinality(InHand(s)) = 0
          \/ Cardinality(owns[s]) = 0 /\ Cardinality(InHand(s)) = 1
      BY <2>1, <2>3
    <3> QED BY <2>3, <3>1
  <2>4. Token(s)
    BY DEF MInv
  <2> QED BY <2>2, <2>3, <2>4 DEF Token
<1>2. SInv /\ [MutexNext]_mutexvars => SInv'
  BY SemStep, MutexIsSem DEF MutexUse
<1>3. SInv /\ MInv /\ [MutexNext]_mutexvars => MInv'
  BY MutexStep
<1>4. MutexInit => SInv /\ MInv
  BY MutexIsSem, SemInitInv, MutexInitInv
<1> QED BY <1>1, <1>2, <1>3, <1>4, PTL DEF MutexSpec

------------------------------------------------------------------------------
(* The event flags of src/kernel/eventflags.c.                             *)

(* The tasks inside wai_flg for o, from its critical section on.           *)
FlgInside(o) ==
  {t \in Task : \E w \in Wai : call[t] = <<"ercd", o, w>> /\ waitinfo[t] = w}

(* Those that may wait: what they wait for is not there, but the flag is.  *)
FlgMayWait(o) ==
  {t \in FlgInside(o) : flg[o].exists /\ ~eventflag_cond(flg[o].flgptn, waitinfo[t])}

(* What the kernel's lemmas leave open: a flag's queue holds tasks inside  *)
(* wai_flg for it that its pattern does not satisfy, in the order of its   *)
(* attribute; wai_flg sets no tskwait.                                     *)
FlgCtx == [calls  |-> FlgCalls,
           member |-> [o \in Obj |-> FlgMayWait(o)],
           sorted |-> {o \in Obj : flg[o].tpri},
           caused |-> FALSE]

(* A task in wai_flg waits for no wakeup, and an answer of E_OK comes with *)
(* a pattern that satisfies it.                                            *)
Answered(t) ==
  \A o \in Obj, w \in Wai : call[t] = <<"ercd", o, w>> =>
    /\ k.tskwait[t] = "none"
    /\ k.ercd[t] = "E_OK" => eventflag_cond(ptn[t], w)

FlgTables ==
  /\ flg \in FlgType
  /\ waitinfo \in [Task -> WaitInfo \union {NoWait}]
  /\ ptn \in [Task -> Pattern]

(* While wait_delete empties a queue, the task in del_flg is past its      *)
(* critical section.                                                       *)
Deleting == event \in Obj => runtsk \in Task /\ call[runtsk] = Dispatch

FInv == IInv(FlgCtx) /\ FlgTables /\ Deleting /\ \A t \in Task : Answered(t)

-----------------------------------------------------------------------------
(* Patterns. *)

(* What is not satisfied is not satisfied by fewer bits.                   *)
LEMMA FewerBits ==
  ASSUME NEW p, NEW q \in SUBSET p, NEW w, ~eventflag_cond(p, w)
  PROVE  ~eventflag_cond(q, w)
BY DEF eventflag_cond

(* What a served waiter leaves of the pattern is all of it, or nothing.    *)
LEMMA ClearedPattern ==
  ASSUME NEW o, NEW p PROVE cleared(o, p) \in {p, {}}
BY DEF cleared

-----------------------------------------------------------------------------
(* Where the tasks are: the calls of module Kernel, and those of this one. *)

LEMMA FlgCallsIn ==
  /\ Calls \subseteq FlgCalls
  /\ \A o \in Obj : /\ \A w \in Wai : <<"ercd", o, w>> \in FlgCalls
                    /\ \A c \in Clrptn : <<"clr_flg", o, c>> \in FlgCalls
BY DEF FlgCalls

LEMMA FlgCallsApart ==
  /\ \A o, v : <<"ercd", o, v>> \notin Calls /\ ~Leaving(<<"ercd", o, v>>)
  /\ \A o, v : <<"clr_flg", o, v>> \notin Calls /\ ~Leaving(<<"clr_flg", o, v>>)
<1>1. \A c \in Calls : \/ c[1] \in {"user", "dispatch", "boot"} /\ Len(c) = 1
                       \/ c[1] = "cre_tsk" /\ Len(c) = 2
                       \/ c[1] = "chg_pri" /\ Len(c) = 3
  BY DEF Calls, User, Dispatch, Boot
<1>2. \A c : Leaving(c) => c[1] = "dispatch"
  BY DEF Leaving, Dispatch
<1> QED BY <1>1, <1>2

LEMMA FlgCallsDiffer ==
  /\ \A o, w, x, c : <<"clr_flg", o, c>> # <<"ercd", x, w>>
  /\ \A o, w, x, v : <<"ercd", o, w>> = <<"ercd", x, v>> => o = x /\ w = v
OBVIOUS

(* A call that is not one of the kernel's unfinished ones.                 *)
FlgOwnCall(d) ==
  /\ d \in FlgCalls /\ d # Boot
  /\ \A x : d # <<"cre_tsk", x>>
  /\ \A x, p : d # <<"chg_pri", x, p>>

LEMMA FlgOwnCalls ==
  /\ FlgOwnCall(User) /\ FlgOwnCall(Dispatch)
  /\ \A o \in Obj : /\ \A w \in Wai : FlgOwnCall(<<"ercd", o, w>>)
                    /\ \A c \in Clrptn : FlgOwnCall(<<"clr_flg", o, c>>)
<1>1. /\ User \in FlgCalls /\ Dispatch \in FlgCalls /\ User # Boot /\ Dispatch # Boot
      /\ \A x : User # <<"cre_tsk", x>> /\ Dispatch # <<"cre_tsk", x>>
      /\ \A x, p : User # <<"chg_pri", x, p>> /\ Dispatch # <<"chg_pri", x, p>>
  BY DEF User, Dispatch, Boot, FlgCalls, Calls
<1>2. \A o, v : /\ <<"ercd", o, v>> # Boot /\ <<"clr_flg", o, v>> # Boot
                /\ \A x : /\ <<"ercd", o, v>> # <<"cre_tsk", x>>
                          /\ <<"clr_flg", o, v>> # <<"cre_tsk", x>>
                /\ \A x, p : /\ <<"ercd", o, v>> # <<"chg_pri", x, p>>
                             /\ <<"clr_flg", o, v>> # <<"chg_pri", x, p>>
  BY DEF Boot
<1> QED BY <1>1, <1>2, FlgCallsIn DEF FlgOwnCall

(* The invariant, with the value that FlgCtx has before a step.            *)
LEMMA FlgHere ==
  ASSUME FInv
  PROVE  \E a : /\ a = FlgCtx /\ IInv(a) /\ Sound(k, a) /\ Flow(a) /\ k \in KernelType
                /\ a.calls = FlgCalls /\ ~a.caused
                /\ a.sorted = {o \in Obj : flg[o].tpri}
                /\ \A o \in Obj : a.member[o] = FlgMayWait(o)
<1>1. PICK a : a = FlgCtx
  OBVIOUS
<1>2. IInv(a) /\ Sound(k, a) /\ Flow(a) /\ k \in KernelType
  BY <1>1 DEF FInv, IInv, Flow, Typed, Sound
<1>3. /\ a.calls = FlgCalls /\ ~a.caused /\ a.sorted = {o \in Obj : flg[o].tpri}
      /\ \A o \in Obj : a.member[o] = FlgMayWait(o)
  BY <1>1 DEF FlgCtx
<1> QED BY <1>1, <1>2, <1>3

(* What is kept with that value is kept, when the tasks that still wait    *)
(* may wait.                                                               *)
LEMMA FlgCarried ==
  ASSUME NEW a, a = FlgCtx, Sound(k', a), Flow(a)',
         \A o \in Obj : k'.waitq[o] # <<>> => flg'[o].tpri = flg[o].tpri,
         \A o \in Obj : \A u \in ToSet(k'.waitq[o]) :
           u \in FlgMayWait(o) /\ k'.state[u] \in Waiting => u \in FlgMayWait(o)'
  PROVE  IInv(FlgCtx)'
<1>1. PICK b : b = FlgCtx'
  OBVIOUS
<1>2. /\ a.calls = FlgCalls /\ ~a.caused /\ a.sorted = {o \in Obj : flg[o].tpri}
      /\ \A o \in Obj : a.member[o] = FlgMayWait(o)
  BY DEF FlgCtx
<1>3. /\ b.calls = FlgCalls /\ ~b.caused /\ b.sorted = {o \in Obj : flg'[o].tpri}
      /\ \A o \in Obj : b.member[o] = FlgMayWait(o)'
  BY <1>1 DEF FlgCtx
<1>4. \A o \in Obj : k'.waitq[o] # <<>> => (o \in b.sorted => o \in a.sorted)
  BY <1>2, <1>3
<1>5. ASSUME NEW o \in Obj, NEW u \in ToSet(k'.waitq[o]) PROVE u \in b.member[o]
  <2>1. k'.state[u] \in Waiting /\ u \in a.member[o]
    BY DEF Sound, WaitsInv, QueueOK
  <2> QED BY <2>1, <1>2, <1>3
<1>6. Sound(k', b)
  BY <1>2, <1>3, <1>4, <1>5, Recontext
<1>7. Sound(k', FlgCtx')
  BY <1>1, <1>6
<1>8. FlgCtx'.calls = a.calls
  BY <1>1, <1>2, <1>3
<1> QED BY <1>7, <1>8 DEF IInv, Flow, Typed

(* Task u is where it was, and knows what it knew.                         *)
LEMMA StillAnswered ==
  ASSUME NEW u \in Task, Answered(u), call'[u] \in Calls \/ call'[u] = call[u],
         k.tskwait[u] = "none" => /\ k'.tskwait[u] = "none"
                                  /\ k'.ercd[u] = k.ercd[u] \/ k'.ercd[u] # "E_OK",
         ptn'[u] = ptn[u]
  PROVE  Answered(u)'
<1> SUFFICES ASSUME NEW o \in Obj, NEW w \in Wai, call'[u] = <<"ercd", o, w>>
             PROVE  /\ k'.tskwait[u] = "none"
                    /\ k'.ercd[u] = "E_OK" => eventflag_cond(ptn'[u], w)
  BY DEF Answered
<1>1. call[u] = <<"ercd", o, w>>
  BY FlgCallsApart
<1> QED BY <1>1 DEF Answered

-----------------------------------------------------------------------------
(* The steps. *)

(* A step of module Kernel.                                                *)
LEMMA FlgKernelStep ==
  ASSUME FInv, WellBehaved, Next, UNCHANGED <<flg, waitinfo, ptn>> PROVE FInv'
<1>1. PICK a : /\ a = FlgCtx /\ IInv(a)
  BY FlgHere
<1>2. IInv(a)' /\ event \notin Obj /\ event' \notin Obj /\ \A u \in Task : CallMoves(u)
  BY <1>1, StepIInv, NextMoves, EventflagAssumption
<1>3. Sound(k', a) /\ Flow(a)'
  BY <1>2 DEF IInv
<1>4. ASSUME NEW o \in Obj, NEW u \in Task, u \in FlgMayWait(o), k'.state[u] \in Waiting
      PROVE  u \in FlgMayWait(o)'
  <2>1. PICK w \in Wai : call[u] = <<"ercd", o, w>>
    BY <1>4 DEF FlgMayWait, FlgInside
  <2>2. call[u] \notin Calls /\ k'.state[u] # "RDY"
    BY <1>4, <2>1, FlgCallsApart DEF Waiting
  <2>3. call'[u] = call[u]
    BY <2>2, <1>2 DEF CallMoves
  <2> QED BY <2>3, <1>4 DEF FlgMayWait, FlgInside
<1>5. ASSUME NEW o \in Obj, NEW u \in ToSet(k'.waitq[o]) PROVE u \in Task
  BY <1>3 DEF Sound, KernelType, ToSet
<1>6. IInv(FlgCtx)'
  BY <1>1, <1>3, <1>4, <1>5, FlgCarried
<1>7. ASSUME NEW u \in Task PROVE Answered(u)'
  <2>1. CASE call'[u] \in Calls
    BY <2>1, FlgCallsApart DEF Answered
  <2>2. CASE call'[u] \notin Calls
    <3>1. call'[u] = call[u]
      BY <2>2, <1>2 DEF CallMoves
    <3>2. Asks(k, k', u)
      BY <2>2, <3>1, <1>1, NextKept
    <3> QED BY <3>1, <3>2, StillAnswered DEF FInv, Asks
  <2> QED BY <2>1, <2>2
<1> QED BY <1>2, <1>6, <1>7 DEF FInv, FlgTables, Deleting

(* The tasks that wait for o still may, if its pattern has no new bit.     *)
LEMMA StillMayWait ==
  ASSUME NEW o \in Obj, NEW u \in FlgMayWait(o), call'[u] = call[u], waitinfo' = waitinfo,
         flg'[o].exists, flg'[o].flgptn \subseteq flg[o].flgptn
  PROVE  u \in FlgMayWait(o)'
<1>1. u \in FlgInside(o)'
  BY DEF FlgMayWait, FlgInside
<1>2. ~eventflag_cond(flg'[o].flgptn, waitinfo[u])
  BY FewerBits DEF FlgMayWait
<1> QED BY <1>1, <1>2 DEF FlgMayWait

(* The running task t goes on from c to d, and releases nobody.            *)
LEMMA FlgGoOnStep ==
  ASSUME FInv, NEW t \in Task, NEW c, ~Leaving(c), At(t, c),
         NEW d, FlgOwnCall(d), Goto(t, d),
         \A a : a = FlgCtx /\ Sound(k, a) /\ ~a.caused => Sound(k', a),
         k'.state = k.state, k'.schedtsk = k.schedtsk, k'.tskwait = k.tskwait,
         \A u \in Task \ {t} : k'.ercd[u] = k.ercd[u] /\ ptn'[u] = ptn[u],
         FlgTables', waitinfo' = waitinfo,
         \A o \in Obj : k'.waitq[o] # <<>> =>
           /\ flg'[o].tpri = flg[o].tpri /\ flg'[o].exists = flg[o].exists
           /\ flg'[o].flgptn \subseteq flg[o].flgptn,
         \A o \in Obj, w \in Wai :
           d = <<"ercd", o, w>> /\ k'.ercd[t] = "E_OK" => eventflag_cond(ptn'[t], w)
  PROVE  FInv'
<1>1. PICK a : /\ a = FlgCtx /\ IInv(a) /\ Sound(k, a) /\ Flow(a)
               /\ a.calls = FlgCalls /\ ~a.caused
  BY FlgHere
<1>2. /\ runtsk = t /\ event = NoTask /\ k.state[t] = "RDY" /\ call \in [Task -> FlgCalls]
      /\ event' = NoTask
  BY <1>1, Running DEF Goto
<1>3. \A u \in Task : call'[u] = IF u = t THEN d ELSE call[u]
  BY <1>2 DEF Goto
<1>4. Flow(a)'
  <2>1. /\ d \in a.calls /\ d # Boot /\ (\A x : d # <<"cre_tsk", x>>)
        /\ \A x, p : d # <<"chg_pri", x, p>>
    BY <1>1 DEF FlgOwnCall
  <2> QED BY <1>1, <2>1, GoOnFlow
<1>5. Sound(k', a)
  BY <1>1
<1>6. ASSUME NEW o \in Obj, NEW u \in ToSet(k'.waitq[o]), u \in FlgMayWait(o),
             k'.state[u] \in Waiting
      PROVE  u \in FlgMayWait(o)'
  <2>1. u \in Task /\ u # t /\ k'.waitq[o] # <<>> /\ flg[o].exists
    BY <1>2, <1>6 DEF FlgMayWait, FlgInside, Waiting, ToSet
  <2> QED BY <1>3, <1>6, <2>1, StillMayWait
<1>7. IInv(FlgCtx)'
  BY <1>1, <1>4, <1>5, <1>6, FlgCarried
<1>8. k.tskwait[t] = "none"
  BY <1>1, <1>2 DEF Sound, WaitsInv, WaitOK, Waiting
<1>9. ASSUME NEW u \in Task PROVE Answered(u)'
  <2>1. CASE u = t
    BY <1>3, <1>8, <2>1 DEF Answered
  <2>2. CASE u # t
    <3>1. call'[u] = call[u] /\ k'.ercd[u] = k.ercd[u] /\ ptn'[u] = ptn[u]
      BY <1>3, <2>2
    <3> QED BY <3>1, StillAnswered DEF FInv
  <2> QED BY <2>1, <2>2
<1>10. Deleting'
  BY <1>2, EventflagAssumption DEF Deleting
<1> QED BY <1>7, <1>9, <1>10 DEF FInv

(* A step that changes the answer of one task, at most.                    *)
LEMMA AnswerSound ==
  ASSUME NEW a, Sound(k, a), NEW t \in Task, NEW e \in {"E_OK", "E_TMOUT", "E_DLT"},
         k' = [k EXCEPT !.ercd[t] = e]
  PROVE  /\ Sound(k', a) /\ k'.state = k.state /\ k'.schedtsk = k.schedtsk
         /\ k'.tskwait = k.tskwait /\ k'.waitq = k.waitq /\ k'.ercd[t] = e
         /\ \A u \in Task \ {t} : k'.ercd[u] = k.ercd[u]
<1>1. k \in KernelType
  BY DEF Sound
<1>2. /\ k' \in KernelType /\ k'.state = k.state /\ k'.tskpri = k.tskpri
      /\ k'.rdyq = k.rdyq /\ k'.schedtsk = k.schedtsk /\ k'.tskwait = k.tskwait
      /\ k'.wupcnt = k.wupcnt /\ k'.suscnt = k.suscnt /\ k'.waitq = k.waitq
      /\ k'.timerq = k.timerq /\ k'.ercd[t] = e
      /\ \A u \in Task \ {t} : k'.ercd[u] = k.ercd[u]
  BY <1>1 DEF KernelType
<1> QED BY <1>2, OtherFields

(* The pattern of one flag changes.                                        *)
LEMMA PatternTables ==
  ASSUME FlgTables, NEW o \in Obj, NEW p \in Pattern,
         flg' = [flg EXCEPT ![o].flgptn = p]
  PROVE  /\ flg' \in FlgType /\ flg'[o].flgptn = p
         /\ \A x \in Obj : /\ flg'[x].tpri = flg[x].tpri /\ flg'[x].clr = flg[x].clr
                           /\ flg'[x].exists = flg[x].exists
                           /\ x # o => flg'[x] = flg[x]
BY DEF FlgTables, FlgType

(* wai_flg finds its event, and clears the pattern of a TA_CLR flag.       *)
LEMMA AtOnceStep ==
  ASSUME FInv, NEW t \in Task, NEW o \in Obj, NEW w \in Wai, wai_flg_at_once(t, o, w)
  PROVE  FInv'
<1> DEFINE d == <<"ercd", o, w>>
           p == cleared(o, flg[o].flgptn)
<1>1. /\ At(t, User) /\ ~Leaving(User) /\ Goto(t, d) /\ FlgOwnCall(d)
      /\ k' = [k EXCEPT !.ercd[t] = "E_OK"]
      /\ ptn' = [ptn EXCEPT ![t] = flg[o].flgptn] /\ waitinfo' = waitinfo
      /\ eventflag_cond(flg[o].flgptn, w)
  BY CallsApart, FlgOwnCalls DEF wai_flg_at_once, Calls_
<1>2. p \in Pattern /\ p \subseteq flg[o].flgptn /\ flg[o].flgptn \in Pattern
  BY ClearedPattern DEF FInv, FlgTables, FlgType, Pattern
<1>3. flg' = [flg EXCEPT ![o].flgptn = p]
  BY DEF wai_flg_at_once
<1>4. /\ ptn' \in [Task -> Pattern] /\ ptn'[t] = flg[o].flgptn
      /\ \A u \in Task \ {t} : ptn'[u] = ptn[u]
  BY <1>1, <1>2 DEF FInv, FlgTables
<1>5. \A v \in Wai, x \in Obj : d = <<"ercd", x, v>> => v = w
  BY FlgCallsDiffer
<1> HIDE DEF p, d
<1>6. /\ flg' \in FlgType /\ flg'[o].flgptn = p
      /\ \A x \in Obj : /\ flg'[x].tpri = flg[x].tpri /\ flg'[x].exists = flg[x].exists
                        /\ flg'[x].flgptn \subseteq flg[x].flgptn
  BY <1>2, <1>3, PatternTables DEF FInv
<1>7. PICK a : a = FlgCtx /\ Sound(k, a)
  BY FlgHere
<1>8. /\ k'.state = k.state /\ k'.schedtsk = k.schedtsk /\ k'.tskwait = k.tskwait
      /\ \A u \in Task \ {t} : k'.ercd[u] = k.ercd[u]
      /\ \A b : Sound(k, b) => Sound(k', b)
  BY <1>1, <1>7, AnswerSound
<1>9. FlgTables'
  BY <1>1, <1>4, <1>6 DEF FInv, FlgTables
<1> QED BY <1>1, <1>4, <1>5, <1>6, <1>8, <1>9, FlgGoOnStep

(* pol_flg does not.                                                       *)
LEMMA PolFailsStep ==
  ASSUME FInv, NEW t \in Task, NEW o \in Obj, NEW w \in Wai, pol_flg_fails(t, o, w)
  PROVE  FInv'
<1> DEFINE d == <<"ercd", o, w>>
<1>1. /\ At(t, User) /\ ~Leaving(User) /\ Goto(t, d) /\ FlgOwnCall(d)
      /\ k' = [k EXCEPT !.ercd[t] = "E_TMOUT"]
      /\ flg' = flg /\ ptn' = ptn /\ waitinfo' = waitinfo
  BY CallsApart, FlgOwnCalls DEF pol_flg_fails, Calls_
<1> HIDE DEF d
<1>2. PICK a : a = FlgCtx /\ Sound(k, a)
  BY FlgHere
<1>3. /\ k'.state = k.state /\ k'.schedtsk = k.schedtsk /\ k'.tskwait = k.tskwait
      /\ \A u \in Task \ {t} : k'.ercd[u] = k.ercd[u]
      /\ \A b : Sound(k, b) => Sound(k', b)
      /\ k'.ercd[t] # "E_OK"
  BY <1>1, <1>2, AnswerSound
<1>4. FlgTables'
  BY <1>1 DEF FInv, FlgTables
<1> QED BY <1>1, <1>3, <1>4, FlgGoOnStep

(* The return from wai_flg: the caller is done with its pattern.           *)
LEMMA ReturnStep ==
  ASSUME FInv, NEW t \in Task, wai_flg_return(t) PROVE FInv'
<1>1. PICK o \in Obj, w \in Wai : At(t, <<"ercd", o, w>>)
  BY DEF wai_flg_return
<1>2. PICK c : c = <<"ercd", o, w>>
  OBVIOUS
<1>3. PICK d : d = User
  OBVIOUS
<1>4. /\ ~Leaving(c) /\ At(t, c) /\ FlgOwnCall(d) /\ Goto(t, d)
      /\ ptn' = [ptn EXCEPT ![t] = {}]
      /\ k' = k /\ flg' = flg /\ waitinfo' = waitinfo
  BY <1>1, <1>2, <1>3, FlgCallsApart, FlgOwnCalls DEF wai_flg_return
<1>5. \A x \in Obj, v \in Wai : d # <<"ercd", x, v>>
  BY <1>3, FlgCallsApart DEF Calls
<1>6. FlgTables' /\ \A u \in Task \ {t} : ptn'[u] = ptn[u]
  BY <1>4 DEF FInv, FlgTables, Pattern
<1> QED BY <1>4, <1>5, <1>6, FlgGoOnStep

(* clr_flg tests the existence and clears bits later.                      *)
LEMMA ClrCheckStep ==
  ASSUME FInv, NEW t \in Task, NEW o \in Obj, NEW c \in Clrptn, clr_flg_check(t, o, c)
  PROVE  FInv'
<1>1. PICK d : d = <<"clr_flg", o, c>>
  OBVIOUS
<1>2. /\ ~Leaving(User) /\ At(t, User) /\ FlgOwnCall(d) /\ Goto(t, d)
      /\ k' = k /\ flg' = flg /\ waitinfo' = waitinfo /\ ptn' = ptn
  BY <1>1, CallsApart, FlgOwnCalls DEF clr_flg_check, Calls_
<1>3. \A x \in Obj, v \in Wai : d # <<"ercd", x, v>>
  BY <1>1, FlgCallsDiffer
<1>4. FlgTables'
  BY <1>2 DEF FInv, FlgTables
<1> QED BY <1>2, <1>3, <1>4, FlgGoOnStep

LEMMA ClrStep ==
  ASSUME FInv, NEW t \in Task, NEW o \in Obj, NEW clrptn \in Clrptn, clr_flg(t, o, clrptn)
  PROVE  FInv'
<1>1. PICK c : c = <<"clr_flg", o, clrptn>>
  OBVIOUS
<1>2. PICK d : d = User
  OBVIOUS
<1>3. PICK p : p = flg[o].flgptn \intersect clrptn
  OBVIOUS
<1>4. /\ ~Leaving(c) /\ At(t, c) /\ FlgOwnCall(d) /\ Goto(t, d)
      /\ k' = k /\ waitinfo' = waitinfo /\ ptn' = ptn
      /\ flg' = [flg EXCEPT ![o].flgptn = p]
  BY <1>1, <1>2, <1>3, FlgCallsApart, FlgOwnCalls DEF clr_flg
<1>5. \A x \in Obj, v \in Wai : d # <<"ercd", x, v>>
  BY <1>2, FlgCallsApart DEF Calls
<1>6. p \in Pattern /\ p \subseteq flg[o].flgptn
  BY <1>3 DEF FInv, FlgTables, FlgType, Pattern
<1>7. /\ flg' \in FlgType /\ flg'[o].flgptn = p
      /\ \A x \in Obj : /\ flg'[x].tpri = flg[x].tpri /\ flg'[x].exists = flg[x].exists
                        /\ flg'[x].flgptn \subseteq flg[x].flgptn
  BY <1>4, <1>6, PatternTables DEF FInv
<1>8. FlgTables'
  BY <1>4, <1>7 DEF FInv, FlgTables
<1> QED BY <1>4, <1>5, <1>7, <1>8, FlgGoOnStep

(* cre_flg: a new flag has an empty queue.                                 *)
LEMMA CreateFlgStep ==
  ASSUME FInv, NEW t \in Task, NEW o \in Obj, NEW c \in Cflg, _cre_flg(t, o, c)
  PROVE  FInv'
<1>1. PICK a : a = FlgCtx /\ Sound(k, a) /\ k \in KernelType
  BY FlgHere
<1>2. PICK r : r = [exists |-> TRUE, tpri |-> c.tpri, wmul |-> c.wmul, clr |-> c.clr,
                    flgptn |-> c.flgptn]
  OBVIOUS
<1>3. /\ At(t, User) /\ ~Leaving(User) /\ k' = [k EXCEPT !.waitq[o] = <<>>]
      /\ flg' = [flg EXCEPT ![o] = r]
      /\ runtsk' = runtsk /\ call' = call /\ event' = event
      /\ waitinfo' = waitinfo /\ ptn' = ptn
  BY <1>2, CallsApart DEF _cre_flg, Calls_
<1>4. Goto(t, User) /\ FlgOwnCall(User)
  <2>1. call \in [Task -> FlgCalls] /\ call[t] = User
    BY <1>3, FlgHere, Running
  <2> QED BY <1>3, <2>1, FlgOwnCalls DEF Goto
<1>5. \A x \in Obj, v \in Wai : User # <<"ercd", x, v>>
  BY FlgCallsApart DEF Calls
<1>6. flg' \in FlgType /\ \A x \in Obj : x # o => flg'[x] = flg[x]
  <2>1. r \in [exists : BOOLEAN, tpri : BOOLEAN, wmul : BOOLEAN, clr : BOOLEAN,
               flgptn : Pattern]
    BY <1>2, EventflagAssumption
  <2> QED BY <1>3, <2>1 DEF FInv, FlgTables, FlgType
<1>7. FlgTables'
  BY <1>3, <1>6 DEF FInv, FlgTables
<1>8. /\ k'.state = k.state /\ k'.schedtsk = k.schedtsk /\ k'.tskwait = k.tskwait
      /\ k'.ercd = k.ercd /\ k'.waitq = [k.waitq EXCEPT ![o] = <<>>]
      /\ k.waitq \in [Obj -> Seq(Task)]
  BY <1>1, <1>3 DEF KernelType
<1>9. \A x \in Obj : k'.waitq[x] # <<>> =>
        /\ flg'[x].tpri = flg[x].tpri /\ flg'[x].exists = flg[x].exists
        /\ flg'[x].flgptn \subseteq flg[x].flgptn
  <2>1. \A x \in Obj : k'.waitq[x] # <<>> => flg'[x] = flg[x]
    BY <1>6, <1>8
  <2> QED BY <2>1
<1>10. \A b : Sound(k, b) /\ ~b.caused => Sound(k', b)
  BY <1>3, EmptySound
<1>11. PICK d : d = User
  OBVIOUS
<1>12. /\ ~Leaving(d) /\ At(t, d) /\ FlgOwnCall(d) /\ Goto(t, d)
       /\ \A x \in Obj, v \in Wai : d # <<"ercd", x, v>>
  BY <1>3, <1>4, <1>5, <1>11
<1>13. \A u \in Task \ {t} : k'.ercd[u] = k.ercd[u] /\ ptn'[u] = ptn[u]
  BY <1>3, <1>8
<1>14. /\ waitinfo' = waitinfo
       /\ k'.state = k.state /\ k'.schedtsk = k.schedtsk /\ k'.tskwait = k.tskwait
  BY <1>3, <1>8
<1>15. \A b : b = FlgCtx /\ Sound(k, b) /\ ~b.caused => Sound(k', b)
  BY <1>10
<1> QED BY <1>7, <1>9, <1>12, <1>13, <1>14, <1>15, FlgGoOnStep

(* del_flg up to wait_delete.                                              *)
LEMMA DelFlgStep ==
  ASSUME FInv, NEW t \in Task, NEW o \in Obj, del_flg(t, o) PROVE FInv'
<1>1. PICK a : /\ a = FlgCtx /\ IInv(a) /\ Sound(k, a) /\ Flow(a) /\ a.calls = FlgCalls
  BY FlgHere
<1>2. /\ At(t, User) /\ ~Leaving(User) /\ event' = o /\ k' = k /\ runtsk' = runtsk
      /\ call' = [call EXCEPT ![t] = Dispatch]
      /\ flg' = flg /\ waitinfo' = waitinfo /\ ptn' = ptn
  BY CallsApart DEF del_flg, Calls_
<1>3. /\ runtsk = t /\ event = NoTask /\ call[t] = User /\ call \in [Task -> FlgCalls]
      /\ k.state[t] = "RDY"
  BY <1>1, <1>2, Running
<1>4. PICK d : d = Dispatch
  OBVIOUS
<1>5. d \in Calls /\ d \in FlgCalls /\ Leaving(d)
  BY <1>4, FlgCallsIn, CallsApart DEF Calls
<1>6. /\ call' \in [Task -> FlgCalls] /\ Leaving(call'[t]) /\ call'[t] = d
      /\ \A u \in Task : call'[u] = IF u = t THEN d ELSE call[u]
  BY <1>2, <1>3, <1>4, <1>5
<1>7. event' \in (Obj \union {NoTask}) \ Task
  BY <1>2, EventflagAssumption
<1>8. Flow(a)'
  BY <1>1, <1>2, <1>3, <1>6, <1>7, DispatchFlow
<1>9. ASSUME NEW x \in Obj, NEW u \in ToSet(k'.waitq[x]), u \in FlgMayWait(x),
             k'.state[u] \in Waiting
      PROVE  u \in FlgMayWait(x)'
  <2>1. u \in Task /\ u # t
    BY <1>2, <1>3, <1>9 DEF FlgMayWait, FlgInside, Waiting
  <2>2. call'[u] = call[u] /\ flg[x].exists
    BY <1>6, <1>9, <2>1 DEF FlgMayWait
  <2> QED BY <1>2, <1>9, <2>2, StillMayWait
<1>10. IInv(FlgCtx)'
  <2>1. /\ Sound(k', a)
        /\ \A x \in Obj : k'.waitq[x] # <<>> => flg'[x].tpri = flg[x].tpri
    BY <1>1, <1>2
  <2> QED BY <1>1, <1>8, <1>9, <2>1, FlgCarried
<1>11. ASSUME NEW u \in Task PROVE Answered(u)'
  <2>1. call'[u] \in Calls \/ call'[u] = call[u]
    BY <1>5, <1>6
  <2>2. k'.tskwait[u] = k.tskwait[u] /\ k'.ercd[u] = k.ercd[u] /\ ptn'[u] = ptn[u]
    BY <1>2
  <2> QED BY <2>1, <2>2, StillAnswered DEF FInv
<1>12. Deleting' /\ FlgTables'
  BY <1>2, <1>3, <1>4, <1>6 DEF Deleting, FInv, FlgTables
<1> QED BY <1>10, <1>11, <1>12 DEF FInv

(* Between two turns of wait_delete, and at its end.                       *)
LEMMA DeletingStep ==
  ASSUME FInv, NEW a, a = FlgCtx, Sound(k', a), event \in Obj,
         runtsk' = runtsk, call' = call, waitinfo' = waitinfo, ptn' = ptn,
         event' \in {event, NoTask}, FlgTables',
         \A u \in Task : k.state[u] = "NOEXS" => k'.state[u] = "NOEXS",
         \A u \in Task : k.tskwait[u] = "none" =>
           /\ k'.tskwait[u] = "none"
           /\ k'.ercd[u] = k.ercd[u] \/ k'.ercd[u] # "E_OK",
         \A o \in Obj : k'.waitq[o] # <<>> => flg'[o] = flg[o]
  PROVE  FInv'
<1>1. Flow(a) /\ event' \in (Obj \union {NoTask}) \ Task
  BY FlgHere, EventflagAssumption, ReadyQueueAssumption
<1>2. runtsk \in Task /\ Leaving(call[runtsk])
  BY CallsApart DEF FInv, Deleting
<1>3. Flow(a)'
  BY <1>1, <1>2, LoopFlow
<1>4. ASSUME NEW o \in Obj, NEW u \in ToSet(k'.waitq[o]), u \in FlgMayWait(o),
             k'.state[u] \in Waiting
      PROVE  u \in FlgMayWait(o)'
  <2>1. flg'[o] = flg[o] /\ call'[u] = call[u] /\ flg[o].exists
    BY <1>4 DEF ToSet, FlgMayWait
  <2>2. flg'[o].exists /\ flg'[o].flgptn \subseteq flg[o].flgptn
    BY <2>1
  <2> QED BY <1>4, <2>1, <2>2, StillMayWait
<1>5. IInv(FlgCtx)'
  <2>1. \A o \in Obj : k'.waitq[o] # <<>> => flg'[o].tpri = flg[o].tpri
    OBVIOUS
  <2> QED BY <1>3, <1>4, <2>1, FlgCarried
<1>6. ASSUME NEW u \in Task PROVE Answered(u)'
  BY StillAnswered DEF FInv
<1>7. Deleting'
  BY EventflagAssumption DEF Deleting, FInv
<1> QED BY <1>5, <1>6, <1>7 DEF FInv

(* A turn of wait_delete's loop.                                           *)
LEMMA FlgWaitDeleteStep ==
  ASSUME FInv, wait_delete, UNCHANGED <<flg, waitinfo, ptn>> PROVE FInv'
<1>1. PICK a : a = FlgCtx /\ Sound(k, a) /\ k \in KernelType
  BY FlgHere
<1>2. PICK o \in Obj : o = event
  BY DEF wait_delete
<1>3. PICK t : t = kqueue_next(k.waitq[o])
  OBVIOUS
<1>4. PICK l : l = [k EXCEPT !.ercd[t] = "E_DLT"]
  OBVIOUS
<1>5. PICK m : m = k'
  OBVIOUS
<1>6. /\ k.waitq[o] # <<>> /\ m = wait_release(l, t)
      /\ runtsk' = runtsk /\ call' = call /\ event' = event
  BY <1>2, <1>3, <1>4, <1>5 DEF wait_delete, kqueue_empty, wait_release_dlt
<1>7. PICK e \in {"E_OK", "E_TMOUT", "E_DLT"} : e = "E_DLT"
  OBVIOUS
<1>8. t \in Task /\ k.state[t] \in Waiting /\ Sound(m, a) /\ Released(l, m, t)
  BY <1>1, <1>3, <1>4, <1>6, <1>7, ReleaseFirst
<1>9. /\ l.ercd = [k.ercd EXCEPT ![t] = "E_DLT"] /\ l.state = k.state
      /\ l.tskwait = k.tskwait /\ l.waitq = k.waitq
      /\ DOMAIN k.ercd = Task /\ DOMAIN k.state = Task /\ DOMAIN k.tskwait = Task
  BY <1>1, <1>4 DEF KernelType
<1>10. /\ \A u \in Task : k.state[u] = "NOEXS" => m.state[u] = "NOEXS"
       /\ \A u \in Task : k.tskwait[u] = "none" =>
            /\ m.tskwait[u] = "none"
            /\ m.ercd[u] = k.ercd[u] \/ m.ercd[u] # "E_OK"
  BY <1>8, <1>9 DEF Released, Waiting
<1>11. FlgTables'
  BY DEF FInv, FlgTables
<1> QED BY <1>1, <1>2, <1>5, <1>6, <1>8, <1>10, <1>11, DeletingStep

(* The end of del_flg.                                                     *)
LEMMA DelFlgEndStep ==
  ASSUME FInv, del_flg_end PROVE FInv'
<1>1. PICK a : a = FlgCtx /\ Sound(k, a)
  BY FlgHere
<1>2. PICK o \in Obj : o = event
  BY DEF del_flg_end
<1>3. /\ k.waitq[o] = <<>> /\ k' = k /\ runtsk' = runtsk /\ call' = call
      /\ waitinfo' = waitinfo /\ ptn' = ptn /\ event' = NoTask
      /\ flg' = [flg EXCEPT ![o].exists = FALSE, ![o].flgptn = {}]
  BY <1>2 DEF del_flg_end, kqueue_empty
<1>4. flg' \in FlgType /\ \A x \in Obj : x # o => flg'[x] = flg[x]
  <2>1. PICK r : r = [[flg[o] EXCEPT !.exists = FALSE] EXCEPT !.flgptn = {}]
    OBVIOUS
  <2>2. flg[o] \in [exists : BOOLEAN, tpri : BOOLEAN, wmul : BOOLEAN, clr : BOOLEAN,
                    flgptn : Pattern]
    BY DEF FInv, FlgTables, FlgType
  <2>3. r \in [exists : BOOLEAN, tpri : BOOLEAN, wmul : BOOLEAN, clr : BOOLEAN,
               flgptn : Pattern]
    BY <2>1, <2>2 DEF Pattern
  <2>4. flg' = [flg EXCEPT ![o] = r]
    BY <1>3, <2>1 DEF FInv, FlgTables, FlgType
  <2> QED BY <2>3, <2>4 DEF FInv, FlgTables, FlgType
<1>5. FlgTables'
  BY <1>3, <1>4 DEF FInv, FlgTables
<1>6. \A x \in Obj : k'.waitq[x] # <<>> => flg'[x] = flg[x]
  BY <1>3, <1>4
<1> QED BY <1>1, <1>2, <1>3, <1>5, <1>6, DeletingStep

(* A task joins the queue of o and gives up the processor, both in the     *)
(* critical section in which it found the event missing.                   *)
LEMMA FlgWaiStep ==
  ASSUME FInv, NEW t \in Task, NEW o \in Obj, NEW w \in Wai, NEW tmo \in Tmo,
         wai_flg(t, o, w, tmo)
  PROVE  FInv'
<1>1. PICK a : /\ a = FlgCtx /\ IInv(a) /\ Sound(k, a) /\ Flow(a) /\ k \in KernelType
               /\ a.calls = FlgCalls /\ ~a.caused
               /\ a.sorted = {x \in Obj : flg[x].tpri}
               /\ \A x \in Obj : a.member[x] = FlgMayWait(x)
  BY FlgHere
<1>2. PICK b : b = FlgCtx'
  OBVIOUS
<1>3. PICK d : d = <<"ercd", o, w>>
  OBVIOUS
<1>4. PICK l : l = [k EXCEPT !.ercd[t] = "E_TMOUT"]
  OBVIOUS
<1>5. PICK z : z = k'
  OBVIOUS
<1>6. /\ At(t, User) /\ ~Leaving(User) /\ FlgOwnCall(d)
      /\ flg[o].exists /\ ~eventflag_cond(flg[o].flgptn, w)
      /\ waitinfo' = [waitinfo EXCEPT ![t] = w]
      /\ z = obj_make_wait(l, t, o, tmo, flg[o].tpri)
      /\ runtsk' = z.schedtsk /\ call' = [call EXCEPT ![t] = d]
      /\ event' = event /\ flg' = flg /\ ptn' = ptn
  BY <1>3, <1>4, <1>5, CallsApart, FlgOwnCalls DEF wai_flg, Calls_
<1>7. /\ runtsk = t /\ event = NoTask /\ k.state[t] = "RDY"
      /\ call \in [Task -> FlgCalls] /\ call[t] = User
  BY <1>1, <1>6, Running
<1>8. /\ \A u \in Task : call'[u] = IF u = t THEN d ELSE call[u]
      /\ \A u \in Task : waitinfo'[u] = IF u = t THEN w ELSE waitinfo[u]
      /\ waitinfo' \in [Task -> WaitInfo \union {NoWait}]
  BY <1>6, <1>7, EventflagAssumption DEF FInv, FlgTables
<1>9. ASSUME NEW x \in Obj, NEW u \in ToSet(k.waitq[x]) PROVE u \in FlgMayWait(x)'
  <2>1. u \in FlgMayWait(x) /\ k.state[u] \in Waiting
    BY <1>1 DEF Sound, WaitsInv, QueueOK
  <2>2. u \in Task /\ u # t
    BY <1>7, <2>1 DEF FlgMayWait, FlgInside, Waiting
  <2>3. call'[u] = call[u] /\ waitinfo'[u] = waitinfo[u]
    BY <1>8, <2>2
  <2> QED BY <1>6, <2>1, <2>2, <2>3 DEF FlgMayWait, FlgInside
<1>10. t \in FlgMayWait(o)'
  <2>1. call'[t] = <<"ercd", o, w>> /\ waitinfo'[t] = w
    BY <1>3, <1>8
  <2> QED BY <1>6, <2>1 DEF FlgMayWait, FlgInside
<1>11. /\ ~b.caused /\ b.sorted = a.sorted /\ b.calls = FlgCalls
       /\ \A x \in Obj : b.member[x] = FlgMayWait(x)'
  BY <1>1, <1>2, <1>6 DEF FlgCtx
<1>12. Sound(z, b) /\ Joined(z, l, t) /\ l.state = k.state /\ l.tskwait = k.tskwait
  <2>1. PICK p : p = (o \in a.sorted)
    OBVIOUS
  <2>2. z = obj_make_wait(l, t, o, tmo, p)
    <3>1. flg[o].tpri \in BOOLEAN /\ (p <=> flg[o].tpri)
      BY <1>1, <2>1 DEF FInv, FlgTables, FlgType
    <3> QED BY <1>6, <3>1 DEF obj_make_wait
  <2>3. PICK e \in {"E_OK", "E_TMOUT", "E_DLT"} : l = [k EXCEPT !.ercd[t] = e]
    BY <1>4
  <2>4. tmo \in Int /\ t \in b.member[o]
        /\ \A x \in Obj : \A u \in ToSet(k.waitq[x]) : u \in b.member[x]
    BY <1>9, <1>10, <1>11, KernelAssumption
  <2>5. /\ Sound(k, a) /\ ~a.caused /\ ~b.caused /\ b.sorted = a.sorted
        /\ k.state[t] = "RDY"
    BY <1>1, <1>7, <1>11
  <2> QED BY <2>1, <2>2, <2>3, <2>4, <2>5, JoinsQueue
<1>13. /\ z.state = [k.state EXCEPT ![t] = "WAI"] /\ z.tskwait = k.tskwait
       /\ z.ercd = [k.ercd EXCEPT ![t] = "E_TMOUT"]
       /\ DOMAIN k.state = Task /\ DOMAIN k.ercd = Task
  BY <1>1, <1>4, <1>12 DEF Joined, KernelType
<1>14. Flow(a)'
  <2>1. /\ d \in a.calls /\ d # Boot /\ (\A x : d # <<"cre_tsk", x>>)
        /\ \A x, p : d # <<"chg_pri", x, p>>
    BY <1>1, <1>6 DEF FlgOwnCall
  <2>2. /\ \A u \in Task : k.state[u] = "NOEXS" => k'.state[u] = "NOEXS"
        /\ SchedInv(k') /\ runtsk' = k'.schedtsk
    BY <1>5, <1>6, <1>7, <1>12, <1>13 DEF Sound
  <2> QED BY <1>1, <1>6, <1>7, <2>1, <2>2, SwitchFlow
<1>15. IInv(FlgCtx)'
  <2>1. Sound(k', FlgCtx') /\ FlgCtx'.calls = a.calls
    BY <1>1, <1>2, <1>5, <1>11, <1>12
  <2> QED BY <1>14, <2>1 DEF IInv, Flow, Typed
<1>16. ASSUME NEW u \in Task PROVE Answered(u)'
  <2>1. CASE u = t
    <3>1. k.tskwait[t] = "none"
      BY <1>1, <1>7 DEF Sound, WaitsInv, WaitOK, Waiting
    <3>2. k'.tskwait[t] = "none" /\ k'.ercd[t] # "E_OK"
      BY <1>5, <1>13, <3>1
    <3> QED BY <2>1, <3>2 DEF Answered
  <2>2. CASE u # t
    <3>1. /\ call'[u] = call[u] /\ ptn'[u] = ptn[u]
          /\ k'.tskwait[u] = k.tskwait[u] /\ k'.ercd[u] = k.ercd[u]
      BY <1>5, <1>6, <1>8, <1>13, <2>2
    <3> QED BY <3>1, StillAnswered DEF FInv
  <2> QED BY <2>1, <2>2
<1>17. Deleting' /\ FlgTables'
  BY <1>6, <1>7, <1>8, EventflagAssumption DEF Deleting, FInv, FlgTables
<1> QED BY <1>15, <1>16, <1>17 DEF FInv

-----------------------------------------------------------------------------
(* set_flg: the walk over the queue. *)

(* What holds when the walk over o's queue is past its first i waiters,    *)
(* and has made n of the kernel, p of the pattern, r of the callers'       *)
(* patterns: who of the first i still waits is not satisfied by what is    *)
(* left, the others all wait, and who was released was satisfied.          *)
Walked(a, o, i, n, p, r) ==
  /\ Sound(n, a) /\ p \in Pattern /\ r \in [Task -> Pattern]
  /\ \A x \in Obj : ToSet(n.waitq[x]) \subseteq ToSet(k.waitq[x])
  /\ \A j \in 1..i : k.waitq[o][j] \in ToSet(n.waitq[o]) =>
                       ~eventflag_cond(p, waitinfo[k.waitq[o][j]])
  /\ \A j \in (i + 1)..Len(k.waitq[o]) : k.waitq[o][j] \in ToSet(n.waitq[o])
  /\ \A u \in Task : /\ k.state[u] = "RDY" => n.state[u] = "RDY"
                     /\ k.state[u] = "NOEXS" => n.state[u] = "NOEXS"
                     /\ k.tskwait[u] = "none" => n.tskwait[u] = "none"
                     /\ \/ n.ercd[u] = k.ercd[u] /\ r[u] = ptn[u]
                        \/ /\ u \in ToSet(k.waitq[o])
                           /\ eventflag_cond(r[u], waitinfo[u])
  /\ n = k \/ \E u \in Task : k.state[u] \in Waiting

(* Before the first waiter.                                                *)
LEMMA WalkStarts ==
  ASSUME NEW a, Sound(k, a), NEW o \in Obj, NEW p \in Pattern, ptn \in [Task -> Pattern]
  PROVE  Walked(a, o, 0, k, p, ptn)
<1>1. k.waitq[o] \in Seq(Task)
  BY DEF Sound, KernelType
<1>2. \A j \in 1..Len(k.waitq[o]) : k.waitq[o][j] \in ToSet(k.waitq[o])
  BY <1>1 DEF ToSet
<1> QED BY <1>2 DEF Walked

(* A turn of the loop that leaves the waiter alone.                        *)
LEMMA WalkPasses ==
  ASSUME NEW a, NEW o \in Obj, NEW i \in Nat, i < Len(k.waitq[o]), NEW n, NEW p, NEW r,
         Walked(a, o, i, n, p, r), ~eventflag_cond(p, waitinfo[k.waitq[o][i + 1]])
  PROVE  Walked(a, o, i + 1, n, p, r)
<1>1. \A j \in 1..(i + 1) : j \in 1..i \/ j = i + 1
  OBVIOUS
<1>2. \A j \in 1..(i + 1) : k.waitq[o][j] \in ToSet(n.waitq[o]) =>
                              ~eventflag_cond(p, waitinfo[k.waitq[o][j]])
  BY <1>1 DEF Walked
<1>3. \A j \in ((i + 1) + 1)..Len(k.waitq[o]) : j \in (i + 1)..Len(k.waitq[o])
  OBVIOUS
<1> QED BY <1>2, <1>3 DEF Walked

(* From n to m task t, and nobody else, has been taken out of its wait.    *)
Freed(n, m, t) ==
  /\ \A x \in Obj : ToSet(m.waitq[x]) = ToSet(n.waitq[x]) \ {t}
  /\ m.tskwait[t] = "none"
  /\ \A u \in Task \ {t} : /\ m.state[u] = n.state[u] /\ m.ercd[u] = n.ercd[u]
                           /\ m.tskwait[u] = n.tskwait[u]

(* A waiter in the queue of o is released, with E_OK.                      *)
LEMMA ReleaseOk ==
  ASSUME NEW a, NEW n, Sound(n, a), NEW o \in Obj, NEW t \in ToSet(n.waitq[o]),
         NEW m, m = wait_release_ok(n, t)
  PROVE  Sound(m, a) /\ Freed(n, m, t)
<1>1. n \in KernelType /\ WaitsInv(n, a)
  BY DEF Sound
<1>2. PICK l : l = [n EXCEPT !.ercd[t] = "E_OK"]
  OBVIOUS
<1>3. PICK e \in {"E_OK", "E_TMOUT", "E_DLT"} : l = [n EXCEPT !.ercd[t] = e]
  BY <1>2
<1>4. m = wait_release(l, t)
  BY <1>2 DEF wait_release_ok
<1>5. /\ t \in Task /\ Sound(m, a) /\ Released(l, m, t)
      /\ l.state = n.state /\ l.tskwait = n.tskwait /\ l.waitq = n.waitq
  BY <1>3, <1>4, ReleaseMember
<1>6. \A x \in Obj : ToSet(m.waitq[x]) = ToSet(n.waitq[x]) \ {t}
  <2>1. m.waitq = Without(n.waitq, t)
    BY <1>5 DEF Released
  <2> QED BY <1>1, <2>1, WithoutMembers
<1>7. l.ercd = [n.ercd EXCEPT ![t] = "E_OK"]
  BY <1>1, <1>2 DEF KernelType
<1>8. \A u \in Task \ {t} : m.ercd[u] = n.ercd[u]
  <2>1. m.ercd = l.ercd /\ DOMAIN n.ercd = Task
    BY <1>1, <1>5 DEF Released, KernelType
  <2> QED BY <1>7, <2>1
<1>9. /\ m.tskwait[t] = "none"
      /\ \A u \in Task \ {t} : m.tskwait[u] = n.tskwait[u]
  <2>1. m.tskwait = [l.tskwait EXCEPT ![t] = "none"] /\ DOMAIN n.tskwait = Task
    BY <1>1, <1>5 DEF Released, KernelType
  <2> QED BY <1>5, <2>1
<1>10. \A u \in Task \ {t} : m.state[u] = n.state[u]
  <2>1. PICK x : m.state = [l.state EXCEPT ![t] = x]
    BY <1>5 DEF Released
  <2>2. DOMAIN n.state = Task
    BY <1>1 DEF KernelType
  <2> QED BY <1>5, <2>1, <2>2
<1> QED BY <1>5, <1>6, <1>8, <1>9, <1>10 DEF Freed

(* A turn of the loop that releases the waiter.                            *)
LEMMA WalkReleases ==
  ASSUME NEW a, Sound(k, a), NEW o \in Obj, NEW i \in Nat, i < Len(k.waitq[o]),
         NEW n, NEW p, NEW r, Walked(a, o, i, n, p, r),
         NEW t, t = k.waitq[o][i + 1], eventflag_cond(p, waitinfo[t]),
         NEW m, Sound(m, a), Freed(n, m, t), NEW c, c = cleared(o, p),
         NEW s, s = [r EXCEPT ![t] = p]
  PROVE  Walked(a, o, i + 1, m, c, s)
<1> DEFINE q == k.waitq[o]
<1>1. q \in Seq(Task) /\ IsInjective(q) /\ n \in KernelType
  BY DEF Sound, KernelType, WaitsInv, QueueOK, Walked
<1>2. i + 1 \in 1..Len(q) /\ i + 1 \in (i + 1)..Len(q)
  BY <1>1
<1>3. t \in ToSet(q) /\ t \in ToSet(n.waitq[o]) /\ t \in Task /\ k.state[t] \in Waiting
  <2>1. t \in ToSet(q)
    BY <1>1, <1>2 DEF ToSet
  <2>2. t \in ToSet(n.waitq[o])
    BY <1>2 DEF Walked
  <2>3. k.state[t] \in Waiting
    BY <2>1 DEF Sound, WaitsInv, QueueOK
  <2> QED BY <1>1, <1>2, <2>1, <2>2, <2>3
<1>4. c \in Pattern /\ c \in SUBSET p /\ s \in [Task -> Pattern]
  <2>1. p \in Pattern /\ r \in [Task -> Pattern]
    BY DEF Walked
  <2>2. c \in {p, {}}
    BY ClearedPattern
  <2> QED BY <1>3, <2>1, <2>2 DEF Pattern
<1>5. ASSUME NEW j \in 1..(i + 1), q[j] \in ToSet(m.waitq[o])
      PROVE  ~eventflag_cond(c, waitinfo[q[j]])
  <2>1. q[j] # t /\ q[j] \in ToSet(n.waitq[o])
    BY <1>5 DEF Freed
  <2>2. j \in 1..i
    BY <2>1
  <2>3. ~eventflag_cond(p, waitinfo[q[j]])
    BY <2>1, <2>2 DEF Walked
  <2> QED BY <1>4, <2>3, FewerBits
<1>6. ASSUME NEW j \in ((i + 1) + 1)..Len(q) PROVE q[j] \in ToSet(m.waitq[o])
  <2>1. j \in (i + 1)..Len(q) /\ j \in DOMAIN q /\ i + 1 \in DOMAIN q /\ j # i + 1
    BY <1>1, <1>2
  <2>2. q[j] \in ToSet(n.waitq[o])
    BY <2>1 DEF Walked
  <2>3. q[j] # t
    BY <1>1, <2>1 DEF IsInjective
  <2> QED BY <2>2, <2>3 DEF Freed
<1>7. s[t] = p /\ \A u \in Task \ {t} : s[u] = r[u]
  BY <1>3 DEF Walked
<1>8. ASSUME NEW u \in Task
       PROVE  /\ k.state[u] = "RDY" => m.state[u] = "RDY"
              /\ k.state[u] = "NOEXS" => m.state[u] = "NOEXS"
              /\ k.tskwait[u] = "none" => m.tskwait[u] = "none"
              /\ \/ m.ercd[u] = k.ercd[u] /\ s[u] = ptn[u]
                 \/ u \in ToSet(q) /\ eventflag_cond(s[u], waitinfo[u])
  <2>1. CASE u = t
    BY <1>3, <1>7, <2>1 DEF Waiting, Freed
  <2>2. CASE u # t
    <3>1. /\ m.state[u] = n.state[u] /\ m.tskwait[u] = n.tskwait[u]
          /\ m.ercd[u] = n.ercd[u] /\ s[u] = r[u]
      BY <1>7, <2>2 DEF Freed
    <3> QED BY <3>1 DEF Walked
  <2> QED BY <2>1, <2>2
<1>9. ASSUME NEW x \in Obj PROVE ToSet(m.waitq[x]) \subseteq ToSet(k.waitq[x])
  <2>1. ToSet(m.waitq[x]) \subseteq ToSet(n.waitq[x])
    BY DEF Freed
  <2>2. ToSet(n.waitq[x]) \subseteq ToSet(k.waitq[x])
    BY DEF Walked
  <2> QED BY <2>1, <2>2
<1> QED BY <1>3, <1>4, <1>5, <1>6, <1>8, <1>9 DEF Walked

(* The walk, and its function up to the turn n.                            *)
Start(o, setptn) == [k |-> k, flgptn |-> flg[o].flgptn \union setptn, ptn |-> ptn]

IsWalk(f, o, setptn, n) ==
  f = [i \in 0..n |-> IF i = 0 THEN Start(o, setptn)
                      ELSE set_flg_turn(f[i - 1], o, k.waitq[o][i])]

(* There is one for every n, so the recursive definition has a value.      *)
LEMMA WalkExtends ==
  ASSUME NEW o \in Obj, NEW setptn, NEW n \in Nat, NEW f, IsWalk(f, o, setptn, n)
  PROVE  \E g : IsWalk(g, o, setptn, n + 1)
<1> DEFINE g == [i \in 0..(n + 1) |-> IF i = n + 1
                                      THEN set_flg_turn(f[n], o, k.waitq[o][n + 1])
                                      ELSE f[i]]
<1>1. \A i \in 0..(n + 1) : i # n + 1 => i \in 0..n
  OBVIOUS
<1>2. \A i \in 0..(n + 1) : i # 0 => (i - 1) \in 0..(n + 1) /\ i - 1 # n + 1
  OBVIOUS
<1>3. \A i \in 0..(n + 1) : i # n + 1 =>
        g[i] = IF i = 0 THEN Start(o, setptn)
               ELSE set_flg_turn(f[i - 1], o, k.waitq[o][i])
  BY <1>1 DEF IsWalk
<1>4. \A i \in 0..(n + 1) : i # 0 => g[i - 1] = f[i - 1]
  BY <1>2
<1>5. \A i \in 0..(n + 1) :
        g[i] = IF i = 0 THEN Start(o, setptn)
               ELSE set_flg_turn(g[i - 1], o, k.waitq[o][i])
  <2> SUFFICES ASSUME NEW i \in 0..(n + 1)
               PROVE  g[i] = IF i = 0 THEN Start(o, setptn)
                             ELSE set_flg_turn(g[i - 1], o, k.waitq[o][i])
    OBVIOUS
  <2>1. CASE i = n + 1
    <3>1. g[i] = set_flg_turn(f[n], o, k.waitq[o][n + 1]) /\ i # 0 /\ i - 1 = n
      BY <2>1
    <3>2. g[i - 1] = f[n]
      BY <1>4, <3>1
    <3> HIDE DEF g
    <3> QED BY <2>1, <3>1, <3>2
  <2>2. CASE i # n + 1 /\ i = 0
    BY <1>3, <2>2
  <2>3. CASE i # n + 1 /\ i # 0
    <3>1. g[i - 1] = f[i - 1]
      BY <1>4, <2>3
    <3>2. g[i] = set_flg_turn(f[i - 1], o, k.waitq[o][i])
      BY <1>3, <2>3
    <3> HIDE DEF g
    <3> QED BY <2>3, <3>1, <3>2
  <2> HIDE DEF g
  <2> QED BY <2>1, <2>2, <2>3
<1>6. g = [i \in 0..(n + 1) |-> g[i]]
  OBVIOUS
<1> HIDE DEF g
<1>7. g = [i \in 0..(n + 1) |-> IF i = 0 THEN Start(o, setptn)
                                ELSE set_flg_turn(g[i - 1], o, k.waitq[o][i])]
  BY <1>5, <1>6
<1> QED BY <1>7 DEF IsWalk

LEMMA WalkIs ==
  ASSUME NEW o \in Obj, NEW setptn, k \in KernelType
  PROVE  IsWalk(set_flg_walk(o, setptn), o, setptn, Len(k.waitq[o]))
<1>1. Len(k.waitq[o]) \in Nat
  BY DEF KernelType
<1> DEFINE S == {n \in Nat : \E f : IsWalk(f, o, setptn, n)}
<1>2. 0 \in S
  <2>1. IsWalk([i \in 0..0 |-> Start(o, setptn)], o, setptn, 0)
    BY DEF IsWalk
  <2> QED BY <2>1
<1>3. \A n \in Nat : n \in S => n + 1 \in S
  BY WalkExtends
<1>4. \A n \in Nat : n \in S
  <2> HIDE DEF S
  <2> QED BY <1>2, <1>3, NumberInduction
<1>5. PICK f : IsWalk(f, o, setptn, Len(k.waitq[o]))
  BY <1>1, <1>4
<1> QED BY <1>5 DEF IsWalk, set_flg_walk, Start

(* A turn of the loop.                                                     *)
LEMMA WalkTurn ==
  ASSUME NEW a, Sound(k, a), NEW o \in Obj, NEW i \in Nat, i < Len(k.waitq[o]),
         NEW st, Walked(a, o, i, st.k, st.flgptn, st.ptn),
         NEW sx, sx = set_flg_turn(st, o, k.waitq[o][i + 1])
  PROVE  Walked(a, o, i + 1, sx.k, sx.flgptn, sx.ptn)
<1>1. PICK t : t = k.waitq[o][i + 1]
  OBVIOUS
<1>2. CASE ~eventflag_cond(st.flgptn, waitinfo[t])
  <2>1. sx = st
    BY <1>1, <1>2 DEF set_flg_turn
  <2>2. PICK n, p, r : n = st.k /\ p = st.flgptn /\ r = st.ptn
    OBVIOUS
  <2>3. Walked(a, o, i, n, p, r) /\ ~eventflag_cond(p, waitinfo[k.waitq[o][i + 1]])
    BY <1>1, <1>2, <2>2
  <2>4. Walked(a, o, i + 1, n, p, r)
    BY <2>3, WalkPasses
  <2> QED BY <2>1, <2>2, <2>4
<1>3. CASE eventflag_cond(st.flgptn, waitinfo[t])
  <2>1. sx = [k      |-> wait_release_ok(st.k, t),
              flgptn |-> cleared(o, st.flgptn),
              ptn    |-> [st.ptn EXCEPT ![t] = st.flgptn]]
    BY <1>1, <1>3 DEF set_flg_turn
  <2>2. PICK n, p, r : n = st.k /\ p = st.flgptn /\ r = st.ptn
    OBVIOUS
  <2>3. PICK m, c, s : /\ m = wait_release_ok(n, t) /\ c = cleared(o, p)
                       /\ s = [r EXCEPT ![t] = p]
    OBVIOUS
  <2>4. sx.k = m /\ sx.flgptn = c /\ sx.ptn = s
    BY <2>1, <2>2, <2>3
  <2>5. Walked(a, o, i, n, p, r) /\ eventflag_cond(p, waitinfo[t])
    BY <1>3, <2>2
  <2>6. Sound(n, a) /\ t \in ToSet(n.waitq[o])
    <3>1. i + 1 \in (i + 1)..Len(k.waitq[o])
      BY DEF Sound, KernelType
    <3> QED BY <1>1, <2>5, <3>1 DEF Walked
  <2>7. Sound(m, a) /\ Freed(n, m, t)
    BY <2>3, <2>6, ReleaseOk
  <2>8. Walked(a, o, i + 1, m, c, s)
    BY <1>1, <2>3, <2>5, <2>7, WalkReleases
  <2> QED BY <2>4, <2>8
<1> QED BY <1>2, <1>3

(* The whole walk.                                                         *)
LEMMA WalkHolds ==
  ASSUME FInv, NEW a, a = FlgCtx, NEW o \in Obj, NEW setptn \in Setptn, _set_flg(o, setptn)
  PROVE  \E p \in Pattern : /\ Walked(a, o, Len(k.waitq[o]), k', p, ptn')
                            /\ flg' = [flg EXCEPT ![o].flgptn = p]
                            /\ flg[o].exists /\ waitinfo' = waitinfo
<1>1. Sound(k, a) /\ k \in KernelType
  BY FlgHere
<1>2. k.waitq[o] \in Seq(Task) /\ Len(k.waitq[o]) \in Nat
  BY <1>1 DEF KernelType
<1>3. PICK n \in Nat : n = Len(k.waitq[o])
  BY <1>2
<1>4. PICK f : f = set_flg_walk(o, setptn)
  OBVIOUS
<1>5. f = [i \in 0..n |-> IF i = 0 THEN Start(o, setptn)
                          ELSE set_flg_turn(f[i - 1], o, k.waitq[o][i])]
  BY <1>1, <1>3, <1>4, WalkIs DEF IsWalk
<1> DEFINE S == {i \in Nat : i <= n => Walked(a, o, i, f[i].k, f[i].flgptn, f[i].ptn)}
<1>6. 0 \in S
  <2>1. PICK p : p = flg[o].flgptn \union setptn
    OBVIOUS
  <2>2. p \in Pattern /\ ptn \in [Task -> Pattern]
    BY <2>1, EventflagAssumption DEF FInv, FlgTables, FlgType, Pattern
  <2>3. f[0] = Start(o, setptn)
    BY <1>5
  <2>4. f[0].k = k /\ f[0].flgptn = p /\ f[0].ptn = ptn
    BY <2>1, <2>3 DEF Start
  <2>5. Walked(a, o, 0, k, p, ptn)
    BY <1>1, <2>2, WalkStarts
  <2>6. Walked(a, o, 0, f[0].k, f[0].flgptn, f[0].ptn)
    BY <2>4, <2>5
  <2> QED BY <2>6
<1>7. ASSUME NEW i \in Nat, i \in S PROVE i + 1 \in S
  <2> SUFFICES ASSUME i + 1 <= n
               PROVE  Walked(a, o, i + 1, f[i + 1].k, f[i + 1].flgptn, f[i + 1].ptn)
    OBVIOUS
  <2>1. PICK st : st = f[i]
    OBVIOUS
  <2>2. PICK sx : sx = f[i + 1]
    OBVIOUS
  <2>3. sx = set_flg_turn(st, o, k.waitq[o][i + 1])
    <3>1. i + 1 \in 0..n /\ i + 1 # 0 /\ (i + 1) - 1 = i
      OBVIOUS
    <3>2. f[i + 1] = set_flg_turn(f[(i + 1) - 1], o, k.waitq[o][i + 1])
      BY <1>5, <3>1
    <3> QED BY <2>1, <2>2, <3>1, <3>2
  <2>4. Walked(a, o, i, st.k, st.flgptn, st.ptn) /\ i < Len(k.waitq[o])
    BY <1>3, <1>7, <2>1
  <2>5. Walked(a, o, i + 1, sx.k, sx.flgptn, sx.ptn)
    BY <1>1, <2>3, <2>4, WalkTurn
  <2> QED BY <2>2, <2>5
<1>8. \A i \in Nat : i \in S
  <2> HIDE DEF S
  <2> QED BY <1>6, <1>7, NumberInduction
<1>9. PICK st : st = f[n]
  OBVIOUS
<1>10. Walked(a, o, n, st.k, st.flgptn, st.ptn)
  BY <1>8, <1>9
<1>11. /\ k' = st.k /\ ptn' = st.ptn /\ flg' = [flg EXCEPT ![o].flgptn = st.flgptn]
       /\ flg[o].exists /\ waitinfo' = waitinfo
  BY <1>3, <1>4, <1>9 DEF _set_flg
<1>12. PICK p : p = st.flgptn
  OBVIOUS
<1>13. Walked(a, o, Len(k.waitq[o]), k', p, ptn') /\ p \in Pattern
  BY <1>3, <1>10, <1>11, <1>12 DEF Walked
<1> QED BY <1>11, <1>12, <1>13

(* The walk keeps the invariant, wherever it is made from.                 *)
LEMMA WalkedInv ==
  ASSUME FInv, NEW a, a = FlgCtx, NEW o \in Obj, NEW p \in Pattern,
         Walked(a, o, Len(k.waitq[o]), k', p, ptn'), flg' = [flg EXCEPT ![o].flgptn = p],
         flg[o].exists, waitinfo' = waitinfo, Flow(a)', event' \notin Obj,
         \A u \in Task : call'[u] = call[u] \/ (call'[u] \in Calls /\ k.state[u] = "RDY")
  PROVE  FInv'
<1>1. /\ Sound(k, a) /\ k \in KernelType /\ \A x \in Obj : a.member[x] = FlgMayWait(x)
      /\ Sound(k', a) /\ FlgTables
  BY FlgHere DEF Walked, FInv
<1>2. /\ flg' \in FlgType /\ flg'[o].flgptn = p
      /\ \A x \in Obj : /\ flg'[x].tpri = flg[x].tpri /\ flg'[x].exists = flg[x].exists
                        /\ x # o => flg'[x] = flg[x]
  BY <1>1, PatternTables
<1>3. ASSUME NEW x \in Obj, NEW u \in ToSet(k.waitq[x])
      PROVE  u \in Task /\ u \in FlgMayWait(x) /\ call'[u] = call[u]
  <2>1. u \in FlgMayWait(x) /\ k.state[u] \in Waiting
    BY <1>1 DEF Sound, WaitsInv, QueueOK
  <2>2. u \in Task
    BY <2>1 DEF FlgMayWait, FlgInside
  <2> QED BY <2>1, <2>2 DEF Waiting
<1>4. ASSUME NEW x \in Obj, NEW u \in ToSet(k'.waitq[x]) PROVE u \in FlgMayWait(x)'
  <2>1. u \in ToSet(k.waitq[x])
    BY <1>4 DEF Walked
  <2>2. u \in Task /\ u \in FlgMayWait(x) /\ call'[u] = call[u]
    BY <1>3, <2>1
  <2>3. CASE x # o
    <3>1. flg'[x].exists /\ flg'[x].flgptn \subseteq flg[x].flgptn
      BY <1>2, <2>2, <2>3 DEF FlgMayWait
    <3> QED BY <2>2, <3>1, StillMayWait
  <2>4. CASE x = o
    <3>1. PICK j \in 1..Len(k.waitq[o]) : u = k.waitq[o][j]
      <4>1. k.waitq[o] \in Seq(Task)
        BY <1>1 DEF KernelType
      <4> QED BY <2>1, <2>4, <4>1 DEF ToSet
    <3>2. ~eventflag_cond(flg'[o].flgptn, waitinfo[u])
      BY <1>2, <1>4, <2>4, <3>1 DEF Walked
    <3> QED BY <1>2, <2>2, <2>4, <3>2 DEF FlgMayWait, FlgInside
  <2> QED BY <2>3, <2>4
<1>5. IInv(FlgCtx)'
  <2>1. \A x \in Obj : k'.waitq[x] # <<>> => flg'[x].tpri = flg[x].tpri
    BY <1>2
  <2> QED BY <1>1, <1>4, <2>1, FlgCarried
<1>6. ASSUME NEW u \in Task PROVE Answered(u)'
  <2>1. k.tskwait[u] = "none" => k'.tskwait[u] = "none"
    BY DEF Walked
  <2>2. Answered(u) /\ (call'[u] \in Calls \/ call'[u] = call[u])
    BY DEF FInv
  <2>3. CASE k'.ercd[u] = k.ercd[u] /\ ptn'[u] = ptn[u]
    BY <2>1, <2>2, <2>3, StillAnswered
  <2>4. CASE u \in ToSet(k.waitq[o]) /\ eventflag_cond(ptn'[u], waitinfo[u])
    <3>1. u \in FlgMayWait(o) /\ call'[u] = call[u]
      BY <1>3, <2>4
    <3>2. PICK w \in Wai : call[u] = <<"ercd", o, w>> /\ waitinfo[u] = w
      BY <3>1 DEF FlgMayWait, FlgInside
    <3>3. \A x \in Obj, v \in Wai : call'[u] = <<"ercd", x, v>> => v = w
      BY <3>1, <3>2, FlgCallsDiffer
    <3>4. k'.tskwait[u] = "none"
      BY <2>1, <2>2, <3>2 DEF Answered
    <3> QED BY <2>4, <3>2, <3>3, <3>4 DEF Answered
  <2> QED BY <2>3, <2>4 DEF Walked
<1>7. Deleting' /\ FlgTables'
  BY <1>1, <1>2 DEF Deleting, FlgTables, Walked
<1> QED BY <1>5, <1>6, <1>7 DEF FInv

LEMMA SetStep ==
  ASSUME FInv, NEW t \in Task, NEW o \in Obj, NEW setptn \in Setptn, set_flg(t, o, setptn)
  PROVE  FInv'
<1>1. PICK a : a = FlgCtx /\ IInv(a) /\ Flow(a) /\ a.calls = FlgCalls
  BY FlgHere
<1>2. PICK p \in Pattern : /\ Walked(a, o, Len(k.waitq[o]), k', p, ptn')
                           /\ flg' = [flg EXCEPT ![o].flgptn = p]
                           /\ flg[o].exists /\ waitinfo' = waitinfo
  BY <1>1, WalkHolds DEF set_flg
<1>3. PICK d : d = Dispatch
  OBVIOUS
<1>4. At(t, User) /\ ~Leaving(User) /\ Goto(t, d)
  BY <1>3, CallsApart DEF set_flg, Calls_
<1>5. /\ runtsk = t /\ event = NoTask /\ k.state[t] = "RDY" /\ call \in [Task -> FlgCalls]
      /\ event' = event /\ runtsk' = runtsk
  BY <1>1, <1>4, Running DEF Goto
<1>6. d \in Calls /\ d \in FlgCalls /\ Leaving(d)
  BY <1>3, FlgCallsIn, CallsApart DEF Calls
<1>7. /\ \A u \in Task : call'[u] = IF u = t THEN d ELSE call[u]
      /\ call' \in [Task -> a.calls] /\ Leaving(call'[t])
      /\ \A u \in Task : call'[u] = call[u] \/ call'[u] = User \/ Leaving(call'[u])
  BY <1>1, <1>4, <1>5, <1>6 DEF Goto
<1>8. event' \in (Obj \union {NoTask}) \ Task /\ event' \notin Obj
  BY <1>5, EventflagAssumption, ReadyQueueAssumption
<1>9. \A u \in Task : k.state[u] = "NOEXS" => k'.state[u] = "NOEXS"
  BY <1>2 DEF Walked
<1>10. Flow(a)'
  BY <1>1, <1>5, <1>7, <1>8, <1>9, DispatchFlow
<1>11. \A u \in Task : call'[u] = call[u] \/ (call'[u] \in Calls /\ k.state[u] = "RDY")
  BY <1>5, <1>6, <1>7
<1> QED BY <1>1, <1>2, <1>8, <1>10, <1>11, WalkedInv

LEMMA IsetStep ==
  ASSUME FInv, NEW o \in Obj, NEW setptn \in Setptn, iset_flg(o, setptn) PROVE FInv'
<1>1. PICK a : a = FlgCtx /\ Sound(k, a) /\ Flow(a) /\ a.calls = FlgCalls
  BY FlgHere
<1>2. PICK p \in Pattern : /\ Walked(a, o, Len(k.waitq[o]), k', p, ptn')
                           /\ flg' = [flg EXCEPT ![o].flgptn = p]
                           /\ flg[o].exists /\ waitinfo' = waitinfo
  BY <1>1, WalkHolds DEF iset_flg
<1>3. event = NoTask /\ event' = NoTask /\ call' = call /\ irq_return
  BY DEF iset_flg, irq_entry
<1>4. /\ Sound(k', a) /\ call' \in [Task -> a.calls] /\ event' \notin Obj
      /\ \A u \in Task : /\ k.state[u] = "RDY" => k'.state[u] = "RDY"
                         /\ k.state[u] = "NOEXS" => k'.state[u] = "NOEXS"
  BY <1>1, <1>2, <1>3, EventflagAssumption DEF Walked, Flow, Typed
<1>5. call[INIT_TASK] = Boot => k' = k
  <2>1. k' = k \/ \E u \in Task : k.state[u] \in Waiting
    BY <1>2 DEF Walked
  <2> QED BY <1>1, <2>1 DEF Flow, CallInv, Waiting
<1>6. Flow(a)'
  BY <1>1, <1>3, <1>4, <1>5, IrqFlow
<1> QED BY <1>1, <1>2, <1>3, <1>4, <1>6, WalkedInv

-----------------------------------------------------------------------------
(* The theorem. *)

(* Every step of the event flags and of the kernel under them.             *)
LEMMA FlgStep ==
  FInv /\ WellBehaved /\ [FlgNext]_flgvars => FInv'
<1> SUFFICES ASSUME FInv, WellBehaved, [FlgNext]_flgvars PROVE FInv'
  OBVIOUS
<1>1. CASE UNCHANGED flgvars
  <2>1. /\ k' = k /\ runtsk' = runtsk /\ call' = call /\ event' = event
        /\ flg' = flg /\ waitinfo' = waitinfo /\ ptn' = ptn
    BY <1>1 DEF flgvars
  <2>2. PICK a : a = FlgCtx /\ Sound(k, a) /\ Flow(a)
    BY FlgHere
  <2>3. Flow(a)'
    BY <2>1, <2>2 DEF Flow, Typed, RunInv, CallInv
  <2>4. \A o \in Obj : FlgMayWait(o)' = FlgMayWait(o)
    BY <2>1 DEF FlgMayWait, FlgInside
  <2>5. IInv(FlgCtx)'
    BY <2>1, <2>2, <2>3, <2>4, FlgCarried
  <2> QED BY <2>1, <2>5 DEF FInv, FlgTables, Deleting, Answered
<1>2. CASE Next /\ UNCHANGED <<flg, waitinfo, ptn>>
  BY <1>2, FlgKernelStep
<1>3. CASE wait_delete /\ UNCHANGED <<flg, waitinfo, ptn>>
  BY <1>3, FlgWaitDeleteStep
<1>4. ASSUME NEW t \in Task, FlgTaskStep(t) PROVE FInv'
  BY <1>4, ReturnStep, DelFlgStep, CreateFlgStep, SetStep, ClrCheckStep, ClrStep,
     AtOnceStep, PolFailsStep, FlgWaiStep DEF FlgTaskStep
<1>5. ASSUME NEW o \in Obj, NEW s \in Setptn, iset_flg(o, s) PROVE FInv'
  BY <1>5, IsetStep
<1>6. CASE del_flg_end
  BY <1>6, DelFlgEndStep
<1> QED BY <1>1, <1>2, <1>3, <1>4, <1>5, <1>6 DEF FlgNext

(* At first no flag is there, and no task is in a call for one.            *)
LEMMA FlgInitInv == FlgInit => FInv
<1> SUFFICES ASSUME FlgInit PROVE FInv
  OBVIOUS
<1>1. /\ Init /\ flg = eventflag_initialize /\ waitinfo = [t \in Task |-> NoWait]
      /\ ptn = [t \in Task |-> {}]
  BY DEF FlgInit
<1>2. /\ call = [t \in Task |-> IF t = INIT_TASK THEN Boot ELSE User]
      /\ event = NoTask
  BY <1>1 DEF Init
<1>3. IInv(FlgCtx)
  <2>1. PICK a : a = FlgCtx
    OBVIOUS
  <2>2. Calls \subseteq a.calls
    BY <2>1, FlgCallsIn DEF FlgCtx
  <2>3. IInv(a)
    BY <1>1, <2>2, InitIInv
  <2> QED BY <2>1, <2>3
<1>4. ASSUME NEW t \in Task PROVE Answered(t)
  <2>1. call[t] \in Calls
    BY <1>2 DEF Calls
  <2> QED BY <2>1, FlgCallsApart DEF Answered
<1>5. FlgTables
  BY <1>1 DEF FlgTables, FlgType, eventflag_initialize, Pattern
<1>6. Deleting
  BY <1>2, EventflagAssumption DEF Deleting
<1> QED BY <1>3, <1>4, <1>5, <1>6 DEF FInv

(* What wai_flg, set_flg, clr_flg and del_flg promise together, over       *)
(* _set_flg's walk of eventflags.c, timeouts and deleted tasks: nobody     *)
(* waits for an event that is there, and who is answered E_OK has been     *)
(* given a pattern that satisfies it.                                      *)
THEOREM EventflagFlagExact == ASSUME WellBehaved PROVE FlgSpec => []FlagExact
<1>1. FInv => FlagExact
  <2> SUFFICES ASSUME FInv PROVE FlagExact
    OBVIOUS
  <2>1. PICK a : /\ a = FlgCtx /\ Sound(k, a) /\ Flow(a) /\ k \in KernelType
                 /\ a.calls = FlgCalls /\ \A o \in Obj : a.member[o] = FlgMayWait(o)
    BY FlgHere
  <2>2. FlgTypeOK
    BY <2>1 DEF FlgTypeOK, FInv, FlgTables, Flow, Typed
  <2>3. NoMissedEvent
    BY <2>1 DEF NoMissedEvent, Sound, WaitsInv, QueueOK, FlgMayWait
  <2>4. PatternSatisfies
    BY DEF PatternSatisfies, FInv, Answered
  <2> QED BY <2>2, <2>3, <2>4 DEF FlagExact
<1>2. FInv /\ [FlgNext]_flgvars => FInv'
  BY FlgStep
<1>3. FlgInit => FInv
  BY FlgInitInv
<1> QED BY <1>1, <1>2, <1>3, PTL DEF FlgSpec
=============================================================================
