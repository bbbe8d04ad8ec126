---------------------------- MODULE KernelProofs ----------------------------
(***************************************************************************)
(* The kernel's scheduler, its waits and the choice of the running task    *)
(* are sound in every reachable state, whatever the tasks, the services    *)
(* they call, the number of lines, the timeouts and the limits.            *)
(***************************************************************************)
EXTENDS Kernel, TasksProofs

(* What the application must not do: see the comments of the constants.    *)
(* Creation tests and creates in two steps, so tasks that create must not  *)
(* pre-empt one another; chg_pri links even a task that is not READY.      *)
WellBehaved ==
  /\ \A c, d \in Creators : c = d
  /\ PriTargets = {}
  /\ ~NestedSuspend

(* What the lemmas leave open, so that the modules of the kernel's objects *)
(* can use them too.  a.calls: where a task can be in a service call.      *)
(* a.member[o]: the tasks that object o's queue may hold.  a.sorted: the   *)
(* objects whose queue is in priority order.  a.caused: no task waits at   *)
(* an object, so tskwait is the cause of every wait.                       *)

InOrder(q, pri) ==
  \A i, j \in DOMAIN q : i < j => pri[q[i]] <= pri[q[j]]

QueueOK(n, o, a) ==
  /\ IsInjective(n.waitq[o])
  /\ \A t \in ToSet(n.waitq[o]) : n.state[t] \in Waiting /\ t \in a.member[o]
  /\ o \in a.sorted => InOrder(n.waitq[o], n.tskpri)

WaitOK(n, t, a) ==
  n.state[t] # "NOEXS" =>
    /\ n.tskwait[t] # "none" => n.state[t] \in Waiting
    /\ a.caused /\ n.state[t] \in Waiting => n.tskwait[t] # "none"
    /\ n.tskwait[t] = "SLP" => n.wupcnt[t] = 0
    /\ n.suscnt[t] > 0 <=> n.state[t] \in {"SUS", "WAS"}

(* What is kept of the waits.                                              *)
WaitsInv(n, a) ==
  /\ IsInjective(n.timerq)
  /\ \A t \in ToSet(n.timerq) : n.state[t] \in Waiting
  /\ \A o \in Obj : QueueOK(n, o, a)
  /\ \A t \in Task : WaitOK(n, t, a)

Sound(n, a) == n \in KernelType /\ SchedInv(n) /\ WaitsInv(n, a)

(* The critical section of the call is over, dispatch() comes next.        *)
Leaving(c) == c = Dispatch \/ \E o \in Obj : c = <<"dispatch", o>>

(* The processor: the timer handler's event is linked; a context that is   *)
(* not about to dispatch belongs to a READY task, on a port that preempts  *)
(* the chosen one.                                                         *)
RunInv ==
  /\ event \in Task => event \in ToSet(k.timerq)
  /\ runtsk # NoTask /\ ~Leaving(call[runtsk]) =>
       /\ k.state[runtsk] = "RDY"
       /\ Preemptive /\ event = NoTask => runtsk = k.schedtsk

(* What a task that is between two steps of a call may rely on: the ID it  *)
(* found free is free; it changes the priority of itself; and before       *)
(* main() is done nothing else exists.                                     *)
CallInv ==
  /\ \A t, x \in Task :
       call[t] = <<"cre_tsk", x>> => t \in Creators /\ k.state[x] = "NOEXS"
  /\ \A t, x \in Task, p \in Line \union {TPRI_INI} :
       call[t] = <<"chg_pri", x, p>> => x = t
  /\ call[INIT_TASK] = Boot =>
       /\ runtsk = NoTask
       /\ \A t \in Task : /\ call[t] \in {User, Boot}
                          /\ k.state[t] \in {"NOEXS", "DMT"}
                          /\ t # INIT_TASK => k.state[t] = "NOEXS"

Typed(a) ==
  /\ Calls \subseteq a.calls
  /\ runtsk \in Task \union {NoTask}
  /\ call \in [Task -> a.calls]
  /\ event \in Task \union Obj \union {NoTask, QueueHead}

Flow(a) == Typed(a) /\ RunInv /\ CallInv

IInv(a) == Sound(k, a) /\ Flow(a)

(* From n to m the lines of the ready queue do what the policy allows.     *)
Policy(n, m) == PolicyStep(n.rdyq.priq, m.rdyq.priq)

-----------------------------------------------------------------------------
(* Lemmas about task.c, wait.c and timer.c on a sound kernel state. *)

(* A kernel state has the fields the lemmas about task.c ask for.          *)
LEMMA HasSchedFields ==
  ASSUME NEW n, n \in KernelType PROVE SchedFields(n)
BY DEF KernelType, SchedFields, States

(* Removal from a list e is not in changes nothing.                        *)
LEMMA RemoveAbsent ==
  ASSUME NEW q, NEW e, e \notin ToSet(q) PROVE kqueue_remove(q, e) = q
BY DEF kqueue_remove

(* The scheduler's invariant reads of a kernel state the ready queue,      *)
(* schedtsk, which tasks are READY and the priority of those.              *)
LEMMA SchedFrame ==
  ASSUME NEW n, NEW m, SchedInv(n), m.rdyq = n.rdyq, m.schedtsk = n.schedtsk,
         \A u \in Task : /\ m.state[u] = "RDY" <=> n.state[u] = "RDY"
                         /\ n.state[u] = "RDY" => m.tskpri[u] = n.tskpri[u]
  PROVE  SchedInv(m)
BY DEF SchedInv, ReadyLinks

(* The queues of the objects when a task has left them.                    *)
Without(w, t) == [o \in Obj |-> kqueue_remove(w[o], t)]

(* The qnode of a task that is not READY is in no line of the ready queue. *)
LEMMA QnodeRemove ==
  ASSUME NEW n, n \in KernelType, SchedInv(n), NEW t \in Task, n.state[t] # "RDY"
  PROVE  qnode_remove(n, t) = [n EXCEPT !.waitq = Without(n.waitq, t)]
<1>1. /\ n.rdyq \in RdyqType
      /\ \A p \in Line : t \notin ToSet(n.rdyq.priq[p])
  BY DEF KernelType, SchedInv, ReadyLinks
<1>2. rdyq_unlink(n.rdyq, t) = n.rdyq.priq
  <2>1. \A p \in Line : kqueue_remove(n.rdyq.priq[p], t) = n.rdyq.priq[p]
    BY <1>1, RemoveAbsent
  <2> QED BY <1>1, <2>1 DEF rdyq_unlink, RdyqType
<1>3. [n.rdyq EXCEPT !.priq = n.rdyq.priq] = n.rdyq
  BY <1>1 DEF RdyqType
<1> QED BY <1>2, <1>3 DEF qnode_remove, KernelType, Without

(* A member other than e stays in a list e is removed from.                *)
LEMMA TimerRemove ==
  ASSUME NEW n, n \in KernelType, IsInjective(n.timerq), NEW t \in Task
  PROVE  /\ kqueue_remove(n.timerq, t) \in Seq(Task)
         /\ IsInjective(kqueue_remove(n.timerq, t))
         /\ ToSet(kqueue_remove(n.timerq, t)) = ToSet(n.timerq) \ {t}
BY RemoveMembers DEF KernelType

(* wait_cancel takes a waiting task out of timer_queue and of the queue it *)
(* waits in, and changes nothing else.                                     *)
LEMMA WaitCancel ==
  ASSUME NEW n, n \in KernelType, SchedInv(n),
         IsInjective(n.timerq), NEW t \in Task, n.state[t] # "RDY"
  PROVE  wait_cancel(n, t) = [n EXCEPT !.timerq = kqueue_remove(n.timerq, t),
                                       !.waitq = Without(n.waitq, t)]
<1> DEFINE m == [n EXCEPT !.timerq = kqueue_remove(n.timerq, t)]
<1>1. m \in KernelType
  BY TimerRemove DEF KernelType
<1>2. /\ m.rdyq = n.rdyq /\ m.schedtsk = n.schedtsk /\ m.state = n.state
      /\ m.tskpri = n.tskpri /\ m.waitq = n.waitq
  BY DEF KernelType
<1> HIDE DEF m
<1>3. SchedInv(m)
  BY <1>2, SchedFrame
<1>4. qnode_remove(m, t) = [m EXCEPT !.waitq = Without(n.waitq, t)]
  BY <1>1, <1>2, <1>3, QnodeRemove
<1> QED BY <1>4 DEF wait_cancel, timer_delete, m

(* A task that leaves a queue leaves the others in order.                  *)
LEMMA RemoveOrder ==
  ASSUME NEW S, NEW q \in Seq(S), NEW e, NEW pri, InOrder(q, pri)
  PROVE  InOrder(kqueue_remove(q, e), pri)
<1>1. CASE e \notin ToSet(q)
  BY <1>1, RemoveAbsent
<1>2. CASE e \in ToSet(q)
  <2> DEFINE r == kqueue_remove(q, e)
  <2>1. PICK n \in 1..Len(q) :
          /\ r \in Seq(S) /\ Len(r) = Len(q) - 1
          /\ \A i \in 1..(Len(q) - 1) : r[i] = IF i < n THEN q[i] ELSE q[i + 1]
    BY <1>2, RemovePlace
  <2> HIDE DEF r
  <2> SUFFICES ASSUME NEW i \in 1..(Len(q) - 1), NEW j \in 1..(Len(q) - 1), i < j
               PROVE  pri[r[i]] <= pri[r[j]]
    BY <2>1 DEF InOrder, r
  <2> DEFINE f(m) == IF m < n THEN m ELSE m + 1
  <2>2. r[i] = q[f(i)] /\ r[j] = q[f(j)]
    BY <2>1
  <2>3. f(i) \in DOMAIN q /\ f(j) \in DOMAIN q /\ f(i) < f(j)
    BY <2>1
  <2> HIDE DEF f
  <2> QED BY <2>2, <2>3 DEF InOrder
<1> QED BY <1>1, <1>2

(* m differs from n, in what WaitsInv reads, at t alone; t may have left   *)
(* the queue it waited in.                                                 *)
MovesOnly(n, m, t) ==
  /\ n \in KernelType /\ m \in KernelType
  /\ IsInjective(m.timerq) /\ ToSet(m.timerq) \subseteq ToSet(n.timerq) \union {t}
  /\ t \in ToSet(m.timerq) => m.state[t] \in Waiting
  /\ m.waitq = n.waitq \/ m.waitq = Without(n.waitq, t)
  /\ \A o \in Obj : t \in ToSet(m.waitq[o]) =>
       m.state[t] \in Waiting /\ m.tskpri[t] = n.tskpri[t]
  /\ \A u \in Task \ {t} :
       /\ m.state[u] = n.state[u] /\ m.tskwait[u] = n.tskwait[u]
       /\ m.wupcnt[u] = n.wupcnt[u] /\ m.suscnt[u] = n.suscnt[u]
       /\ m.tskpri[u] = n.tskpri[u]

(* Tasks of unchanged priorities are in order if they were.                *)
LEMMA SameOrder ==
  ASSUME NEW q, NEW f, NEW g, InOrder(q, f), \A u \in ToSet(q) : f[u] = g[u]
  PROVE  InOrder(q, g)
BY DEF InOrder, ToSet

(* A task that does not wait is in no object's queue.                      *)
LEMMA NotQueued ==
  ASSUME NEW a, NEW n, WaitsInv(n, a), NEW t, n.state[t] \notin Waiting
  PROVE  /\ \A o \in Obj : t \notin ToSet(n.waitq[o])
         /\ t \notin ToSet(n.timerq)
BY DEF WaitsInv, QueueOK

(* A task that has been taken out of the queues is in none.                *)
LEMMA WithoutMembers ==
  ASSUME NEW a, NEW n, n \in KernelType, WaitsInv(n, a), NEW t
  PROVE  /\ Without(n.waitq, t) \in [Obj -> Seq(Task)]
         /\ \A o \in Obj : /\ IsInjective(Without(n.waitq, t)[o])
                           /\ ToSet(Without(n.waitq, t)[o]) = ToSet(n.waitq[o]) \ {t}
<1>1. \A x \in Obj : n.waitq[x] \in Seq(Task) /\ IsInjective(n.waitq[x])
  BY DEF WaitsInv, QueueOK, KernelType
<1>2. \A x \in Obj : /\ kqueue_remove(n.waitq[x], t) \in Seq(Task)
                     /\ IsInjective(kqueue_remove(n.waitq[x], t))
                     /\ ToSet(kqueue_remove(n.waitq[x], t)) = ToSet(n.waitq[x]) \ {t}
  BY <1>1, RemoveMembers
<1> QED BY <1>2 DEF Without

(* WaitsInv is about one task at a time: it holds again after a step that  *)
(* changes what it reads of t alone, if it holds of t.                     *)
LEMMA WaitsFrame ==
  ASSUME NEW a, NEW n, NEW m, NEW t \in Task, WaitsInv(n, a), MovesOnly(n, m, t),
         WaitOK(m, t, a)
  PROVE  WaitsInv(m, a)
<1>1. ToSet(m.timerq) \subseteq Task
  BY DEF KernelType, ToSet, MovesOnly
<1>2. \A u \in ToSet(m.timerq) : m.state[u] \in Waiting
  BY <1>1 DEF WaitsInv, MovesOnly
<1>3. \A u \in Task : WaitOK(m, u, a)
  BY DEF WaitsInv, MovesOnly, WaitOK
<1>4. ASSUME NEW o \in Obj PROVE QueueOK(m, o, a)
  <2> DEFINE q == n.waitq[o]
             r == m.waitq[o]
  <2>1. /\ q \in Seq(Task) /\ IsInjective(q)
        /\ \A u \in ToSet(q) : n.state[u] \in Waiting /\ u \in a.member[o]
        /\ o \in a.sorted => InOrder(q, n.tskpri)
    BY DEF WaitsInv, QueueOK, MovesOnly, KernelType
  <2>2. r = q \/ r = kqueue_remove(q, t)
    BY DEF MovesOnly, Without
  <2>3. /\ IsInjective(r) /\ ToSet(r) \subseteq ToSet(q)
        /\ o \in a.sorted => InOrder(r, n.tskpri)
    BY <2>1, <2>2, RemoveMembers, RemoveOrder
  <2>4. \A u \in ToSet(r) : /\ m.state[u] \in Waiting /\ u \in a.member[o]
                            /\ n.tskpri[u] = m.tskpri[u]
    <3> SUFFICES ASSUME NEW u \in ToSet(r)
                 PROVE  /\ m.state[u] \in Waiting /\ u \in a.member[o]
                        /\ n.tskpri[u] = m.tskpri[u]
      OBVIOUS
    <3>1. u \in ToSet(q) /\ u \in Task
      <4>1. u \in ToSet(q)
        BY <2>3
      <4>2. ToSet(q) \subseteq Task
        BY <2>1 DEF ToSet
      <4> QED BY <4>1, <4>2
    <3>2. n.state[u] \in Waiting /\ u \in a.member[o]
      BY <3>1, <2>1
    <3>3. CASE u = t
      BY <3>2, <3>3 DEF MovesOnly
    <3>4. CASE u # t
      BY <3>1, <3>2, <3>4 DEF MovesOnly
    <3> QED BY <3>3, <3>4
  <2>5. o \in a.sorted => InOrder(r, m.tskpri)
    BY <2>3, <2>4, SameOrder
  <2> QED BY <2>3, <2>4, <2>5 DEF QueueOK
<1> QED BY <1>2, <1>3, <1>4 DEF WaitsInv, MovesOnly

(* task_make_ready, on a task that is not READY.                           *)
LEMMA ReadyFields ==
  ASSUME NEW n, n \in KernelType, SchedInv(n), NEW t \in Task, n.state[t] # "RDY"
  PROVE  LET m == task_make_ready(n, t)
         IN  /\ m \in KernelType /\ SchedInv(m)
             /\ m.state = [n.state EXCEPT ![t] = "RDY"] /\ m.tskpri = n.tskpri
             /\ m.tskwait = n.tskwait /\ m.wupcnt = n.wupcnt /\ m.suscnt = n.suscnt
             /\ m.waitq = n.waitq /\ m.timerq = n.timerq /\ m.ercd = n.ercd
<1> DEFINE m == task_make_ready(n, t)
<1>1. SchedInv(m)
  BY HasSchedFields, MakeReadyInv
<1>2. m.rdyq \in RdyqType /\ m.schedtsk \in Task \union {NoTask}
  BY <1>1, RdyqTop DEF SchedInv, RdyqInv
<1>3. /\ m.state = [n.state EXCEPT ![t] = "RDY"] /\ m.tskpri = n.tskpri
      /\ m.tskwait = n.tskwait /\ m.wupcnt = n.wupcnt /\ m.suscnt = n.suscnt
      /\ m.waitq = n.waitq /\ m.timerq = n.timerq /\ m.ercd = n.ercd
  BY DEF task_make_ready, KernelType
<1>4. m \in KernelType
  BY <1>2 DEF task_make_ready, KernelType, States
<1> QED BY <1>1, <1>3, <1>4

(* task_make_unready, on a READY task that its caller moves to state s.    *)
LEMMA UnreadyFields ==
  ASSUME NEW n, n \in KernelType, SchedInv(n), NEW t \in Task, n.state[t] = "RDY",
         NEW s \in States, s # "RDY"
  PROVE  LET m == [task_make_unready(n, t) EXCEPT !.state[t] = s]
         IN  /\ m \in KernelType /\ SchedInv(m)
             /\ m.state = [n.state EXCEPT ![t] = s] /\ m.tskpri = n.tskpri
             /\ m.tskwait = n.tskwait /\ m.wupcnt = n.wupcnt /\ m.suscnt = n.suscnt
             /\ m.waitq = n.waitq /\ m.timerq = n.timerq
             /\ m.actcnt = n.actcnt /\ m.itskpri = n.itskpri /\ m.ercd = n.ercd
<1> DEFINE m == [task_make_unready(n, t) EXCEPT !.state[t] = s]
<1>1. SchedInv(m)
  BY HasSchedFields, MakeUnreadyInv
<1>2. m.rdyq \in RdyqType /\ m.schedtsk \in Task \union {NoTask}
  BY <1>1, RdyqTop DEF SchedInv, RdyqInv
<1>3. /\ m.state = [n.state EXCEPT ![t] = s] /\ m.tskpri = n.tskpri
      /\ m.tskwait = n.tskwait /\ m.wupcnt = n.wupcnt /\ m.suscnt = n.suscnt
      /\ m.waitq = n.waitq /\ m.timerq = n.timerq
      /\ m.actcnt = n.actcnt /\ m.itskpri = n.itskpri /\ m.ercd = n.ercd
  BY DEF task_make_unready, KernelType
<1>4. m \in KernelType
  BY <1>2 DEF task_make_unready, KernelType, States
<1> QED BY <1>1, <1>3, <1>4

(* task_make_unready is a step of the policy, whatever state follows.      *)
LEMMA UnreadyPolicy ==
  ASSUME NEW n, n \in KernelType, SchedInv(n), NEW t \in Task, n.state[t] = "RDY",
         NEW s
  PROVE  /\ Policy(n, task_make_unready(n, t))
         /\ Policy(n, [task_make_unready(n, t) EXCEPT !.state[t] = s])
<1> DEFINE u == task_make_unready(n, t)
<1>1. Leaves(n.rdyq.priq, u.rdyq.priq, t)
  BY HasSchedFields, UnreadyLines
<1>2. [u EXCEPT !.state[t] = s].rdyq = u.rdyq
  BY DEF task_make_unready, KernelType
<1> HIDE DEF u
<1>3. Policy(n, u)
  BY <1>1 DEF Policy, PolicyStep
<1> QED BY <1>2, <1>3 DEF Policy, u

(* task_make_ready is one, on a task that is not READY.                    *)
LEMMA ReadyPolicy ==
  ASSUME NEW n, n \in KernelType, SchedInv(n), NEW t \in Task, n.state[t] # "RDY"
  PROVE  Policy(n, task_make_ready(n, t))
<1>1. SchedFields(n) /\ n.tskpri[t] \in Line
  BY HasSchedFields DEF KernelType
<1>2. Arrives(n.rdyq.priq, task_make_ready(n, t).rdyq.priq, t, n.tskpri[t])
  BY <1>1, ReadyLines
<1> QED BY <1>1, <1>2 DEF Policy, PolicyStep

(* m is n with t taken out of timer_queue and of the queue it waits in;    *)
(* why t waited may have been forgotten.                                   *)
Cancelled(n, m, t) ==
  /\ m.timerq = kqueue_remove(n.timerq, t) /\ m.waitq = Without(n.waitq, t)
  /\ m.state = n.state /\ m.tskpri = n.tskpri /\ m.rdyq = n.rdyq
  /\ m.schedtsk = n.schedtsk /\ m.wupcnt = n.wupcnt /\ m.suscnt = n.suscnt
  /\ m.ercd = n.ercd /\ m \in KernelType

(* m is n with t taken out of the queues and out of its wait.              *)
Released(n, m, t) ==
  /\ m.timerq = kqueue_remove(n.timerq, t) /\ m.waitq = Without(n.waitq, t)
  /\ m.ercd = n.ercd /\ m.tskwait = [n.tskwait EXCEPT ![t] = "none"]
  /\ \E s \in {"RDY", "SUS"} : m.state = [n.state EXCEPT ![t] = s]

(* The end of a wait, by a wakeup, a timeout or anything else: the task is *)
(* READY, or SUSPENDED if it was suspended, and nothing else has changed.  *)
LEMMA WaitRelease ==
  ASSUME NEW a, NEW n, Sound(n, a), NEW t \in Task, n.state[t] \in Waiting
  PROVE  /\ Sound(wait_release(n, t), a) /\ Policy(n, wait_release(n, t))
         /\ Released(n, wait_release(n, t), t)
<1> DEFINE m == [n EXCEPT !.timerq = kqueue_remove(n.timerq, t),
                          !.waitq = Without(n.waitq, t)]
           l == [m EXCEPT !.tskwait[t] = "none"]
           r == wait_release(n, t)
<1>1. /\ n \in KernelType /\ SchedInv(n) /\ WaitsInv(n, a)
      /\ n.state[t] \in {"WAI", "WAS"}
      /\ n.tskwait \in [Task -> {"none", "SLP", "DLY"}] /\ n.state \in [Task -> States]
      /\ n.suscnt[t] > 0 <=> n.state[t] = "WAS"
  BY DEF Sound, Waiting, WaitsInv, WaitOK, KernelType
<1>2. wait_cancel(n, t) = m
  BY <1>1, WaitCancel DEF WaitsInv
<1>3. /\ kqueue_remove(n.timerq, t) \in Seq(Task)
      /\ IsInjective(kqueue_remove(n.timerq, t))
      /\ ToSet(kqueue_remove(n.timerq, t)) = ToSet(n.timerq) \ {t}
      /\ Without(n.waitq, t) \in [Obj -> Seq(Task)]
      /\ \A o \in Obj : t \notin ToSet(Without(n.waitq, t)[o])
  <2>1. IsInjective(n.timerq)
    BY <1>1 DEF WaitsInv
  <2>2. /\ Without(n.waitq, t) \in [Obj -> Seq(Task)]
        /\ \A o \in Obj : t \notin ToSet(Without(n.waitq, t)[o])
    <3>1. /\ Without(n.waitq, t) \in [Obj -> Seq(Task)]
          /\ \A o \in Obj : ToSet(Without(n.waitq, t)[o]) = ToSet(n.waitq[o]) \ {t}
      BY <1>1, WithoutMembers
    <3> QED BY <3>1
  <2> QED BY <1>1, <2>1, <2>2, TimerRemove
<1>4. /\ Cancelled(n, l, t)
      /\ l.tskwait = [n.tskwait EXCEPT ![t] = "none"]
      /\ m.state = n.state
  BY <1>1, <1>3 DEF KernelType, Cancelled
<1>5. r = IF n.state[t] = "WAI" THEN task_make_ready(l, t)
          ELSE [l EXCEPT !.state[t] = "SUS"]
  BY <1>2, <1>4 DEF wait_release, task_leave_wait
<1> HIDE DEF m, l, r
<1>6. SchedInv(l)
  BY <1>1, <1>4, SchedFrame DEF Cancelled
<1>7. PICK s \in {"RDY", "SUS"} :
        /\ s = "SUS" <=> n.state[t] = "WAS"
        /\ r \in KernelType /\ SchedInv(r)
        /\ r.state = [n.state EXCEPT ![t] = s] /\ r.tskwait = l.tskwait
        /\ r.wupcnt = n.wupcnt /\ r.suscnt = n.suscnt /\ r.tskpri = n.tskpri
        /\ r.waitq = l.waitq /\ r.timerq = l.timerq /\ r.ercd = n.ercd
        /\ Policy(l, r)
  <2>1. CASE n.state[t] = "WAI"
    <3>1. Policy(l, r)
      BY <2>1, <1>4, <1>5, <1>6, ReadyPolicy DEF Cancelled
    <3> QED BY <2>1, <3>1, <1>4, <1>5, <1>6, ReadyFields DEF Cancelled
  <2>2. CASE n.state[t] = "WAS"
    <3>1. /\ r.state = [n.state EXCEPT ![t] = "SUS"] /\ r.tskwait = l.tskwait
          /\ r.wupcnt = n.wupcnt /\ r.suscnt = n.suscnt /\ r.waitq = l.waitq
          /\ r.timerq = l.timerq /\ r.rdyq = l.rdyq /\ r.schedtsk = l.schedtsk
          /\ r.tskpri = l.tskpri /\ r.ercd = l.ercd
          /\ r \in KernelType
      BY <2>2, <1>4, <1>5 DEF KernelType, States, Cancelled
    <3>2. \A u \in Task : /\ r.state[u] = "RDY" <=> l.state[u] = "RDY"
                          /\ l.state[u] = "RDY" => r.tskpri[u] = l.tskpri[u]
      BY <3>1, <2>2, <1>1, <1>4 DEF Cancelled
    <3>3. SchedInv(r)
      BY <3>1, <3>2, <1>6, SchedFrame
    <3>4. Policy(l, r)
      BY <3>1 DEF Policy, PolicyStep
    <3> QED BY <3>1, <3>3, <3>4, <2>2, <1>4 DEF Cancelled
  <2> QED BY <1>1, <2>1, <2>2
<1>8. /\ r.tskwait[t] = "none" /\ r.state[t] = s /\ t \notin ToSet(r.timerq)
      /\ \A u \in Task \ {t} : r.state[u] = n.state[u] /\ r.tskwait[u] = n.tskwait[u]
  BY <1>1, <1>3, <1>4, <1>7 DEF Cancelled
<1>9. WaitsInv(r, a)
  <2>1. MovesOnly(n, r, t)
    BY <1>1, <1>3, <1>4, <1>7, <1>8 DEF MovesOnly, Cancelled
  <2>2. WaitOK(r, t, a)
    BY <1>1, <1>7, <1>8 DEF WaitOK, Waiting
  <2> QED BY <2>1, <2>2, <1>1, WaitsFrame
<1>10. Policy(n, r)
  BY <1>4, <1>7 DEF Policy, Cancelled
<1> QED BY <1>4, <1>7, <1>9, <1>10 DEF r, Sound, Cancelled, Released

(* task_make_dormant.                                                      *)
LEMMA DormantFields ==
  ASSUME NEW n, n \in KernelType, NEW t \in Task
  PROVE  LET m == task_make_dormant(n, t)
         IN  /\ m \in KernelType
             /\ m.state = [n.state EXCEPT ![t] = "DMT"]
             /\ m.tskpri = [n.tskpri EXCEPT ![t] = n.itskpri[t]]
             /\ m.tskwait = [n.tskwait EXCEPT ![t] = "none"]
             /\ m.wupcnt = [n.wupcnt EXCEPT ![t] = 0]
             /\ m.suscnt = [n.suscnt EXCEPT ![t] = 0]
             /\ m.rdyq = n.rdyq /\ m.schedtsk = n.schedtsk
             /\ m.waitq = n.waitq /\ m.timerq = n.timerq
             /\ m.actcnt = n.actcnt /\ m.itskpri = n.itskpri /\ m.ercd = n.ercd
<1> DEFINE m == task_make_dormant(n, t)
           d == [n EXCEPT !.state[t] = "DMT", !.tskpri[t] = n.itskpri[t]]
<1>1. /\ d \in KernelType
      /\ d.state = [n.state EXCEPT ![t] = "DMT"]
      /\ d.tskpri = [n.tskpri EXCEPT ![t] = n.itskpri[t]]
      /\ d.tskwait = n.tskwait /\ d.wupcnt = n.wupcnt /\ d.suscnt = n.suscnt
      /\ d.rdyq = n.rdyq /\ d.schedtsk = n.schedtsk
      /\ d.waitq = n.waitq /\ d.timerq = n.timerq
      /\ d.actcnt = n.actcnt /\ d.itskpri = n.itskpri /\ d.ercd = n.ercd
  BY DEF KernelType, States
<1>2. m = [d EXCEPT !.wupcnt[t] = 0, !.suscnt[t] = 0, !.tskwait[t] = "none"]
  BY DEF task_make_dormant
<1> HIDE DEF d, m
<1>3. /\ m.state = d.state /\ m.tskpri = d.tskpri
      /\ m.tskwait = [d.tskwait EXCEPT ![t] = "none"]
      /\ m.wupcnt = [d.wupcnt EXCEPT ![t] = 0]
      /\ m.suscnt = [d.suscnt EXCEPT ![t] = 0]
      /\ m.rdyq = d.rdyq /\ m.schedtsk = d.schedtsk
      /\ m.waitq = d.waitq /\ m.timerq = d.timerq
      /\ m.actcnt = d.actcnt /\ m.itskpri = d.itskpri /\ m.ercd = d.ercd
  BY <1>1, <1>2 DEF KernelType
<1>4. m \in KernelType
  <2>1. 0 \in 0..TMAX_ACTCNT
    BY KernelAssumption
  <2> QED BY <1>1, <1>2, <2>1 DEF KernelType
<1> QED BY <1>1, <1>3, <1>4 DEF m

(* The qnode of a task that neither waits nor is READY is linked nowhere.  *)
LEMMA IdleQnode ==
  ASSUME NEW a, NEW n, Sound(n, a), NEW t \in Task,
         n.state[t] \notin Waiting, n.state[t] # "RDY"
  PROVE  qnode_remove(n, t) = n
<1>1. \A o \in Obj : kqueue_remove(n.waitq[o], t) = n.waitq[o]
  BY NotQueued, RemoveAbsent DEF Sound
<1>2. Without(n.waitq, t) = n.waitq
  BY <1>1 DEF Without, Sound, KernelType
<1>3. qnode_remove(n, t) = [n EXCEPT !.waitq = n.waitq]
  BY <1>2, QnodeRemove DEF Sound
<1> QED BY <1>3 DEF Sound, KernelType

(* cre_tsk's critical section, on an ID that is free.                      *)
LEMMA CreateSound ==
  ASSUME NEW a, Sound(k, a), NEW x \in Task, k.state[x] = "NOEXS"
  PROVE  /\ Sound(create(x), a)
         /\ create(x).state = [k.state EXCEPT ![x] = "DMT"]
         /\ create(x).schedtsk = k.schedtsk /\ create(x).rdyq = k.rdyq
<1> DEFINE l == [k EXCEPT !.itskpri[x] = Itskpri[x], !.actcnt[x] = 0]
           m == create(x)
<1>1. /\ k \in KernelType /\ SchedInv(k) /\ WaitsInv(k, a)
      /\ k.state \in [Task -> States] /\ Itskpri[x] \in Line
  BY KernelAssumption DEF Sound, KernelType
<1>2. m = task_make_dormant(l, x)
  <2>1. qnode_remove(k, x) = k
    BY IdleQnode DEF Waiting
  <2> QED BY <2>1 DEF create
<1>3. /\ l \in KernelType /\ l.itskpri[x] = Itskpri[x]
      /\ l.state = k.state /\ l.tskpri = k.tskpri /\ l.tskwait = k.tskwait
      /\ l.wupcnt = k.wupcnt /\ l.suscnt = k.suscnt /\ l.rdyq = k.rdyq
      /\ l.schedtsk = k.schedtsk /\ l.waitq = k.waitq /\ l.timerq = k.timerq
  <2>1. Itskpri[x] \in Line /\ 0 \in 0..TMAX_ACTCNT
    BY KernelAssumption
  <2> QED BY <1>1, <2>1 DEF KernelType
<1> HIDE DEF l, m
<1>4. /\ m.state = [k.state EXCEPT ![x] = "DMT"]
      /\ m.tskpri = [k.tskpri EXCEPT ![x] = Itskpri[x]]
      /\ m.rdyq = k.rdyq /\ m.schedtsk = k.schedtsk
      /\ m.tskwait = [k.tskwait EXCEPT ![x] = "none"]
      /\ m.wupcnt = [k.wupcnt EXCEPT ![x] = 0]
      /\ m.suscnt = [k.suscnt EXCEPT ![x] = 0]
      /\ m.waitq = k.waitq /\ m.timerq = k.timerq
      /\ m \in KernelType
  <2> DEFINE q == task_make_dormant(l, x)
  <2>1. /\ q \in KernelType
        /\ q.state = [l.state EXCEPT ![x] = "DMT"]
        /\ q.tskpri = [l.tskpri EXCEPT ![x] = l.itskpri[x]]
        /\ q.tskwait = [l.tskwait EXCEPT ![x] = "none"]
        /\ q.wupcnt = [l.wupcnt EXCEPT ![x] = 0]
        /\ q.suscnt = [l.suscnt EXCEPT ![x] = 0]
        /\ q.rdyq = l.rdyq /\ q.schedtsk = l.schedtsk
        /\ q.waitq = l.waitq /\ q.timerq = l.timerq
    BY <1>3, DormantFields
  <2> QED BY <2>1, <1>2, <1>3
<1>5. /\ m.state[x] = "DMT" /\ m.tskwait[x] = "none" /\ m.suscnt[x] = 0
      /\ \A u \in Task \ {x} :
           /\ m.state[u] = k.state[u] /\ m.tskpri[u] = k.tskpri[u]
           /\ m.tskwait[u] = k.tskwait[u]
           /\ m.wupcnt[u] = k.wupcnt[u] /\ m.suscnt[u] = k.suscnt[u]
  BY <1>1, <1>4 DEF KernelType
<1>6. SchedInv(m)
  BY <1>1, <1>4, <1>5, SchedFrame
<1>7. x \notin ToSet(m.timerq) /\ IsInjective(m.timerq) /\ m.timerq = k.timerq
      /\ ToSet(m.timerq) \subseteq ToSet(k.timerq) \union {x}
      /\ \A o \in Obj : x \notin ToSet(m.waitq[o])
  BY <1>1, <1>4, NotQueued DEF WaitsInv, Waiting
<1>8. WaitOK(m, x, a)
  BY <1>5 DEF Waiting, WaitOK
<1>9. WaitsInv(m, a)
  <2>1. MovesOnly(k, m, x)
    BY <1>1, <1>4, <1>5, <1>7 DEF MovesOnly
  <2> QED BY <2>1, <1>1, <1>8, WaitsFrame
<1> QED BY <1>4, <1>6, <1>9 DEF Sound, m

(* A remainder is less than what was divided by.                           *)
LEMMA Remainder ==
  ASSUME NEW B \in Nat \ {0}, NEW a \in Int PROVE a % B \in 0..(B - 1)
OBVIOUS

(* n and m agree in all that the lemmas read, but for why x waits.         *)
Reasons(n, m, x, c) ==
  /\ m \in KernelType /\ m.tskwait = [n.tskwait EXCEPT ![x] = c]
  /\ m.state = n.state /\ m.tskpri = n.tskpri /\ m.rdyq = n.rdyq
  /\ m.schedtsk = n.schedtsk /\ m.wupcnt = n.wupcnt
  /\ m.suscnt = n.suscnt /\ m.waitq = n.waitq /\ m.timerq = n.timerq

(* m is n with the READY task t made to wait; l is what its call set first.*)
MadeWait(a, n, l, m, t) ==
  /\ Sound(m, a) /\ Policy(n, m) /\ m.state = [n.state EXCEPT ![t] = "WAI"]
  /\ m.tskpri = n.tskpri /\ m.waitq = n.waitq
  /\ m.ercd = l.ercd /\ m.tskwait = l.tskwait

(* The READY task t waits, for the cause c that its service call set.      *)
LEMMA MakeWaitSound ==
  ASSUME NEW a, NEW n, NEW l, NEW m, Sound(n, a), NEW t \in Task, n.state[t] = "RDY",
         NEW c \in {"none", "SLP", "DLY"}, c = "SLP" => n.wupcnt[t] = 0,
         a.caused => c # "none",
         Reasons(n, l, t, c), NEW tmo \in Int, m = make_wait(l, t, tmo)
  PROVE  MadeWait(a, n, l, m, t)
<1> DEFINE w == [task_make_unready(l, t) EXCEPT !.state[t] = "WAI"]
           d == tmo % (RELTIM_MAX + 1)
<1>1. /\ n \in KernelType /\ SchedInv(n) /\ WaitsInv(n, a)
      /\ n.state \in [Task -> States] /\ n.tskwait \in [Task -> {"none", "SLP", "DLY"}]
      /\ n.timerq \in Seq(Task) /\ IsInjective(n.timerq)
      /\ ~(n.suscnt[t] > 0) /\ t \notin ToSet(n.timerq)
      /\ \A o \in Obj : t \notin ToSet(n.waitq[o])
  BY NotQueued DEF Sound, KernelType, WaitsInv, Waiting, WaitOK
<1>2. /\ l \in KernelType
      /\ l.state = n.state /\ l.tskpri = n.tskpri /\ l.rdyq = n.rdyq
      /\ l.schedtsk = n.schedtsk /\ l.wupcnt = n.wupcnt /\ l.suscnt = n.suscnt
      /\ l.waitq = n.waitq /\ l.timerq = n.timerq
      /\ l.tskwait = [n.tskwait EXCEPT ![t] = c]
  BY DEF Reasons
<1>3. m = timer_insert(w, t, tmo)
  BY <1>2 DEF make_wait
<1>4. SchedInv(l)
  BY <1>1, <1>2, SchedFrame
<1>5. /\ w \in KernelType /\ SchedInv(w)
      /\ w.state = [l.state EXCEPT ![t] = "WAI"] /\ w.tskpri = l.tskpri
      /\ w.tskwait = l.tskwait /\ w.wupcnt = l.wupcnt /\ w.suscnt = l.suscnt
      /\ w.waitq = l.waitq /\ w.timerq = l.timerq /\ w.ercd = l.ercd
      /\ Policy(l, w)
  <2>1. l.state[t] = "RDY" /\ "WAI" \in States /\ "WAI" # "RDY"
    BY <1>2 DEF States
  <2>2. Policy(l, w)
    BY <1>2, <1>4, <2>1, UnreadyPolicy
  <2> HIDE DEF w
  <2> QED BY <1>2, <1>4, <2>1, <2>2, UnreadyFields DEF w
<1> HIDE DEF w
<1>6. d \in 0..RELTIM_MAX
  <2>1. RELTIM_MAX + 1 \in Nat \ {0} /\ (RELTIM_MAX + 1) - 1 = RELTIM_MAX
    BY KernelAssumption
  <2>2. d \in 0..((RELTIM_MAX + 1) - 1)
    BY <2>1, Remainder
  <2> QED BY <2>1, <2>2
<1> HIDE DEF d
<1>7. /\ m \in KernelType
      /\ m.state = w.state /\ m.tskpri = w.tskpri /\ m.rdyq = w.rdyq
      /\ m.schedtsk = w.schedtsk /\ m.tskwait = w.tskwait
      /\ m.wupcnt = w.wupcnt /\ m.suscnt = w.suscnt /\ m.waitq = w.waitq
      /\ m.ercd = w.ercd
      /\ IsInjective(m.timerq) /\ ToSet(m.timerq) \subseteq ToSet(n.timerq) \union {t}
  <2>1. CASE tmo = TMO_FEVR
    BY <2>1, <1>1, <1>2, <1>3, <1>5 DEF timer_insert
  <2>2. CASE tmo # TMO_FEVR
    <3>1. m = [w EXCEPT !.count[t] = d, !.timerq = kqueue_insert(@, t)]
      BY <2>2, <1>3 DEF timer_insert, d
    <3>2. /\ kqueue_insert(n.timerq, t) \in Seq(Task)
          /\ IsInjective(kqueue_insert(n.timerq, t))
          /\ ToSet(kqueue_insert(n.timerq, t)) = ToSet(n.timerq) \union {t}
      BY <1>1, InsertMembers
    <3> DEFINE v == [w EXCEPT !.count[t] = d]
    <3>3. /\ v \in KernelType
          /\ v.state = w.state /\ v.tskpri = w.tskpri /\ v.rdyq = w.rdyq
          /\ v.schedtsk = w.schedtsk /\ v.tskwait = w.tskwait
          /\ v.wupcnt = w.wupcnt /\ v.suscnt = w.suscnt /\ v.waitq = w.waitq
          /\ v.timerq = n.timerq /\ v.ercd = w.ercd
      BY <1>2, <1>5, <1>6 DEF KernelType
    <3>4. m = [v EXCEPT !.timerq = kqueue_insert(n.timerq, t)]
      BY <3>1, <3>3
    <3> HIDE DEF v
    <3>5. /\ m.state = w.state /\ m.tskpri = w.tskpri /\ m.rdyq = w.rdyq
          /\ m.schedtsk = w.schedtsk /\ m.tskwait = w.tskwait
          /\ m.wupcnt = w.wupcnt /\ m.suscnt = w.suscnt /\ m.waitq = w.waitq
          /\ m.timerq = kqueue_insert(n.timerq, t) /\ m.ercd = w.ercd
          /\ m \in KernelType
      BY <3>2, <3>3, <3>4 DEF KernelType
    <3> QED BY <3>2, <3>5
  <2> QED BY <2>1, <2>2
<1>8. SchedInv(m)
  BY <1>5, <1>7, SchedFrame
<1>9. /\ m.state[t] = "WAI" /\ m.tskwait[t] = c
      /\ \A u \in Task \ {t} : m.state[u] = n.state[u] /\ m.tskwait[u] = n.tskwait[u]
  BY <1>1, <1>2, <1>5, <1>7
<1>10. WaitsInv(m, a)
  <2>1. /\ m.waitq = n.waitq /\ m.wupcnt = n.wupcnt /\ m.suscnt = n.suscnt
        /\ m.tskpri = n.tskpri
    BY <1>2, <1>5, <1>7
  <2>2. WaitOK(m, t, a)
    BY <1>1, <1>9, <2>1 DEF Waiting, WaitOK
  <2>3. m.state[t] \in Waiting
    BY <1>9 DEF Waiting
  <2>4. MovesOnly(n, m, t)
    BY <2>1, <2>3, <1>1, <1>7, <1>9 DEF MovesOnly
  <2> QED BY <2>2, <2>4, <1>1, WaitsFrame
<1>11. Policy(n, m)
  BY <1>2, <1>5, <1>7 DEF Policy
<1> QED BY <1>2, <1>5, <1>7, <1>8, <1>10, <1>11 DEF Sound, MadeWait

-----------------------------------------------------------------------------
(* Lemmas about whole steps. *)

(* Where a task can be in a service call: no two of these are one.         *)
LEMMA CallsApart ==
  /\ ~Leaving(User) /\ ~Leaving(Boot) /\ Leaving(Dispatch) /\ User # Boot
  /\ \A x : <<"cre_tsk", x>> \notin {User, Boot} /\ ~Leaving(<<"cre_tsk", x>>)
  /\ \A x, p : <<"chg_pri", x, p>> \notin {User, Boot} /\ ~Leaving(<<"chg_pri", x, p>>)
  /\ \A x, y, p : <<"cre_tsk", x>> # <<"chg_pri", y, p>>
  /\ \A x, y : <<"cre_tsk", x>> = <<"cre_tsk", y>> => x = y
  /\ \A x, y, p, q : <<"chg_pri", x, p>> = <<"chg_pri", y, q>> => x = y
BY DEF User, Dispatch, Boot, Leaving

(* schedtsk is null or a READY task.                                       *)
LEMMA ChosenReady ==
  ASSUME NEW n, SchedInv(n)
  PROVE  \/ n.schedtsk = NoTask
         \/ n.schedtsk \in Task /\ n.state[n.schedtsk] = "RDY"
BY RdyqTop DEF SchedInv, ReadyLinks

(* A critical section of the running task t, after which it dispatches.    *)
LEMMA DispatchFlow ==
  ASSUME NEW a, Flow(a), NEW t \in Task, runtsk = t, event = NoTask,
         \A x \in Task : k.state[x] = "NOEXS" => k'.state[x] = "NOEXS",
         call' \in [Task -> a.calls], Leaving(call'[t]),
         \A u \in Task : \/ call'[u] = call[u] \/ call'[u] = User
                         \/ Leaving(call'[u]),
         runtsk' = runtsk, event' \in (Obj \union {NoTask}) \ Task
  PROVE  Flow(a)'
<1>1. Typed(a)'
  BY DEF Flow, Typed
<1>2. RunInv'
  BY ReadyQueueAssumption DEF RunInv
<1>3. t # NoTask /\ INIT_TASK \in Task /\ call[INIT_TASK] # Boot
  BY ReadyQueueAssumption, KernelAssumption DEF Flow, CallInv
<1>4. CallInv'
  <2>1. \A u, x \in Task :
          call'[u] = <<"cre_tsk", x>> => u \in Creators /\ k'.state[x] = "NOEXS"
    BY CallsApart DEF Flow, CallInv
  <2>2. \A u, x \in Task, p \in Line \union {TPRI_INI} :
          call'[u] = <<"chg_pri", x, p>> => x = u
    <3> SUFFICES ASSUME NEW u \in Task, NEW x \in Task,
                        NEW p \in Line \union {TPRI_INI},
                        call'[u] = <<"chg_pri", x, p>>
                 PROVE  x = u
      OBVIOUS
    <3>1. call'[u] = call[u]
      BY CallsApart
    <3> QED BY <3>1 DEF Flow, CallInv
  <2>3. call'[INIT_TASK] # Boot
    BY <1>3, CallsApart
  <2> QED BY <2>1, <2>2, <2>3 DEF CallInv
<1> QED BY <1>1, <1>2, <1>4 DEF Flow

LEMMA DispatchStep ==
  ASSUME NEW a, IInv(a), NEW t \in Task, runtsk = t, event = NoTask, Sound(k', a),
         \A x \in Task : k.state[x] = "NOEXS" => k'.state[x] = "NOEXS",
         call' \in [Task -> a.calls], call'[t] = Dispatch,
         \A u \in Task : call'[u] = call[u] \/ call'[u] \in {User, Dispatch},
         runtsk' = runtsk, event' = event
  PROVE  IInv(a)'
<1>1. /\ Leaving(call'[t]) /\ Flow(a) /\ event' \in (Obj \union {NoTask}) \ Task
      /\ \A u \in Task : \/ call'[u] = call[u] \/ call'[u] = User
                         \/ Leaving(call'[u])
  BY CallsApart, ReadyQueueAssumption DEF IInv
<1>2. Flow(a)'
  BY <1>1, DispatchFlow
<1> QED BY <1>2 DEF IInv

(* What an interrupt does, up to the choice of the task it returns to.     *)
LEMMA IrqFlow ==
  ASSUME NEW a, Flow(a), Sound(k, a), NEW b, Sound(k', b), irq_return, event' = NoTask,
         call' \in [Task -> a.calls],
         \A u \in Task : call'[u] = call[u] \/ (call'[u] = User /\ k'.state[u] = "RDY"),
         \A u \in Task : /\ k.state[u] = "RDY" => k'.state[u] = "RDY"
                         /\ k.state[u] = "NOEXS" => k'.state[u] = "NOEXS",
         call[INIT_TASK] = Boot /\ call'[INIT_TASK] = Boot => k' = k
  PROVE  Flow(a)'
<1>1. /\ Typed(a) /\ SchedInv(k) /\ SchedInv(k') /\ k' \in KernelType
      /\ NoTask \notin Task /\ INIT_TASK \in Task /\ Preemptive \in BOOLEAN
  BY ReadyQueueAssumption, KernelAssumption DEF Flow, Sound
<1>2. k'.schedtsk \in Task \union {NoTask}
  BY <1>1 DEF KernelType
<1>3. Typed(a)'
  BY <1>1, <1>2 DEF Typed, irq_return
<1>4. RunInv'
  <2>1. CASE Preemptive
    BY <2>1, <1>1, <1>2, ChosenReady DEF RunInv, irq_return
  <2>2. CASE ~Preemptive
    <3>1. runtsk' = runtsk /\ runtsk \in Task \union {NoTask}
      BY <2>2, <1>1 DEF irq_return, Typed
    <3>2. ASSUME runtsk # NoTask, ~Leaving(call'[runtsk])
          PROVE  k'.state[runtsk] = "RDY"
      BY <3>1, <3>2 DEF Flow, RunInv
    <3> QED BY <2>2, <3>1, <3>2, <1>1 DEF RunInv
  <2> QED BY <2>1, <2>2, <1>1
<1>5. CallInv'
  <2>1. \A u, x \in Task :
          call'[u] = <<"cre_tsk", x>> => u \in Creators /\ k'.state[x] = "NOEXS"
    BY CallsApart DEF Flow, CallInv
  <2>2. \A u, x \in Task, p \in Line \union {TPRI_INI} :
          call'[u] = <<"chg_pri", x, p>> => x = u
    <3> SUFFICES ASSUME NEW u \in Task, NEW x \in Task,
                        NEW p \in Line \union {TPRI_INI},
                        call'[u] = <<"chg_pri", x, p>>
                 PROVE  x = u
      OBVIOUS
    <3>1. call'[u] = call[u]
      BY CallsApart
    <3> QED BY <3>1 DEF Flow, CallInv
  <2>3. ASSUME call'[INIT_TASK] = Boot
        PROVE  /\ runtsk' = NoTask
               /\ \A u \in Task : /\ call'[u] \in {User, Boot}
                                  /\ k'.state[u] \in {"NOEXS", "DMT"}
                                  /\ u # INIT_TASK => k'.state[u] = "NOEXS"
    <3>1. call[INIT_TASK] = Boot /\ k' = k
      BY <2>3, <1>1, CallsApart
    <3>2. /\ runtsk = NoTask
          /\ \A u \in Task : /\ call[u] \in {User, Boot}
                             /\ k.state[u] \in {"NOEXS", "DMT"}
                             /\ u # INIT_TASK => k.state[u] = "NOEXS"
      BY <3>1 DEF Flow, CallInv
    <3>3. k.schedtsk = NoTask
      BY <3>2, <1>1, ChosenReady
    <3> QED BY <3>1, <3>2, <3>3 DEF irq_return
  <2> QED BY <2>1, <2>2, <2>3 DEF CallInv
<1> QED BY <1>3, <1>4, <1>5 DEF Flow

LEMMA IrqStep ==
  ASSUME NEW a, IInv(a), Sound(k', a), irq_return, event' = NoTask, call' \in [Task -> a.calls],
         \A u \in Task : call'[u] = call[u] \/ (call'[u] = User /\ k'.state[u] = "RDY"),
         \A u \in Task : /\ k.state[u] = "RDY" => k'.state[u] = "RDY"
                         /\ k.state[u] = "NOEXS" => k'.state[u] = "NOEXS",
         call[INIT_TASK] = Boot /\ call'[INIT_TASK] = Boot => k' = k
  PROVE  IInv(a)'
<1>1. Flow(a) /\ Sound(k, a)
  BY DEF IInv
<1>2. Flow(a)'
  BY <1>1, IrqFlow
<1> QED BY <1>2 DEF IInv

(* task_initialize leaves a sound kernel without tasks.                     *)
LEMMA InitIInv ==
  ASSUME NEW a, Calls \subseteq a.calls, Init PROVE IInv(a)
<1>1. /\ k = task_initialize /\ runtsk = NoTask /\ event = NoTask
      /\ call = [t \in Task |-> IF t = INIT_TASK THEN Boot ELSE User]
  BY DEF Init
<1>2. RdyqInv(rdyq_init)
  BY RdyqInit
<1>3. /\ k.state = [t \in Task |-> "NOEXS"] /\ k.rdyq = rdyq_init
      /\ k.schedtsk = NoTask /\ k.timerq = <<>>
      /\ k.waitq = [o \in Obj |-> <<>>]
  BY <1>1 DEF task_initialize
<1>4. k \in KernelType
  <2>1. 0 \in 0..TMAX_ACTCNT /\ 0 \in 0..RELTIM_MAX /\ rdyq_init \in RdyqType
    BY <1>2, KernelAssumption DEF RdyqInv
  <2> QED BY <1>1, <2>1, KernelAssumption DEF task_initialize, KernelType, States
<1>5. SchedInv(k)
  <2>1. rdyq_top(rdyq_init) = NoTask
    BY DEF rdyq_top, rdyq_init
  <2>2. ReadyLinks(k)
    BY <1>3 DEF ReadyLinks, rdyq_init, ToSet
  <2> QED BY <1>2, <1>3, <2>1, <2>2 DEF SchedInv
<1>6. WaitsInv(k, a)
  <2>1. /\ \A o \in Obj : k.waitq[o] = <<>>
        /\ \A t \in Task : k.state[t] = "NOEXS"
    BY <1>3
  <2> QED BY <1>3, <2>1 DEF WaitsInv, QueueOK, WaitOK, InOrder, ToSet, IsInjective
<1>7. Typed(a)
  BY <1>1, <1>4 DEF Typed, Calls
<1>8. RunInv
  BY <1>1, ReadyQueueAssumption DEF RunInv
<1>9. CallInv
  BY <1>1, <1>3, CallsApart DEF CallInv
<1> QED BY <1>4, <1>5, <1>6, <1>7, <1>8, <1>9 DEF IInv, Flow, Sound

(* A task in its own code, or between the steps of a call, is READY.       *)
LEMMA Running ==
  ASSUME NEW a, IInv(a), NEW t \in Task, NEW c, ~Leaving(c), At(t, c)
  PROVE  /\ runtsk = t /\ event = NoTask /\ call[t] = c /\ t # NoTask
         /\ k.state[t] = "RDY" /\ (Preemptive => k.schedtsk = t)
         /\ call[INIT_TASK] # Boot
         /\ Sound(k, a) /\ call \in [Task -> a.calls] /\ Calls \subseteq a.calls
BY ReadyQueueAssumption DEF IInv, Flow, At, RunInv, CallInv, Typed

(* A service call that ends in dispatch() and changes nobody else's place. *)
LEMMA ServiceStep ==
  ASSUME NEW a, IInv(a), NEW t \in Task, NEW c, ~Leaving(c), At(t, c), Sound(k', a),
         \A x \in Task : k.state[x] = "NOEXS" => k'.state[x] = "NOEXS",
         Goto(t, Dispatch)
  PROVE  IInv(a)'
<1>1. /\ runtsk = t /\ event = NoTask /\ call \in [Task -> a.calls]
      /\ Calls \subseteq a.calls
  BY Running
<1>2. /\ runtsk' = runtsk /\ event' = event /\ call' = [call EXCEPT ![t] = Dispatch]
  BY DEF Goto
<1>3. /\ call' \in [Task -> a.calls] /\ call'[t] = Dispatch
      /\ \A u \in Task : call'[u] = call[u] \/ call'[u] \in {User, Dispatch}
  BY <1>1, <1>2 DEF Calls
<1> QED BY <1>1, <1>2, <1>3, DispatchStep

(* dispatch(): the context that resumes is that of a READY task.           *)
LEMMA DispatchInv ==
  ASSUME NEW a, IInv(a), NEW t \in Task, dispatch(t) PROVE IInv(a)'
<1>1. /\ runtsk = t /\ event = NoTask /\ t # NoTask /\ k' = k /\ event' = event
      /\ runtsk' = k.schedtsk /\ call' = [call EXCEPT ![t] = User]
      /\ Typed(a) /\ Sound(k, a) /\ SchedInv(k) /\ INIT_TASK \in Task
  BY ReadyQueueAssumption, KernelAssumption DEF dispatch, At, IInv, Flow, Sound
<1>2. \/ k.schedtsk = NoTask
      \/ k.schedtsk \in Task /\ k.state[k.schedtsk] = "RDY"
  BY <1>1, ChosenReady
<1>3. Typed(a)'
  BY <1>1, <1>2 DEF Typed, Calls
<1>4. RunInv'
  BY <1>1, <1>2, ReadyQueueAssumption DEF RunInv
<1>5. CallInv'
  <2>1. \A u \in Task : call'[u] = IF u = t THEN User ELSE call[u]
    BY <1>1 DEF Typed
  <2>2. call[INIT_TASK] # Boot
    BY <1>1 DEF IInv, Flow, CallInv
  <2> QED BY <1>1, <2>1, <2>2, CallsApart DEF IInv, Flow, CallInv
<1> QED BY <1>1, <1>3, <1>4, <1>5 DEF IInv, Flow

(* The idle loop's dispatch.                                               *)
LEMMA DispatchNullInv ==
  ASSUME NEW a, IInv(a), dispatch_null PROVE IInv(a)'
<1>1. /\ event = NoTask /\ k' = k /\ event' = event /\ call' = call
      /\ runtsk' = k.schedtsk /\ k.schedtsk # NoTask
      /\ Typed(a) /\ Sound(k, a) /\ SchedInv(k)
  BY DEF dispatch_null, IInv, Flow, Sound
<1>2. k.schedtsk \in Task /\ k.state[k.schedtsk] = "RDY"
  BY <1>1, ChosenReady
<1>3. Typed(a)' /\ RunInv'
  BY <1>1, <1>2, ReadyQueueAssumption DEF Typed, RunInv
<1>4. call[INIT_TASK] # Boot
  BY <1>2 DEF IInv, Flow, CallInv
<1>5. CallInv'
  BY <1>1, <1>4 DEF IInv, Flow, CallInv
<1> QED BY <1>1, <1>3, <1>5 DEF IInv, Flow

(* What WaitsInv reads is the same.                                        *)
LEMMA WaitsSame ==
  ASSUME NEW a, NEW n, WaitsInv(n, a), NEW m,
         m.state = n.state, m.tskpri = n.tskpri, m.tskwait = n.tskwait,
         m.wupcnt = n.wupcnt, m.suscnt = n.suscnt, m.waitq = n.waitq,
         m.timerq = n.timerq
  PROVE  WaitsInv(m, a)
BY DEF WaitsInv, QueueOK, WaitOK

(* rot_rdq, of any line.                                                   *)
LEMMA RotateStep ==
  ASSUME NEW a, IInv(a), NEW t \in Task, rot_rdq(t) PROVE IInv(a)'
<1>1. /\ At(t, User) /\ ~Leaving(User) /\ Goto(t, Dispatch) /\ Sound(k, a)
      /\ k \in KernelType /\ SchedInv(k) /\ WaitsInv(k, a)
  BY CallsApart DEF rot_rdq, Calls_, IInv, Sound
<1>2. k' = k \/ \E p \in Line : k' = rdyq_rotate_at(k, p)
  BY <1>1, RdyqTop DEF rot_rdq, rdyq_rotate_current, SchedInv
<1>3. ASSUME NEW p \in Line, k' = rdyq_rotate_at(k, p) PROVE Sound(k', a) /\ k'.state = k.state
  <2>1. SchedInv(k')
    BY <1>1, <1>3, HasSchedFields, RotateInv
  <2>2. k'.rdyq \in RdyqType /\ k'.schedtsk \in Task \union {NoTask}
    BY <2>1, RdyqTop DEF SchedInv, RdyqInv
  <2>3. /\ k'.state = k.state /\ k'.tskwait = k.tskwait /\ k'.wupcnt = k.wupcnt
        /\ k'.suscnt = k.suscnt /\ k'.waitq = k.waitq /\ k'.timerq = k.timerq
        /\ k'.tskpri = k.tskpri /\ k' \in KernelType
    BY <1>1, <1>3, <2>2 DEF rdyq_rotate_at, KernelType
  <2>4. WaitsInv(k', a)
    BY <1>1, <2>3, WaitsSame
  <2> QED BY <2>1, <2>3, <2>4 DEF Sound
<1>4. Sound(k', a) /\ k'.state = k.state
  BY <1>1, <1>2, <1>3
<1> QED BY <1>1, <1>4, ServiceStep

(* The first half of cre_tsk, and the first half of chg_pri.               *)
LEMMA CheckStep ==
  ASSUME NEW a, IInv(a), WellBehaved, NEW t \in Task, NEW x \in Task,
         \/ cre_tsk_check(t, x)
         \/ \E p \in Line \union {TPRI_INI} : chg_pri_check(t, x, p)
  PROVE  IInv(a)'
<1>1. PICK c :
        /\ call' = [call EXCEPT ![t] = c] /\ c \in Calls
        /\ \/ c = <<"cre_tsk", x>> /\ t \in Creators /\ k.state[x] = "NOEXS"
           \/ x = t /\ \E p \in Line \union {TPRI_INI} : c = <<"chg_pri", x, p>>
  <2>1. CASE cre_tsk_check(t, x)
    <3> DEFINE c == <<"cre_tsk", x>>
    <3>1. c \in Calls
      BY DEF Calls
    <3> QED BY <2>1, <3>1 DEF cre_tsk_check, Goto
  <2>2. ASSUME NEW p \in Line \union {TPRI_INI}, chg_pri_check(t, x, p)
        PROVE  \E c : /\ call' = [call EXCEPT ![t] = c] /\ c \in Calls
                      /\ x = t /\ c = <<"chg_pri", x, p>>
    <3> DEFINE c == <<"chg_pri", x, p>>
    <3>1. c \in Calls /\ x = t
      BY <2>2 DEF Calls, WellBehaved, chg_pri_check
    <3> QED BY <2>2, <3>1 DEF chg_pri_check, Goto
  <2> QED BY <2>1, <2>2
<1>2. At(t, User) /\ k' = k /\ runtsk' = runtsk /\ event' = event
  BY DEF cre_tsk_check, chg_pri_check, Calls_, Goto
<1>3. /\ runtsk = t /\ k.state[t] = "RDY" /\ (Preemptive => k.schedtsk = t)
      /\ event = NoTask /\ call \in [Task -> a.calls] /\ call[INIT_TASK] # Boot
  BY <1>2, CallsApart, Running
<1>4. Typed(a)'
  BY <1>1, <1>2, <1>3 DEF IInv, Flow, Typed
<1>5. RunInv'
  BY <1>2, <1>3, ReadyQueueAssumption DEF RunInv
<1>6. \A u \in Task : call'[u] = IF u = t THEN c ELSE call[u]
  BY <1>1, <1>3
<1>7. CallInv'
  <2>1. ASSUME NEW u \in Task, NEW y \in Task, call'[u] = <<"cre_tsk", y>>
        PROVE  u \in Creators /\ k'.state[y] = "NOEXS"
    BY <2>1, <1>1, <1>2, <1>6, CallsApart DEF IInv, Flow, CallInv
  <2>2. ASSUME NEW u \in Task, NEW y \in Task, NEW p \in Line \union {TPRI_INI},
               call'[u] = <<"chg_pri", y, p>>
        PROVE  y = u
    BY <2>2, <1>1, <1>6, CallsApart DEF IInv, Flow, CallInv
  <2>3. call'[INIT_TASK] # Boot
    BY <1>1, <1>3, <1>6, CallsApart, KernelAssumption
  <2> QED BY <2>1, <2>2, <2>3 DEF CallInv
<1> QED BY <1>2, <1>4, <1>5, <1>7 DEF IInv, Flow

(* What the scheduler and the waits do not read may change.                *)
LEMMA OtherFields ==
  ASSUME NEW a, NEW n, Sound(n, a), NEW m, m \in KernelType,
         m.state = n.state, m.tskpri = n.tskpri, m.rdyq = n.rdyq,
         m.schedtsk = n.schedtsk, m.tskwait = n.tskwait, m.wupcnt = n.wupcnt,
         m.suscnt = n.suscnt, m.waitq = n.waitq, m.timerq = n.timerq
  PROVE  Sound(m, a)
<1>1. SchedInv(m)
  BY SchedFrame DEF Sound
<1>2. WaitsInv(m, a)
  BY WaitsSame DEF Sound
<1> QED BY <1>1, <1>2 DEF Sound

(* A task that is not waiting and not suspended becomes READY.             *)
LEMMA ReadySound ==
  ASSUME NEW a, NEW n, Sound(n, a), NEW t \in Task, n.state[t] = "DMT"
  PROVE  /\ Sound(task_make_ready(n, t), a)
         /\ task_make_ready(n, t).state = [n.state EXCEPT ![t] = "RDY"]
         /\ Policy(n, task_make_ready(n, t))
<1> DEFINE m == task_make_ready(n, t)
<1>1. /\ n \in KernelType /\ SchedInv(n) /\ WaitsInv(n, a)
      /\ n.state \in [Task -> States]
      /\ n.tskwait[t] = "none" /\ ~(n.suscnt[t] > 0)
      /\ t \notin ToSet(n.timerq) /\ IsInjective(n.timerq)
      /\ \A o \in Obj : t \notin ToSet(n.waitq[o])
  BY NotQueued DEF Sound, KernelType, WaitsInv, Waiting, WaitOK
<1>2. /\ m \in KernelType /\ SchedInv(m)
      /\ m.state = [n.state EXCEPT ![t] = "RDY"] /\ m.tskpri = n.tskpri
      /\ m.tskwait = n.tskwait /\ m.wupcnt = n.wupcnt /\ m.suscnt = n.suscnt
      /\ m.waitq = n.waitq /\ m.timerq = n.timerq
  BY <1>1, ReadyFields
<1> HIDE DEF m
<1>3. m.state[t] = "RDY" /\ \A u \in Task \ {t} : m.state[u] = n.state[u]
  BY <1>1, <1>2
<1>4. MovesOnly(n, m, t)
  BY <1>1, <1>2, <1>3 DEF MovesOnly
<1>5. WaitsInv(m, a)
  <2>1. WaitOK(m, t, a)
    BY <1>1, <1>2, <1>3 DEF Waiting, WaitOK
  <2> QED BY <1>1, <1>4, <2>1, WaitsFrame
<1>6. Policy(n, m)
  BY <1>1, ReadyPolicy DEF m
<1> QED BY <1>2, <1>5, <1>6 DEF Sound, m

(* The critical section of act_tsk, for any caller.                        *)
LEMMA ActSound ==
  ASSUME NEW a, Sound(k, a), Calls \subseteq a.calls, NEW x \in Task,
         NEW c, c \in [Task -> a.calls], _act_tsk(x, c)
  PROVE  /\ Sound(k', a) /\ Policy(k, k') /\ call' \in [Task -> a.calls]
         /\ \/ /\ k.state[x] = "DMT" /\ k'.state = [k.state EXCEPT ![x] = "RDY"]
               /\ call' = [c EXCEPT ![x] = User]
            \/ k.state[x] \notin {"NOEXS", "DMT"} /\ k'.state = k.state /\ call' = c
<1>1. CASE /\ k.state[x] = "DMT" /\ k' = task_make_ready(k, x)
           /\ call' = [c EXCEPT ![x] = User]
  <2>1. User \in a.calls
    BY DEF Calls
  <2> QED BY <1>1, <2>1, ReadySound
<1>2. CASE /\ k.state[x] \notin {"NOEXS", "DMT"} /\ k.actcnt[x] < TMAX_ACTCNT
           /\ k' = [k EXCEPT !.actcnt[x] = @ + 1] /\ call' = c
  <2>1. k \in KernelType /\ k.actcnt[x] + 1 \in 0..TMAX_ACTCNT
    <3>1. k \in KernelType /\ k.actcnt \in [Task -> 0..TMAX_ACTCNT]
      BY DEF Sound, KernelType
    <3>2. k.actcnt[x] \in 0..TMAX_ACTCNT /\ TMAX_ACTCNT \in Nat
      BY <3>1, KernelAssumption
    <3> QED BY <1>2, <3>1, <3>2
  <2>2. /\ k' \in KernelType /\ k'.state = k.state /\ k'.tskpri = k.tskpri
        /\ k'.rdyq = k.rdyq /\ k'.schedtsk = k.schedtsk
        /\ k'.tskwait = k.tskwait /\ k'.wupcnt = k.wupcnt
        /\ k'.suscnt = k.suscnt /\ k'.waitq = k.waitq /\ k'.timerq = k.timerq
    BY <1>2, <2>1 DEF KernelType
  <2>3. Policy(k, k')
    BY <2>2 DEF Policy, PolicyStep
  <2> QED BY <1>2, <2>2, <2>3, OtherFields
<1> QED BY <1>1, <1>2 DEF _act_tsk

(* act_tsk.                                                                *)
LEMMA ActStep ==
  ASSUME NEW a, IInv(a), NEW t \in Task, NEW x \in Task, act_tsk(t, x) PROVE IInv(a)'
<1> DEFINE c == [call EXCEPT ![t] = Dispatch]
<1>1. /\ At(t, User) /\ ~Leaving(User) /\ _act_tsk(x, c)
      /\ runtsk' = runtsk /\ event' = event
  BY CallsApart DEF act_tsk, Calls_
<1>2. /\ runtsk = t /\ event = NoTask /\ k.state[t] = "RDY"
      /\ Sound(k, a) /\ call \in [Task -> a.calls] /\ k.state \in [Task -> States]
      /\ Calls \subseteq a.calls
  BY <1>1, Running DEF Sound, KernelType
<1>3. c \in [Task -> a.calls]
  BY <1>2 DEF Calls
<1>4. /\ Sound(k', a) /\ call' \in [Task -> a.calls]
      /\ \/ /\ k.state[x] = "DMT" /\ k'.state = [k.state EXCEPT ![x] = "RDY"]
            /\ call' = [c EXCEPT ![x] = User]
         \/ k.state[x] \notin {"NOEXS", "DMT"} /\ k'.state = k.state /\ call' = c
  BY <1>1, <1>2, <1>3, ActSound
<1>5. \A u \in Task : k.state[u] = "NOEXS" => k'.state[u] = "NOEXS"
  BY <1>2, <1>4
<1>6. /\ call'[t] = Dispatch
      /\ \A u \in Task : call'[u] = call[u] \/ call'[u] \in {User, Dispatch}
  BY <1>2, <1>4
<1> QED BY <1>1, <1>2, <1>4, <1>5, <1>6, DispatchStep

(* iact_tsk.                                                               *)
LEMMA IactStep ==
  ASSUME NEW a, IInv(a), NEW x \in Task, iact_tsk(x) PROVE IInv(a)'
<1>1. /\ irq_return /\ event' = NoTask /\ _act_tsk(x, call)
      /\ Sound(k, a) /\ call \in [Task -> a.calls] /\ k.state \in [Task -> States]
      /\ Calls \subseteq a.calls
  BY DEF iact_tsk, irq_entry, IInv, Flow, Typed, Sound, KernelType
<1>2. /\ Sound(k', a) /\ call' \in [Task -> a.calls]
      /\ \/ /\ k.state[x] = "DMT" /\ k'.state = [k.state EXCEPT ![x] = "RDY"]
            /\ call' = [call EXCEPT ![x] = User]
         \/ k.state[x] \notin {"NOEXS", "DMT"} /\ k'.state = k.state /\ call' = call
  BY <1>1, ActSound
<1>3. /\ \A u \in Task : call'[u] = call[u] \/ (call'[u] = User /\ k'.state[u] = "RDY")
      /\ \A u \in Task : /\ k.state[u] = "RDY" => k'.state[u] = "RDY"
                         /\ k.state[u] = "NOEXS" => k'.state[u] = "NOEXS"
  BY <1>1, <1>2
<1>4. ~(call[INIT_TASK] = Boot /\ call'[INIT_TASK] = Boot)
  <2> SUFFICES ASSUME call[INIT_TASK] = Boot, call'[INIT_TASK] = Boot PROVE FALSE
    OBVIOUS
  <2>1. /\ k.state[x] \in {"NOEXS", "DMT"}
        /\ x # INIT_TASK => k.state[x] = "NOEXS"
    BY DEF IInv, Flow, CallInv
  <2> QED BY <2>1, <1>1, <1>2, CallsApart
<1> QED BY <1>1, <1>2, <1>3, <1>4, IrqStep

(* main() creates INIT_TASK and activates it.                              *)
LEMMA MainStep ==
  ASSUME NEW a, IInv(a), main_cre \/ main_act PROVE IInv(a)'
<1>1. /\ event = NoTask /\ event' = event /\ call[INIT_TASK] = Boot
      /\ runtsk' = runtsk
      /\ Typed(a) /\ Sound(k, a) /\ call \in [Task -> a.calls] /\ INIT_TASK \in Task
      /\ k.state \in [Task -> States]
  BY KernelAssumption DEF main_cre, main_act, IInv, Flow, Typed, Sound, KernelType
<1>2. /\ runtsk = NoTask
      /\ \A u \in Task : /\ call[u] \in {User, Boot}
                         /\ k.state[u] \in {"NOEXS", "DMT"}
                         /\ u # INIT_TASK => k.state[u] = "NOEXS"
  BY <1>1 DEF IInv, Flow, CallInv
<1>3. /\ Sound(k', a) /\ call' \in [Task -> a.calls]
      /\ \/ call' = call /\ k'.state = [k.state EXCEPT ![INIT_TASK] = "DMT"]
         \/ call' = [call EXCEPT ![INIT_TASK] = User]
  <2>1. CASE main_cre
    <3>1. k' = create(INIT_TASK) /\ k.state[INIT_TASK] = "NOEXS" /\ call' = call
      BY <2>1 DEF main_cre
    <3> QED BY <3>1, <1>1, CreateSound
  <2>2. CASE main_act
    <3>1. _act_tsk(INIT_TASK, call)
      BY <2>2 DEF main_act
    <3>2. Calls \subseteq a.calls
      BY <1>1 DEF Typed
    <3> QED BY <3>1, <3>2, <1>1, <1>2, ActSound
  <2> QED BY <2>1, <2>2
<1>4. Typed(a)'
  BY <1>1, <1>3 DEF Typed, Sound
<1>5. RunInv'
  BY <1>1, <1>2, ReadyQueueAssumption DEF RunInv
<1>6. \A u \in Task : call'[u] \in {User, Boot}
  BY <1>1, <1>2, <1>3
<1>7. call'[INIT_TASK] = Boot =>
        \A u \in Task : /\ k'.state[u] \in {"NOEXS", "DMT"}
                        /\ u # INIT_TASK => k'.state[u] = "NOEXS"
  BY <1>1, <1>2, <1>3, CallsApart
<1>8. CallInv'
  BY <1>1, <1>2, <1>6, <1>7, CallsApart DEF CallInv
<1> QED BY <1>3, <1>4, <1>5, <1>8 DEF IInv, Flow

(* The second half of cre_tsk: the ID that was free still is, because no   *)
(* other task creates.                                                     *)
LEMMA CreStep ==
  ASSUME NEW a, IInv(a), WellBehaved, NEW t \in Task, NEW x \in Task, cre_tsk(t, x)
  PROVE  IInv(a)'
<1>1. /\ At(t, <<"cre_tsk", x>>) /\ ~Leaving(<<"cre_tsk", x>>) /\ k' = create(x)
      /\ call' = [call EXCEPT ![t] = User] /\ runtsk' = runtsk /\ event' = event
  BY CallsApart DEF cre_tsk, Goto
<1>2. /\ runtsk = t /\ event = NoTask /\ call[t] = <<"cre_tsk", x>> /\ t # NoTask
      /\ k.state[t] = "RDY" /\ (Preemptive => k.schedtsk = t)
      /\ call[INIT_TASK] # Boot /\ Sound(k, a) /\ call \in [Task -> a.calls]
      /\ k.state \in [Task -> States] /\ Typed(a)
  BY <1>1, Running DEF Sound, KernelType, IInv, Flow
<1>3. t \in Creators /\ k.state[x] = "NOEXS"
  BY <1>2 DEF IInv, Flow, CallInv
<1>4. /\ Sound(k', a) /\ k'.state = [k.state EXCEPT ![x] = "DMT"]
      /\ k'.schedtsk = k.schedtsk
  BY <1>1, <1>2, <1>3, CreateSound
<1>5. \A u \in Task : call'[u] = IF u = t THEN User ELSE call[u]
  BY <1>1, <1>2
<1>6. Typed(a)'
  BY <1>1, <1>2, <1>4, <1>5 DEF Typed, Sound, Calls
<1>7. RunInv'
  BY <1>1, <1>2, <1>3, <1>4, ReadyQueueAssumption DEF RunInv
<1>8. CallInv'
  <2>1. \A u, y \in Task : call'[u] # <<"cre_tsk", y>>
    <3> SUFFICES ASSUME NEW u \in Task, NEW y \in Task, call'[u] = <<"cre_tsk", y>>
                 PROVE  FALSE
      OBVIOUS
    <3>1. u # t /\ call[u] = <<"cre_tsk", y>>
      BY <1>5, CallsApart
    <3>2. u \in Creators
      BY <3>1 DEF IInv, Flow, CallInv
    <3> QED BY <3>1, <3>2, <1>3 DEF WellBehaved
  <2>2. \A u, y \in Task, p \in Line \union {TPRI_INI} :
          call'[u] = <<"chg_pri", y, p>> => y = u
    <3> SUFFICES ASSUME NEW u \in Task, NEW y \in Task,
                        NEW p \in Line \union {TPRI_INI},
                        call'[u] = <<"chg_pri", y, p>>
                 PROVE  y = u
      OBVIOUS
    <3>1. call'[u] = call[u]
      BY <1>5, CallsApart
    <3> QED BY <3>1 DEF IInv, Flow, CallInv
  <2>3. call'[INIT_TASK] # Boot
    BY <1>2, <1>5, CallsApart, KernelAssumption
  <2> QED BY <2>1, <2>2, <2>3 DEF CallInv
<1> QED BY <1>4, <1>6, <1>7, <1>8 DEF IInv, Flow

(* m is o, but x does not exist any more and has no activation requests.   *)
Deletes(o, m, x) ==
  /\ m \in KernelType /\ m.state = [o.state EXCEPT ![x] = "NOEXS"]
  /\ m.tskpri = o.tskpri /\ m.rdyq = o.rdyq /\ m.schedtsk = o.schedtsk
  /\ m.tskwait = o.tskwait /\ m.wupcnt = o.wupcnt /\ m.suscnt = o.suscnt
  /\ m.waitq = o.waitq /\ m.timerq = o.timerq

(* The last assignments of del_tsk.                                        *)
LEMMA DeleteFields ==
  ASSUME NEW o, o \in KernelType, NEW x \in Task
  PROVE  /\ Deletes(o, [o EXCEPT !.state[x] = "NOEXS", !.actcnt[x] = 0], x)
         /\ o.state[x] = "NOEXS" => Deletes(o, [o EXCEPT !.actcnt[x] = 0], x)
<1>1. 0 \in 0..TMAX_ACTCNT
  BY KernelAssumption
<1>2. Deletes(o, [o EXCEPT !.state[x] = "NOEXS", !.actcnt[x] = 0], x)
  BY <1>1 DEF KernelType, States, Deletes
<1>3. ASSUME o.state[x] = "NOEXS" PROVE Deletes(o, [o EXCEPT !.actcnt[x] = 0], x)
  BY <1>1, <1>3 DEF KernelType, States, Deletes
<1> QED BY <1>2, <1>3

(* A task that no list links may be made to exist no more.                 *)
LEMMA DeletedSound ==
  ASSUME NEW a, NEW n, NEW m, NEW o, NEW x \in Task, WaitsInv(n, a),
         o \in KernelType, SchedInv(o), MovesOnly(n, o, x),
         o.state[x] # "RDY", x \notin ToSet(o.timerq),
         \A y \in Obj : x \notin ToSet(o.waitq[y]), Deletes(o, m, x)
  PROVE  Sound(m, a)
<1>1. o.state \in [Task -> States]
  BY DEF KernelType
<1>2. m.state[x] = "NOEXS" /\ \A u \in Task \ {x} : m.state[u] = o.state[u]
  BY <1>1 DEF Deletes
<1>3. SchedInv(m)
  <2>1. \A u \in Task : /\ m.state[u] = "RDY" <=> o.state[u] = "RDY"
                        /\ o.state[u] = "RDY" => m.tskpri[u] = o.tskpri[u]
    BY <1>2 DEF Deletes
  <2> QED BY <2>1, SchedFrame DEF Deletes
<1>4. MovesOnly(n, m, x)
  BY <1>2 DEF MovesOnly, Deletes
<1>5. WaitsInv(m, a)
  BY <1>2, <1>4, WaitsFrame DEF WaitOK
<1> QED BY <1>3, <1>5 DEF Sound, Deletes

(* del_tsk, of a task in any state.                                        *)
LEMMA DelStep ==
  ASSUME NEW a, IInv(a), NEW t \in Task, NEW x \in Task, del_tsk(t, x) PROVE IInv(a)'
<1> DEFINE o == CASE k.state[x] \in Waiting -> wait_cancel(k, x)
                  [] k.state[x] = "RDY"     -> task_make_unready(k, x)
                  [] OTHER                  -> k
<1>1. /\ At(t, User) /\ ~Leaving(User) /\ Goto(t, Dispatch)
      /\ k.state[x] # "NOEXS"
      /\ k' = [o EXCEPT !.state[x] = "NOEXS", !.actcnt[x] = 0]
  BY CallsApart DEF del_tsk, Calls_
<1>2. /\ Sound(k, a) /\ k \in KernelType /\ SchedInv(k) /\ WaitsInv(k, a)
      /\ k.state \in [Task -> States] /\ k.timerq \in Seq(Task)
      /\ IsInjective(k.timerq)
      /\ k.state[x] \notin Waiting =>
           x \notin ToSet(k.timerq) /\ \A y \in Obj : x \notin ToSet(k.waitq[y])
  BY NotQueued DEF IInv, Sound, KernelType, WaitsInv
<1> HIDE DEF o
<1>3. Sound(k', a) /\ \A u \in Task : k.state[u] = "NOEXS" => k'.state[u] = "NOEXS"
  <2>1. CASE k.state[x] \in Waiting
    <3>1. /\ k.state[x] # "RDY"
          /\ o = [k EXCEPT !.timerq = kqueue_remove(k.timerq, x),
                           !.waitq = Without(k.waitq, x)]
      BY <2>1, <1>2, WaitCancel DEF o, Waiting
    <3>2. /\ kqueue_remove(k.timerq, x) \in Seq(Task)
          /\ IsInjective(kqueue_remove(k.timerq, x))
          /\ ToSet(kqueue_remove(k.timerq, x)) = ToSet(k.timerq) \ {x}
          /\ Without(k.waitq, x) \in [Obj -> Seq(Task)]
          /\ \A y \in Obj : x \notin ToSet(Without(k.waitq, x)[y])
      <4>1. /\ Without(k.waitq, x) \in [Obj -> Seq(Task)]
            /\ \A y \in Obj : ToSet(Without(k.waitq, x)[y]) = ToSet(k.waitq[y]) \ {x}
        BY <1>2, WithoutMembers
      <4> QED BY <1>2, <4>1, TimerRemove
    <3>3. /\ o \in KernelType /\ o.state = k.state /\ o.tskpri = k.tskpri
          /\ o.rdyq = k.rdyq /\ o.schedtsk = k.schedtsk /\ o.tskwait = k.tskwait
          /\ o.wupcnt = k.wupcnt /\ o.suscnt = k.suscnt
          /\ o.waitq = Without(k.waitq, x)
          /\ o.timerq = kqueue_remove(k.timerq, x)
      BY <1>2, <3>1, <3>2 DEF KernelType
    <3>4. SchedInv(o)
      BY <1>2, <3>3, SchedFrame
    <3>5. /\ x \notin ToSet(o.timerq) /\ MovesOnly(k, o, x)
          /\ \A y \in Obj : x \notin ToSet(o.waitq[y])
      BY <1>2, <3>2, <3>3 DEF MovesOnly
    <3>6. Deletes(o, k', x)
      BY <1>1, <3>3, DeleteFields
    <3>7. Sound(k', a)
      BY <1>2, <3>1, <3>3, <3>4, <3>5, <3>6, DeletedSound
    <3> QED BY <1>2, <3>3, <3>6, <3>7 DEF Deletes
  <2>2. CASE k.state[x] = "RDY"
    <3> DEFINE w == [o EXCEPT !.state[x] = "NOEXS"]
    <3>1. /\ o = task_make_unready(k, x) /\ x \notin ToSet(k.timerq)
          /\ \A y \in Obj : x \notin ToSet(k.waitq[y])
      BY <2>2, <1>2 DEF o, Waiting
    <3>2. /\ w \in KernelType /\ SchedInv(w)
          /\ w.state = [k.state EXCEPT ![x] = "NOEXS"] /\ w.tskpri = k.tskpri
          /\ w.tskwait = k.tskwait /\ w.wupcnt = k.wupcnt /\ w.suscnt = k.suscnt
          /\ w.waitq = k.waitq /\ w.timerq = k.timerq
      <4>1. "NOEXS" \in States /\ "NOEXS" # "RDY"
        BY DEF States
      <4> QED BY <1>2, <2>2, <3>1, <4>1, UnreadyFields
    <3>3. k' = [w EXCEPT !.actcnt[x] = 0]
      BY <1>1
    <3> HIDE DEF w
    <3>4. /\ w.state[x] = "NOEXS" /\ x \notin ToSet(w.timerq) /\ MovesOnly(k, w, x)
          /\ \A y \in Obj : x \notin ToSet(w.waitq[y])
      BY <1>2, <3>1, <3>2 DEF MovesOnly
    <3>5. Deletes(w, k', x)
      BY <3>2, <3>3, <3>4, DeleteFields
    <3>6. Sound(k', a)
      BY <1>2, <3>2, <3>4, <3>5, DeletedSound
    <3>7. \A u \in Task : k.state[u] = "NOEXS" => k'.state[u] = "NOEXS"
      BY <1>2, <3>2, <3>5 DEF Deletes
    <3> QED BY <3>6, <3>7
  <2>3. CASE k.state[x] \notin Waiting /\ k.state[x] # "RDY"
    <3>1. /\ o = k /\ x \notin ToSet(k.timerq)
          /\ \A y \in Obj : x \notin ToSet(k.waitq[y])
      BY <2>3, <1>2 DEF o
    <3>2. MovesOnly(k, k, x)
      BY <1>2, <3>1 DEF MovesOnly
    <3>3. Deletes(k, k', x)
      BY <1>1, <1>2, <3>1, DeleteFields
    <3>4. Sound(k', a)
      BY <1>2, <2>3, <3>1, <3>2, <3>3, DeletedSound
    <3> QED BY <1>2, <3>3, <3>4 DEF Deletes
  <2> QED BY <2>1, <2>2, <2>3
<1> QED BY <1>1, <1>3, ServiceStep

(* n and m agree in all that the lemmas read, but for what x is and how    *)
(* often it is suspended.                                                  *)
Suspends(n, m, x, s, c) ==
  /\ m \in KernelType /\ m.state = [n.state EXCEPT ![x] = s]
  /\ m.suscnt = [n.suscnt EXCEPT ![x] = c]
  /\ m.tskpri = n.tskpri /\ m.tskwait = n.tskwait /\ m.wupcnt = n.wupcnt
  /\ m.waitq = n.waitq /\ m.timerq = n.timerq

(* A suspension, or its end, does not touch what the task waits for.       *)
LEMMA SuspendSound ==
  ASSUME NEW a, NEW n, NEW m, Sound(n, a), NEW x \in Task, NEW s, NEW c \in Nat,
         SchedInv(m), Suspends(n, m, x, s, c), n.state[x] # "NOEXS",
         s \in Waiting <=> n.state[x] \in Waiting,
         c > 0 <=> s \in {"SUS", "WAS"}
  PROVE  Sound(m, a)
<1>1. /\ n \in KernelType /\ WaitsInv(n, a) /\ m \in KernelType
      /\ n.state \in [Task -> States] /\ n.suscnt \in [Task -> 0..TMAX_ACTCNT]
      /\ IsInjective(n.timerq) /\ (x \in ToSet(n.timerq) => n.state[x] \in Waiting)
      /\ \A o \in Obj : x \in ToSet(n.waitq[o]) => n.state[x] \in Waiting
  BY NotQueued DEF Sound, KernelType, WaitsInv, Suspends
<1>2. /\ m.state[x] = s /\ m.suscnt[x] = c
      /\ \A u \in Task \ {x} : m.state[u] = n.state[u] /\ m.suscnt[u] = n.suscnt[u]
  BY <1>1 DEF Suspends
<1>3. MovesOnly(n, m, x)
  BY <1>1, <1>2 DEF MovesOnly, Suspends
<1>4. WaitOK(m, x, a)
  BY <1>1, <1>2 DEF WaitsInv, WaitOK, Suspends
<1>5. WaitsInv(m, a)
  BY <1>1, <1>3, <1>4, WaitsFrame
<1> QED BY <1>1, <1>5 DEF Sound

(* sus_tsk, of a task in any state.                                        *)
LEMMA SusStep ==
  ASSUME NEW a, IInv(a), WellBehaved, NEW t \in Task, NEW x \in Task, sus_tsk(t, x)
  PROVE  IInv(a)'
<1>1. /\ At(t, User) /\ ~Leaving(User) /\ Goto(t, Dispatch) /\ Sound(k, a)
      /\ k \in KernelType /\ SchedInv(k)
      /\ k.state \in [Task -> States] /\ k.suscnt \in [Task -> 0..TMAX_ACTCNT]
  BY CallsApart DEF sus_tsk, Calls_, IInv, Sound, KernelType
<1>2. Sound(k', a) /\ \A u \in Task : k.state[u] = "NOEXS" => k'.state[u] = "NOEXS"
  <2>1. CASE k' = k
    BY <2>1, <1>1
  <2>2. CASE k' # k
    <3> DEFINE c == k.suscnt[x] + 1
               w == IF k.state[x] = "RDY"
                    THEN [task_make_unready(k, x) EXCEPT !.state[x] = "SUS"]
                    ELSE [k EXCEPT !.state[x] = "WAS"]
               s == IF k.state[x] = "RDY" THEN "SUS" ELSE "WAS"
    <3>1. /\ k.state[x] \in {"RDY", "WAI", "WAS"} /\ k.suscnt[x] # TMAX_ACTCNT
          /\ k' = [w EXCEPT !.suscnt[x] = @ + 1]
      BY <2>2, <1>1 DEF sus_tsk, WellBehaved, States
    <3>2. c \in 0..TMAX_ACTCNT /\ c > 0
      BY <1>1, <3>1, KernelAssumption
    <3>3. /\ w \in KernelType /\ SchedInv(w)
          /\ w.state = [k.state EXCEPT ![x] = s] /\ w.tskpri = k.tskpri
          /\ w.tskwait = k.tskwait /\ w.wupcnt = k.wupcnt /\ w.suscnt = k.suscnt
          /\ w.waitq = k.waitq /\ w.timerq = k.timerq
      <4>1. CASE k.state[x] = "RDY"
        <5>1. s \in States /\ s # "RDY"
          BY <4>1 DEF States
        <5>2. w = [task_make_unready(k, x) EXCEPT !.state[x] = s]
          BY <4>1
        <5>3. k \in KernelType /\ SchedInv(k)
          BY <1>1 DEF Sound
        <5> HIDE DEF w, s
        <5> QED BY <4>1, <5>1, <5>2, <5>3, UnreadyFields
      <4>2. CASE k.state[x] # "RDY"
        <5>1. /\ w \in KernelType /\ w.rdyq = k.rdyq /\ w.schedtsk = k.schedtsk
              /\ w.state = [k.state EXCEPT ![x] = "WAS"] /\ w.tskpri = k.tskpri
              /\ w.tskwait = k.tskwait /\ w.wupcnt = k.wupcnt /\ w.suscnt = k.suscnt
              /\ w.waitq = k.waitq /\ w.timerq = k.timerq
          BY <1>1, <4>2 DEF KernelType, States
        <5>2. \A u \in Task : w.state[u] = "RDY" <=> k.state[u] = "RDY"
          BY <1>1, <4>2, <5>1
        <5> HIDE DEF w
        <5>3. SchedInv(w)
          BY <1>1, <5>1, <5>2, SchedFrame
        <5> QED BY <4>2, <5>1, <5>3
      <4> QED BY <4>1, <4>2
    <3>4. k' = [w EXCEPT !.suscnt[x] = c]
      BY <3>1, <3>3
    <3> HIDE DEF w, c
    <3>5. /\ k' \in KernelType /\ k'.suscnt = [k.suscnt EXCEPT ![x] = c]
          /\ k'.state = w.state /\ k'.tskpri = w.tskpri /\ k'.rdyq = w.rdyq
          /\ k'.schedtsk = w.schedtsk /\ k'.tskwait = w.tskwait
          /\ k'.wupcnt = w.wupcnt /\ k'.waitq = w.waitq /\ k'.timerq = w.timerq
      BY <3>2, <3>3, <3>4 DEF KernelType
    <3>6. SchedInv(k')
      BY <3>3, <3>5, SchedFrame
    <3>7. Suspends(k, k', x, s, c) /\ c \in Nat
      BY <3>2, <3>3, <3>5 DEF Suspends
    <3>8. Sound(k', a)
      BY <1>1, <3>1, <3>2, <3>6, <3>7, SuspendSound DEF Waiting
    <3>9. \A u \in Task : k.state[u] = "NOEXS" => k'.state[u] = "NOEXS"
      BY <1>1, <3>1, <3>3, <3>5
    <3> QED BY <3>8, <3>9
  <2> QED BY <2>1, <2>2, <1>1
<1> QED BY <1>1, <1>2, ServiceStep

(* rsm_tsk, of a task in any state.                                        *)
LEMMA RsmStep ==
  ASSUME NEW a, IInv(a), NEW t \in Task, NEW x \in Task, rsm_tsk(t, x) PROVE IInv(a)'
<1> DEFINE c   == k.suscnt[x] - 1
           out == [k EXCEPT !.suscnt[x] = @ - 1]
<1>1. /\ At(t, User) /\ ~Leaving(User) /\ Goto(t, Dispatch) /\ Sound(k, a)
      /\ k \in KernelType /\ SchedInv(k) /\ WaitsInv(k, a)
      /\ k.state \in [Task -> States] /\ k.suscnt \in [Task -> 0..TMAX_ACTCNT]
  BY CallsApart DEF rsm_tsk, Calls_, IInv, Sound, KernelType
<1>2. Sound(k', a) /\ \A u \in Task : k.state[u] = "NOEXS" => k'.state[u] = "NOEXS"
  <2>1. CASE k.state[x] \notin {"SUS", "WAS"}
    BY <2>1, <1>1 DEF rsm_tsk
  <2>2. ASSUME k.state[x] \in {"SUS", "WAS"}
        PROVE  /\ Sound(k', a)
               /\ \A u \in Task : k.state[u] = "NOEXS" => k'.state[u] = "NOEXS"
    <3>1. k.state[x] # "NOEXS" /\ k.suscnt[x] > 0 /\ c \in 0..TMAX_ACTCNT
      BY <2>2, <1>1, KernelAssumption DEF WaitsInv, WaitOK
    <3>2. /\ out \in KernelType /\ out.suscnt = [k.suscnt EXCEPT ![x] = c]
          /\ out.state = k.state /\ out.tskpri = k.tskpri /\ out.rdyq = k.rdyq
          /\ out.schedtsk = k.schedtsk /\ out.tskwait = k.tskwait
          /\ out.wupcnt = k.wupcnt /\ out.waitq = k.waitq /\ out.timerq = k.timerq
      <4>1. out = [k EXCEPT !.suscnt[x] = c]
        OBVIOUS
      <4> HIDE DEF out, c
      <4> QED BY <4>1, <3>1, <1>1 DEF KernelType
    <3> HIDE DEF out, c
    <3>3. SchedInv(out)
      BY <1>1, <3>2, SchedFrame
    <3>4. CASE k.suscnt[x] # 1
      <4>1. k' = out /\ c > 0
        BY <3>1, <3>4, <2>2, <1>1 DEF rsm_tsk, out, c
      <4>2. k.state = [k.state EXCEPT ![x] = k.state[x]]
        BY <1>1
      <4>3. Suspends(k, k', x, k.state[x], c) /\ c \in Nat
        BY <3>1, <3>2, <4>1, <4>2 DEF Suspends
      <4> QED BY <1>1, <2>2, <3>1, <3>2, <3>3, <4>1, <4>2, <4>3, SuspendSound
    <3>5. CASE k.suscnt[x] = 1 /\ k.state[x] = "WAS"
      <4>1. k' = [out EXCEPT !.state[x] = "WAI"] /\ c = 0
        BY <3>5, <2>2, <1>1 DEF rsm_tsk, out, c
      <4>2. /\ k' \in KernelType /\ k'.state = [k.state EXCEPT ![x] = "WAI"]
            /\ k'.tskpri = k.tskpri /\ k'.rdyq = k.rdyq
            /\ k'.schedtsk = k.schedtsk /\ k'.suscnt = out.suscnt
            /\ k'.tskwait = k.tskwait /\ k'.wupcnt = k.wupcnt
            /\ k'.waitq = k.waitq /\ k'.timerq = k.timerq
        BY <3>2, <4>1 DEF KernelType, States
      <4>3. \A u \in Task : k'.state[u] = "RDY" <=> k.state[u] = "RDY"
        BY <4>2, <3>5, <1>1
      <4>4. SchedInv(k')
        BY <4>2, <4>3, <1>1, SchedFrame
      <4>5. Suspends(k, k', x, "WAI", c) /\ c \in Nat
        BY <3>2, <4>1, <4>2 DEF Suspends
      <4>6. Sound(k', a)
        BY <1>1, <3>1, <3>5, <4>1, <4>4, <4>5, SuspendSound DEF Waiting
      <4> QED BY <1>1, <3>5, <4>2, <4>6
    <3>6. CASE k.suscnt[x] = 1 /\ k.state[x] = "SUS"
      <4>1. k' = task_make_ready(out, x) /\ c = 0
        BY <3>6, <2>2, <1>1 DEF rsm_tsk, out, c
      <4>2. /\ k' \in KernelType /\ SchedInv(k')
            /\ k'.state = [k.state EXCEPT ![x] = "RDY"] /\ k'.tskpri = k.tskpri
            /\ k'.tskwait = k.tskwait /\ k'.wupcnt = k.wupcnt
            /\ k'.suscnt = out.suscnt /\ k'.waitq = k.waitq
            /\ k'.timerq = k.timerq
        <5>1. out.state[x] # "RDY"
          BY <3>2, <3>6
        <5> QED BY <3>2, <3>3, <4>1, <5>1, ReadyFields
      <4>3. Suspends(k, k', x, "RDY", c) /\ c \in Nat
        BY <3>2, <4>1, <4>2 DEF Suspends
      <4>4. Sound(k', a)
        BY <1>1, <3>1, <3>6, <4>1, <4>2, <4>3, SuspendSound DEF Waiting
      <4> QED BY <1>1, <3>6, <4>2, <4>4
    <3> QED BY <2>2, <3>4, <3>5, <3>6
  <2> QED BY <1>1, <2>1, <2>2
<1> QED BY <1>1, <1>2, ServiceStep

(* n and m agree in all that the lemmas read, but for x's wakeup requests. *)
Counts(n, m, x, c) ==
  /\ m \in KernelType /\ m.wupcnt = [n.wupcnt EXCEPT ![x] = c]
  /\ m.state = n.state /\ m.tskpri = n.tskpri /\ m.rdyq = n.rdyq
  /\ m.schedtsk = n.schedtsk /\ m.tskwait = n.tskwait
  /\ m.suscnt = n.suscnt /\ m.waitq = n.waitq /\ m.timerq = n.timerq

(* The wakeup requests of a task that is not asleep may change.            *)
LEMMA CountSound ==
  ASSUME NEW a, NEW n, NEW m, Sound(n, a), NEW x \in Task, NEW c, Counts(n, m, x, c),
         c = 0 \/ (n.state[x] # "NOEXS" => n.tskwait[x] # "SLP")
  PROVE  Sound(m, a)
<1>1. /\ n \in KernelType /\ SchedInv(n) /\ WaitsInv(n, a)
      /\ n.wupcnt \in [Task -> 0..TMAX_ACTCNT]
      /\ IsInjective(n.timerq) /\ (x \in ToSet(n.timerq) => n.state[x] \in Waiting)
      /\ \A o \in Obj : x \in ToSet(n.waitq[o]) => n.state[x] \in Waiting
  BY NotQueued DEF Sound, KernelType, WaitsInv
<1>2. m.wupcnt[x] = c /\ \A u \in Task \ {x} : m.wupcnt[u] = n.wupcnt[u]
  BY <1>1 DEF Counts
<1>3. SchedInv(m)
  BY <1>1, SchedFrame DEF Counts
<1>4. MovesOnly(n, m, x)
  BY <1>1, <1>2 DEF MovesOnly, Counts
<1>5. WaitOK(m, x, a)
  BY <1>1, <1>2 DEF WaitsInv, WaitOK, Counts
<1>6. WaitsInv(m, a)
  BY <1>1, <1>4, <1>5, WaitsFrame
<1> QED BY <1>3, <1>6 DEF Sound, Counts

(* The critical section of wup_tsk, for any caller.                        *)
LEMMA WupSound ==
  ASSUME NEW a, Sound(k, a), NEW x \in Task, _wup_tsk(x)
  PROVE  /\ Sound(k', a) /\ Policy(k, k') /\ k.state[x] \notin {"NOEXS", "DMT"}
         /\ \A u \in Task : /\ k.state[u] = "RDY" => k'.state[u] = "RDY"
                            /\ k.state[u] = "NOEXS" => k'.state[u] = "NOEXS"
<1>1. /\ k \in KernelType /\ WaitsInv(k, a) /\ k.state[x] \notin {"NOEXS", "DMT"}
      /\ k.state \in [Task -> States] /\ k.wupcnt \in [Task -> 0..TMAX_ACTCNT]
      /\ k.ercd \in [Task -> {"E_OK", "E_TMOUT", "E_DLT"}]
  BY DEF _wup_tsk, Sound, KernelType
<1>2. CASE k.state[x] \in Waiting /\ k.tskwait[x] = "SLP"
  <2> DEFINE l == [k EXCEPT !.ercd[x] = "E_OK"]
  <2>1. k' = wait_release(l, x)
    BY <1>2 DEF _wup_tsk, wait_release_ok
  <2>2. /\ l \in KernelType /\ l.state = k.state /\ l.tskpri = k.tskpri
        /\ l.rdyq = k.rdyq /\ l.schedtsk = k.schedtsk
        /\ l.tskwait = k.tskwait /\ l.wupcnt = k.wupcnt
        /\ l.suscnt = k.suscnt /\ l.waitq = k.waitq /\ l.timerq = k.timerq
    BY <1>1 DEF KernelType
  <2> HIDE DEF l
  <2>3. Sound(l, a)
    BY <2>2, OtherFields
  <2>4. Sound(k', a) /\ Policy(l, k') /\ Released(l, k', x)
    BY <1>2, <2>1, <2>2, <2>3, WaitRelease
  <2>5. \E s \in {"RDY", "SUS"} : k'.state = [k.state EXCEPT ![x] = s]
    BY <2>2, <2>4 DEF Released
  <2>6. Policy(k, k')
    BY <2>2, <2>4 DEF Policy
  <2> QED BY <1>1, <1>2, <2>4, <2>5, <2>6 DEF Waiting
<1>3. CASE ~(k.state[x] \in Waiting /\ k.tskwait[x] = "SLP")
  <2>1. k.wupcnt[x] < TMAX_ACTCNT /\ k' = [k EXCEPT !.wupcnt[x] = @ + 1]
    BY <1>3 DEF _wup_tsk
  <2>2. k.wupcnt[x] + 1 \in 0..TMAX_ACTCNT /\ k.tskwait[x] # "SLP"
    BY <1>1, <1>3, <2>1, KernelAssumption DEF WaitsInv, WaitOK
  <2> DEFINE c == k.wupcnt[x] + 1
  <2>3. c \in 0..TMAX_ACTCNT /\ k' = [k EXCEPT !.wupcnt[x] = c]
    BY <2>1, <2>2
  <2> HIDE DEF c
  <2>4. Counts(k, k', x, c)
    BY <1>1, <2>3 DEF KernelType, Counts
  <2>5. Sound(k', a)
    BY <2>2, <2>4, CountSound
  <2>6. Policy(k, k')
    BY <2>4 DEF Counts, Policy, PolicyStep
  <2> QED BY <1>1, <2>4, <2>5, <2>6 DEF Counts
<1> QED BY <1>2, <1>3

(* wup_tsk.                                                                *)
LEMMA WupStep ==
  ASSUME NEW a, IInv(a), NEW t \in Task, NEW x \in Task, wup_tsk(t, x) PROVE IInv(a)'
<1>1. At(t, User) /\ ~Leaving(User) /\ Goto(t, Dispatch) /\ _wup_tsk(x)
  BY CallsApart DEF wup_tsk, Calls_
<1>2. Sound(k', a) /\ \A u \in Task : k.state[u] = "NOEXS" => k'.state[u] = "NOEXS"
  BY <1>1, WupSound DEF IInv
<1> QED BY <1>1, <1>2, ServiceStep

(* iwup_tsk.                                                               *)
LEMMA IwupStep ==
  ASSUME NEW a, IInv(a), NEW x \in Task, iwup_tsk(x) PROVE IInv(a)'
<1>1. /\ irq_return /\ event' = NoTask /\ call' = call /\ _wup_tsk(x)
      /\ Sound(k, a) /\ call \in [Task -> a.calls]
  BY DEF iwup_tsk, irq_entry, IInv, Flow, Typed
<1>2. /\ Sound(k', a) /\ k.state[x] \notin {"NOEXS", "DMT"}
      /\ \A u \in Task : /\ k.state[u] = "RDY" => k'.state[u] = "RDY"
                         /\ k.state[u] = "NOEXS" => k'.state[u] = "NOEXS"
  BY <1>1, WupSound
<1>3. call[INIT_TASK] # Boot
  BY <1>2 DEF IInv, Flow, CallInv
<1> QED BY <1>1, <1>2, <1>3, IrqStep

(* can_wup, which does not dispatch.                                       *)
LEMMA CanWupStep ==
  ASSUME NEW a, IInv(a), NEW t \in Task, NEW x \in Task, can_wup(t, x) PROVE IInv(a)'
<1>1. /\ At(t, User) /\ ~Leaving(User) /\ k' = [k EXCEPT !.wupcnt[x] = 0]
      /\ runtsk' = runtsk /\ call' = call /\ event' = event
  BY CallsApart DEF can_wup, Calls_
<1>2. /\ runtsk = t /\ k.state[t] = "RDY" /\ (Preemptive => k.schedtsk = t)
      /\ Sound(k, a) /\ k \in KernelType /\ call[INIT_TASK] # Boot
      /\ k.ercd \in [Task -> {"E_OK", "E_TMOUT", "E_DLT"}] /\ t # NoTask
  BY <1>1, Running DEF Sound, KernelType
<1>3. 0 \in 0..TMAX_ACTCNT
  BY KernelAssumption
<1>4. Counts(k, k', x, 0)
  BY <1>1, <1>2, <1>3 DEF KernelType, Counts
<1>5. Sound(k', a)
  BY <1>2, <1>4, CountSound
<1>6. k'.state = k.state /\ k'.schedtsk = k.schedtsk
  BY <1>4 DEF Counts
<1>7. Typed(a)' /\ RunInv'
  BY <1>1, <1>2, <1>5, <1>6 DEF IInv, Flow, Typed, RunInv, Sound, At
<1>8. CallInv'
  BY <1>1, <1>2, <1>6 DEF IInv, Flow, CallInv
<1> QED BY <1>5, <1>7, <1>8 DEF IInv, Flow

(* The second half of chg_pri: a task changes the priority of itself.      *)
LEMMA ChgPriStep ==
  ASSUME NEW a, IInv(a), NEW t \in Task, NEW x \in Task, NEW p \in Line \union {TPRI_INI},
         chg_pri(t, x, p)
  PROVE  IInv(a)'
<1> DEFINE c == <<"chg_pri", x, p>>
           q == IF p = TPRI_INI THEN k.itskpri[x] ELSE p
<1>1. At(t, c) /\ ~Leaving(c) /\ Goto(t, Dispatch) /\ k' = task_change_pri(k, x, q)
  BY CallsApart DEF chg_pri
<1>2. /\ call[t] = c /\ k.state[t] = "RDY" /\ Sound(k, a)
      /\ k \in KernelType /\ SchedInv(k) /\ WaitsInv(k, a)
      /\ k.itskpri \in [Task -> Line] /\ k.tskpri \in [Task -> Line]
      /\ k.state[t] \notin Waiting /\ IsInjective(k.timerq)
  BY <1>1, Running DEF Sound, KernelType, Waiting, WaitsInv
<1>3. x = t
  BY <1>2 DEF IInv, Flow, CallInv
<1>4. q \in Line
  BY <1>2
<1> HIDE DEF c, q
<1>5. SchedInv(k')
  BY <1>1, <1>2, <1>3, <1>4, HasSchedFields, ChangePriInv
<1>6. k'.rdyq \in RdyqType /\ k'.schedtsk \in Task \union {NoTask}
  BY <1>5, RdyqTop DEF SchedInv, RdyqInv
<1>7. /\ k' \in KernelType /\ k'.state = k.state /\ k'.tskwait = k.tskwait
      /\ k'.wupcnt = k.wupcnt /\ k'.suscnt = k.suscnt
      /\ k'.waitq = k.waitq /\ k'.timerq = k.timerq
      /\ k'.tskpri = [k.tskpri EXCEPT ![x] = q]
  BY <1>1, <1>2, <1>4, <1>6 DEF task_change_pri, KernelType
<1>8. Sound(k', a)
  <2>1. \A o \in Obj : x \notin ToSet(k.waitq[o])
    BY <1>2, <1>3, NotQueued
  <2>2. MovesOnly(k, k', x)
    BY <1>2, <1>3, <1>7, <2>1, NotQueued DEF MovesOnly
  <2>3. WaitOK(k', x, a)
    BY <1>2, <1>7 DEF WaitsInv, WaitOK
  <2> QED BY <1>2, <1>5, <1>7, <2>2, <2>3, WaitsFrame DEF Sound
<1> QED BY <1>1, <1>7, <1>8, ServiceStep

(* dly_tsk and the calls of __slp_tsk.                                     *)
LEMMA SleepStep ==
  ASSUME NEW a, IInv(a), NEW t \in Task,
         \/ \E d \in Dly : dly_tsk(t, d)
         \/ \E tmo \in Tmo : __slp_tsk(t, tmo)
  PROVE  IInv(a)'
<1>1. At(t, User) /\ ~Leaving(User) /\ Goto(t, Dispatch)
  BY CallsApart DEF dly_tsk, __slp_tsk, Calls_
<1>2. /\ k.state[t] = "RDY" /\ Sound(k, a) /\ k \in KernelType
      /\ k.tskwait[t] # "SLP"
      /\ k.state \in [Task -> States] /\ k.wupcnt \in [Task -> 0..TMAX_ACTCNT]
      /\ k.ercd \in [Task -> {"E_OK", "E_TMOUT", "E_DLT"}]
  BY <1>1, Running DEF Sound, KernelType, WaitsInv, WaitOK, Waiting
<1>3. Sound(k', a) /\ \A u \in Task : k.state[u] = "NOEXS" => k'.state[u] = "NOEXS"
  <2>1. ASSUME NEW d \in Dly, dly_tsk(t, d)
        PROVE  Sound(k', a) /\ k'.state = [k.state EXCEPT ![t] = "WAI"]
    <3>1. as_TMO(d) \in Int
      BY KernelAssumption DEF as_TMO
    <3>2. k' = make_wait([k EXCEPT !.ercd[t] = "E_OK", !.tskwait[t] = "DLY"],
                         t, as_TMO(d))
      BY <2>1 DEF dly_tsk
    <3> DEFINE l == [k EXCEPT !.ercd[t] = "E_OK", !.tskwait[t] = "DLY"]
    <3>3. Reasons(k, l, t, "DLY")
      BY <1>2 DEF Reasons, KernelType
    <3> HIDE DEF l
    <3> DEFINE c == "DLY"
    <3>4. /\ k' = make_wait(l, t, as_TMO(d)) /\ Reasons(k, l, t, c)
          /\ c \in {"none", "SLP", "DLY"} /\ c # "none" /\ c # "SLP"
      BY <3>2, <3>3 DEF l
    <3> HIDE DEF c
    <3> DEFINE m == make_wait(l, t, as_TMO(d))
    <3>5. MadeWait(a, k, l, m, t)
      BY <1>2, <3>1, <3>4, MakeWaitSound
    <3> QED BY <3>4, <3>5 DEF MadeWait
  <2>2. ASSUME NEW tmo \in Tmo, __slp_tsk(t, tmo)
        PROVE  Sound(k', a) /\ (k'.state = [k.state EXCEPT ![t] = "WAI"] \/ k'.state = k.state)
    <3>1. CASE k.wupcnt[t] > 0
      <4> DEFINE c == k.wupcnt[t] - 1
      <4>1. c \in 0..TMAX_ACTCNT
        BY <3>1, <1>2, KernelAssumption
      <4>2. k' = [k EXCEPT !.wupcnt[t] = c, !.ercd[t] = "E_OK"]
        BY <2>2, <3>1, <1>2 DEF __slp_tsk
      <4> HIDE DEF c
      <4>3. Counts(k, k', t, c)
        BY <1>2, <4>1, <4>2 DEF KernelType, Counts
      <4> QED BY <1>2, <4>3, CountSound DEF Counts
    <3>2. CASE k.wupcnt[t] = 0 /\ tmo = TMO_POL
      <4>1. k' = [k EXCEPT !.ercd[t] = "E_TMOUT"]
        BY <2>2, <3>2, <1>2 DEF __slp_tsk
      <4>2. /\ k' \in KernelType /\ k'.state = k.state /\ k'.tskpri = k.tskpri
            /\ k'.rdyq = k.rdyq /\ k'.schedtsk = k.schedtsk
            /\ k'.tskwait = k.tskwait /\ k'.wupcnt = k.wupcnt
            /\ k'.suscnt = k.suscnt /\ k'.waitq = k.waitq /\ k'.timerq = k.timerq
        BY <1>2, <4>1 DEF KernelType
      <4> QED BY <1>2, <4>2, OtherFields
    <3>3. CASE k.wupcnt[t] = 0 /\ tmo # TMO_POL
      <4> DEFINE l == [k EXCEPT !.ercd[t] = "E_TMOUT", !.tskwait[t] = "SLP"]
      <4>1. k' = make_wait(l, t, tmo)
        BY <2>2, <3>3, <1>2 DEF __slp_tsk
      <4>2. Reasons(k, l, t, "SLP")
        BY <1>2 DEF Reasons, KernelType
      <4> HIDE DEF l
      <4>3. tmo \in Int
        BY KernelAssumption
      <4> DEFINE c == "SLP"
      <4>4. Reasons(k, l, t, c) /\ c \in {"none", "SLP", "DLY"} /\ c # "none"
            /\ k.wupcnt[t] = 0
        BY <3>3, <4>2
      <4> HIDE DEF c
      <4> DEFINE m == make_wait(l, t, tmo)
      <4>5. MadeWait(a, k, l, m, t)
        BY <1>2, <4>3, <4>4, MakeWaitSound
      <4> QED BY <4>1, <4>5 DEF MadeWait
    <3>4. k.wupcnt[t] > 0 \/ k.wupcnt[t] = 0
      BY <1>2, KernelAssumption
    <3> QED BY <3>1, <3>2, <3>3, <3>4
  <2> QED BY <1>2, <2>1, <2>2
<1> QED BY <1>1, <1>3, ServiceStep

(* ext_tsk: the task is DORMANT, or READY again if activations are queued. *)
LEMMA ExtStep ==
  ASSUME NEW a, IInv(a), NEW t \in Task, ext_tsk(t) PROVE IInv(a)'
<1> DEFINE u   == task_make_unready(k, t)
           w   == [u EXCEPT !.state[t] = "DMT"]
           out == task_make_dormant(u, t)
<1>1. /\ At(t, User) /\ ~Leaving(User)
      /\ runtsk' = NoTask /\ call' = call /\ event' = event
      /\ k' = IF k.actcnt[t] = 0 THEN out
              ELSE task_make_ready([out EXCEPT !.actcnt[t] = @ - 1], t)
  BY CallsApart DEF ext_tsk, Calls_
<1>2. /\ event = NoTask /\ k.state[t] = "RDY" /\ call[INIT_TASK] # Boot
      /\ Sound(k, a) /\ k \in KernelType /\ SchedInv(k) /\ WaitsInv(k, a)
      /\ k.state \in [Task -> States] /\ k.tskpri \in [Task -> Line]
      /\ k.tskwait \in [Task -> {"none", "SLP", "DLY"}]
      /\ k.wupcnt \in [Task -> 0..TMAX_ACTCNT] /\ k.suscnt \in [Task -> 0..TMAX_ACTCNT]
      /\ k.actcnt \in [Task -> 0..TMAX_ACTCNT]
      /\ t \notin ToSet(k.timerq) /\ IsInjective(k.timerq)
      /\ \A o \in Obj : t \notin ToSet(k.waitq[o])
  BY <1>1, Running, NotQueued DEF Sound, KernelType, WaitsInv, Waiting
<1>3. /\ w \in KernelType /\ SchedInv(w) /\ w.tskpri = k.tskpri
      /\ w.state = [k.state EXCEPT ![t] = "DMT"]
  <2>1. "DMT" \in States /\ "DMT" # "RDY"
    BY DEF States
  <2>2. /\ w \in KernelType /\ SchedInv(w)
        /\ w.state = [k.state EXCEPT ![t] = "DMT"] /\ w.tskpri = k.tskpri
    <3>1. k \in KernelType /\ SchedInv(k) /\ k.state[t] = "RDY"
      BY <1>2
    <3> HIDE DEF out
    <3> QED BY <2>1, <3>1, UnreadyFields
  <2> QED BY <2>2
<1>4. /\ u.rdyq = w.rdyq /\ u.schedtsk = w.schedtsk
      /\ u.state = k.state /\ u.tskpri = k.tskpri /\ u.itskpri = k.itskpri
      /\ u.tskwait = k.tskwait /\ u.wupcnt = k.wupcnt /\ u.suscnt = k.suscnt
      /\ u.waitq = k.waitq /\ u.timerq = k.timerq /\ u.actcnt = k.actcnt
  BY <1>2 DEF task_make_unready, KernelType
<1>5. u \in KernelType
  <2>1. u.rdyq \in RdyqType /\ u.schedtsk \in Task \union {NoTask}
    BY <1>3, <1>4 DEF KernelType
  <2> HIDE DEF w
  <2> QED BY <1>2, <2>1 DEF task_make_unready, KernelType
<1> HIDE DEF u, w
<1>6. /\ out \in KernelType
      /\ out.state = [u.state EXCEPT ![t] = "DMT"]
      /\ out.tskpri = [u.tskpri EXCEPT ![t] = u.itskpri[t]]
      /\ out.tskwait = [u.tskwait EXCEPT ![t] = "none"]
      /\ out.wupcnt = [u.wupcnt EXCEPT ![t] = 0]
      /\ out.suscnt = [u.suscnt EXCEPT ![t] = 0]
      /\ out.rdyq = u.rdyq /\ out.schedtsk = u.schedtsk
      /\ out.waitq = u.waitq /\ out.timerq = u.timerq /\ out.actcnt = u.actcnt
  BY <1>5, DormantFields
<1> HIDE DEF out
<1>7. /\ out \in KernelType
      /\ out.state = [k.state EXCEPT ![t] = "DMT"]
      /\ out.tskpri = [k.tskpri EXCEPT ![t] = k.itskpri[t]]
      /\ out.tskwait = [k.tskwait EXCEPT ![t] = "none"]
      /\ out.wupcnt = [k.wupcnt EXCEPT ![t] = 0]
      /\ out.suscnt = [k.suscnt EXCEPT ![t] = 0]
      /\ out.rdyq = w.rdyq /\ out.schedtsk = w.schedtsk
      /\ out.waitq = k.waitq /\ out.timerq = k.timerq /\ out.actcnt = k.actcnt
  BY <1>4, <1>6
<1>8. /\ out.state[t] = "DMT" /\ out.tskwait[t] = "none" /\ out.suscnt[t] = 0
      /\ \A y \in Task \ {t} :
           /\ out.state[y] = k.state[y] /\ out.tskpri[y] = k.tskpri[y]
           /\ out.tskwait[y] = k.tskwait[y] /\ out.wupcnt[y] = k.wupcnt[y]
           /\ out.suscnt[y] = k.suscnt[y]
  BY <1>2, <1>7
<1>9. SchedInv(out)
  <2>1. \A y \in Task : /\ out.state[y] = "RDY" <=> w.state[y] = "RDY"
                        /\ w.state[y] = "RDY" => out.tskpri[y] = w.tskpri[y]
    BY <1>2, <1>3, <1>8
  <2> QED BY <1>3, <1>7, <2>1, SchedFrame
<1>10. Sound(out, a)
  <2>1. MovesOnly(k, out, t)
    BY <1>2, <1>7, <1>8 DEF MovesOnly
  <2>2. WaitsInv(out, a)
    BY <1>2, <1>8, <2>1, WaitsFrame DEF Waiting, WaitOK
  <2> QED BY <1>7, <1>9, <2>2 DEF Sound
<1>11. Sound(k', a) /\ \E s \in {"DMT", "RDY"} : k'.state = [k.state EXCEPT ![t] = s]
  <2>1. CASE k.actcnt[t] = 0
    BY <2>1, <1>1, <1>7, <1>10
  <2>2. CASE k.actcnt[t] # 0
    <3> DEFINE c == out.actcnt[t] - 1
               l == [out EXCEPT !.actcnt[t] = c]
    <3>1. c \in 0..TMAX_ACTCNT /\ k' = task_make_ready(l, t)
      BY <2>2, <1>1, <1>2, <1>7, KernelAssumption
    <3> HIDE DEF c
    <3>2. /\ l \in KernelType /\ l.state = out.state /\ l.tskpri = out.tskpri
          /\ l.rdyq = out.rdyq /\ l.schedtsk = out.schedtsk
          /\ l.tskwait = out.tskwait /\ l.wupcnt = out.wupcnt
          /\ l.suscnt = out.suscnt /\ l.waitq = out.waitq
          /\ l.timerq = out.timerq
      BY <1>7, <3>1 DEF KernelType
    <3> HIDE DEF l
    <3>3. Sound(l, a) /\ l.state[t] = "DMT"
      BY <1>8, <1>10, <3>2, OtherFields
    <3>4. Sound(k', a) /\ k'.state = [out.state EXCEPT ![t] = "RDY"]
      BY <3>1, <3>2, <3>3, ReadySound
    <3>5. [out.state EXCEPT ![t] = "RDY"] = [k.state EXCEPT ![t] = "RDY"]
      BY <1>2, <1>7
    <3> QED BY <3>4, <3>5
  <2> QED BY <2>1, <2>2
<1>12. \A y \in Task : k.state[y] = "NOEXS" => k'.state[y] = "NOEXS"
  BY <1>2, <1>11
<1>13. Typed(a)' /\ RunInv'
  BY <1>1, <1>2, <1>11, ReadyQueueAssumption DEF IInv, Flow, Typed, RunInv, Sound
<1>14. CallInv'
  BY <1>1, <1>2, <1>12 DEF IInv, Flow, CallInv
<1> QED BY <1>11, <1>13, <1>14 DEF IInv, Flow

(* The timer interrupt begins, at the first event of timer_queue.          *)
LEMMA TimerEnterStep ==
  ASSUME NEW a, IInv(a), timer_enter PROVE IInv(a)'
<1>1. /\ event = NoTask /\ event' = kqueue_next(k.timerq)
      /\ k' = k /\ runtsk' = runtsk /\ call' = call
      /\ Typed(a) /\ Sound(k, a) /\ RunInv /\ CallInv /\ k.timerq \in Seq(Task)
  BY DEF timer_enter, irq_entry, IInv, Flow, Sound, KernelType
<1>2. event' = QueueHead \/ (event' \in ToSet(k.timerq) /\ event' \in Task)
  BY <1>1 DEF kqueue_next, kqueue_empty, ToSet
<1>3. event' # NoTask /\ QueueHead \notin Task
  BY <1>2, ReadyQueueAssumption, KernelAssumption
<1>4. Typed(a)' /\ RunInv'
  BY <1>1, <1>2, <1>3 DEF Typed, RunInv
<1>5. CallInv'
  BY <1>1 DEF CallInv
<1> QED BY <1>1, <1>4, <1>5 DEF IInv, Flow

(* A member of a list other than e stays when e is removed.                *)
LEMMA NextMember ==
  ASSUME NEW q, q \in Seq(Task), IsInjective(q), NEW e \in ToSet(q),
         Position(q, e) # Len(q)
  PROVE  q[Position(q, e) + 1] \in ToSet(q) \ {e}
<1> DEFINE i == Position(q, e)
<1>1. i \in 1..Len(q) /\ q[i] = e
  BY DEF Position, ToSet
<1> HIDE DEF i
<1>2. i + 1 \in 1..Len(q) /\ i + 1 # i
  BY <1>1 DEF i
<1>3. q[i + 1] # q[i]
  BY <1>1, <1>2 DEF IsInjective
<1> QED BY <1>1, <1>2, <1>3 DEF ToSet, i

(* A turn of timer_handler's loop: the event after this one, read before   *)
(* the callback, is still linked after it.                                 *)
LEMMA TimerStepStep ==
  ASSUME NEW a, IInv(a), timer_step PROVE IInv(a)'
<1> DEFINE e == event
           q == k.timerq
           n == (k.count[e] + RELTIM_MAX) % (RELTIM_MAX + 1)
           out == [k EXCEPT !.count[e] = n]
<1>1. /\ e \in Task /\ runtsk' = runtsk /\ call' = call
      /\ k' = IF n = 0 THEN wait_release_tmout(timer_delete(out, e), e) ELSE out
      /\ event' = IF Position(q, e) = Len(q) THEN QueueHead ELSE q[Position(q, e) + 1]
  BY DEF timer_step
<1>2. /\ Typed(a) /\ Sound(k, a) /\ RunInv /\ CallInv /\ k \in KernelType
      /\ k.state \in [Task -> States] /\ k.count \in [Task -> 0..RELTIM_MAX]
      /\ q \in Seq(Task) /\ IsInjective(q) /\ e \in ToSet(q) /\ k.state[e] \in Waiting
  BY <1>1 DEF IInv, Flow, RunInv, Sound, WaitsInv, KernelType
<1>3. n \in 0..RELTIM_MAX
  <2>1. /\ RELTIM_MAX + 1 \in Nat \ {0} /\ (RELTIM_MAX + 1) - 1 = RELTIM_MAX
        /\ k.count[e] + RELTIM_MAX \in Int
    <3>1. RELTIM_MAX \in Nat \ {0} /\ k.count[e] \in 0..RELTIM_MAX
      BY <1>1, <1>2, KernelAssumption
    <3> QED BY <3>1
  <2>2. n \in 0..((RELTIM_MAX + 1) - 1)
    BY <2>1, Remainder
  <2> QED BY <2>1, <2>2
<1>4. event' = QueueHead \/ event' \in ToSet(q) \ {e}
  BY <1>1, <1>2, NextMember
<1> HIDE DEF n
<1>5. /\ out \in KernelType /\ out.state = k.state /\ out.tskpri = k.tskpri
      /\ out.rdyq = k.rdyq /\ out.schedtsk = k.schedtsk
      /\ out.tskwait = k.tskwait /\ out.wupcnt = k.wupcnt
      /\ out.suscnt = k.suscnt /\ out.waitq = k.waitq /\ out.timerq = q
  BY <1>1, <1>2, <1>3 DEF KernelType
<1>6. n = 0 => k' = wait_release(out, e)
  BY <1>1 DEF wait_release_tmout, wait_release, wait_cancel
<1>7. n # 0 => k' = out
  BY <1>1
<1> HIDE DEF out, e
<1>8. Sound(out, a)
  BY <1>2, <1>5, OtherFields
<1>9. /\ Sound(k', a) /\ ToSet(q) \ {e} \subseteq ToSet(k'.timerq)
      /\ \A u \in Task : /\ k.state[u] = "RDY" => k'.state[u] = "RDY"
                         /\ k.state[u] = "NOEXS" => k'.state[u] = "NOEXS"
  <2>1. CASE n = 0
    <3>1. /\ Sound(k', a) /\ k'.timerq = kqueue_remove(q, e)
          /\ \E s \in {"RDY", "SUS"} : k'.state = [k.state EXCEPT ![e] = s]
      <4>1. /\ k' = wait_release(out, e) /\ e \in Task
            /\ Sound(out, a) /\ out.state[e] \in Waiting
        BY <2>1, <1>1, <1>2, <1>5, <1>6, <1>8
      <4>2. Sound(k', a) /\ Released(out, k', e)
        BY <4>1, WaitRelease
      <4> QED BY <4>2, <1>5 DEF Released
    <3>2. ToSet(kqueue_remove(q, e)) = ToSet(q) \ {e}
      BY <1>1, <1>2, RemoveMembers
    <3> QED BY <3>1, <3>2, <1>2 DEF Waiting
  <2>2. CASE n # 0
    BY <2>2, <1>5, <1>7, <1>8
  <2> QED BY <2>1, <2>2
<1>10. event' # NoTask /\ (event' \in Task => event' \in ToSet(k'.timerq))
  <2>1. ToSet(q) \subseteq Task
    BY <1>2 DEF ToSet
  <2> QED BY <2>1, <1>4, <1>9, ReadyQueueAssumption, KernelAssumption
<1>11. Typed(a)'
  <2>1. event' \in Task \union {QueueHead}
    BY <1>2, <1>4 DEF ToSet
  <2> QED BY <2>1, <1>1, <1>2, <1>9 DEF Typed, Sound
<1>12. RunInv'
  BY <1>1, <1>2, <1>9, <1>10 DEF RunInv, Typed
<1>13. call[INIT_TASK] # Boot
  BY <1>1, <1>2 DEF CallInv, Waiting
<1>14. CallInv'
  BY <1>1, <1>2, <1>9, <1>13 DEF CallInv
<1> QED BY <1>9, <1>11, <1>12, <1>14 DEF IInv, Flow

(* The timer interrupt ends.                                               *)
LEMMA TimerExitStep ==
  ASSUME NEW a, IInv(a), timer_exit PROVE IInv(a)'
<1>1. /\ event' = NoTask /\ k' = k /\ call' = call /\ irq_return
      /\ Sound(k, a) /\ call \in [Task -> a.calls]
  BY DEF timer_exit, IInv, Flow, Typed
<1> QED BY <1>1, IrqStep

-----------------------------------------------------------------------------
(* The theorems. *)

(* Every step of the kernel keeps the invariant.                           *)
LEMMA StepIInv ==
  ASSUME NEW a, IInv(a), WellBehaved, [Next]_vars PROVE IInv(a)'
<1>1. CASE UNCHANGED vars
  BY <1>1 DEF vars, IInv, Flow, Typed, Sound, RunInv, CallInv
<1>2. ASSUME NEW t \in Task, TaskStep(t) PROVE IInv(a)'
  <2>1. CASE dispatch(t)
    BY <2>1, DispatchInv
  <2>2. CASE rot_rdq(t)
    BY <2>2, RotateStep
  <2>3. CASE ext_tsk(t)
    BY <2>3, ExtStep
  <2>4. ASSUME NEW x \in Task,
               \/ cre_tsk_check(t, x)
               \/ \E p \in Line \union {TPRI_INI} : chg_pri_check(t, x, p)
        PROVE  IInv(a)'
    BY <2>4, CheckStep
  <2>5. ASSUME NEW x \in Task,
               \/ cre_tsk(t, x) \/ act_tsk(t, x) \/ del_tsk(t, x)
               \/ sus_tsk(t, x) \/ rsm_tsk(t, x)
               \/ wup_tsk(t, x) \/ can_wup(t, x)
        PROVE  IInv(a)'
    BY <2>5, CreStep, ActStep, DelStep, SusStep, RsmStep, WupStep, CanWupStep
  <2>6. ASSUME NEW x \in Task, NEW p \in Line \union {TPRI_INI}, chg_pri(t, x, p)
        PROVE  IInv(a)'
    BY <2>6, ChgPriStep
  <2>7. CASE \/ \E d \in Dly : dly_tsk(t, d)
             \/ \E tmo \in Tmo : __slp_tsk(t, tmo)
    BY <2>7, SleepStep
  <2> QED BY <1>2, <2>1, <2>2, <2>3, <2>4, <2>5, <2>6, <2>7 DEF TaskStep
<1>3. ASSUME NEW x \in Task, iact_tsk(x) \/ iwup_tsk(x) PROVE IInv(a)'
  BY <1>3, IactStep, IwupStep
<1>4. CASE main_cre \/ main_act
  BY <1>4, MainStep
<1>5. CASE dispatch_null
  BY <1>5, DispatchNullInv
<1>6. CASE Handler
  BY <1>6, TimerEnterStep, TimerStepStep, TimerExitStep DEF Handler
<1> QED BY <1>1, <1>2, <1>3, <1>4, <1>5, <1>6 DEF Next

(* The tasks of module Kernel wait for nothing but a wakeup or a time.     *)
Ctx == [calls  |-> Calls,
        member |-> [o \in Obj |-> {}],
        sorted |-> {},
        caused |-> TRUE]

(* The invariant holds in every reachable state.                           *)
LEMMA Invariance == ASSUME WellBehaved PROVE Spec => []IInv(Ctx)
<1>1. Init => IInv(Ctx)
  BY InitIInv DEF Ctx
<1>2. IInv(Ctx) /\ [Next]_vars => IInv(Ctx)'
  BY StepIInv
<1> QED BY <1>1, <1>2, PTL DEF Spec

(* Whatever order tasks, interrupts and the timer call task.c in, the      *)
(* ready queue is sound, it holds the READY tasks at their current         *)
(* priority, and schedtsk is its first task (rdyq.h, task.c).              *)
THEOREM KernelSchedOK == ASSUME WellBehaved PROVE Spec => []SchedOK
<1>1. IInv(Ctx) => SchedOK
  BY DEF IInv, Flow, Typed, Sound, SchedOK, TypeOK, Ctx
<1> QED BY <1>1, Invariance, PTL

(* A task waits exactly while something can end its wait, is suspended     *)
(* exactly while a suspension is in force, misses no wakeup, and the timer *)
(* interrupt never follows a pointer to an event that left timer_queue.    *)
THEOREM KernelWaitsExact == ASSUME WellBehaved PROVE Spec => []WaitsExact
<1>1. IInv(Ctx) => WaitsExact
  <2> SUFFICES ASSUME IInv(Ctx) PROVE WaitsExact
    OBVIOUS
  <2>1. /\ IsInjective(k.timerq) /\ \A t \in ToSet(k.timerq) : k.state[t] \in Waiting
        /\ \A o \in Obj : \A t \in ToSet(k.waitq[o]) : t \in {}
        /\ RunInv
    BY DEF IInv, Flow, Sound, WaitsInv, QueueOK, Ctx
  <2>2. \A t \in Exists :
          /\ k.tskwait[t] # "none" <=> k.state[t] \in Waiting
          /\ k.tskwait[t] = "SLP" => k.wupcnt[t] = 0
          /\ k.suscnt[t] > 0 <=> k.state[t] \in {"SUS", "WAS"}
    BY DEF IInv, Sound, WaitsInv, WaitOK, Ctx, Exists
  <2>3. BlockedHasCause
    <3>1. \A t \in Task : {o \in Obj : t \in ToSet(k.waitq[o])} = {}
      BY <2>1
    <3>2. Cardinality({}) = 0
      BY FS_EmptySet
    <3> QED BY <2>2, <3>1, <3>2 DEF BlockedHasCause, Exists
  <2>4. SuspensionCounted /\ NoLostWakeup
    BY <2>2 DEF SuspensionCounted, NoLostWakeup
  <2>5. TimerQueueExact
    BY <2>1 DEF TimerQueueExact, RunInv
  <2> QED BY <2>3, <2>4, <2>5 DEF WaitsExact
<1> QED BY <1>1, Invariance, PTL

(* The processor has the task the scheduler chose (dispatch() and the      *)
(* interrupt exit of the ports), at every point outside a call.            *)
THEOREM KernelRunsTheChosen == ASSUME WellBehaved PROVE Spec => []RunsTheChosen
<1>1. IInv(Ctx) => RunsTheChosen
  <2> SUFFICES ASSUME IInv(Ctx), runtsk # NoTask, call[runtsk] # Dispatch, event = NoTask
               PROVE  k.state[runtsk] = "RDY" /\ (Preemptive => runtsk = k.schedtsk)
    BY DEF RunsTheChosen
  <2>1. call[runtsk] \in Calls /\ RunInv
    BY DEF IInv, Flow, Typed, Ctx
  <2>2. ~Leaving(call[runtsk])
    BY <2>1, CallsApart DEF Calls
  <2> QED BY <2>1, <2>2 DEF RunInv
<1> QED BY <1>1, Invariance, PTL
-----------------------------------------------------------------------------
(* The kernel implements PriorityFifo. *)

(* Nothing happens to the lines when the ready queue stays as it is.       *)
LEMMA SameLines == ASSUME k'.rdyq = k.rdyq PROVE Policy(k, k')
BY DEF Policy, PolicyStep

(* del_tsk: a READY task leaves, and others are in no line.                *)
LEMMA DelPolicy ==
  ASSUME NEW a, IInv(a), NEW t \in Task, NEW x \in Task, del_tsk(t, x) PROVE Policy(k, k')
<1> DEFINE o == CASE k.state[x] \in Waiting -> wait_cancel(k, x)
                  [] k.state[x] = "RDY"     -> task_make_unready(k, x)
                  [] OTHER                  -> k
<1>1. k' = [o EXCEPT !.state[x] = "NOEXS", !.actcnt[x] = 0]
  BY DEF del_tsk
<1>2. k \in KernelType /\ SchedInv(k) /\ WaitsInv(k, a)
  BY DEF IInv, Sound
<1> HIDE DEF o
<1>3. CASE k.state[x] \in Waiting
  <2>1. o = [k EXCEPT !.timerq = kqueue_remove(k.timerq, x),
                      !.waitq = Without(k.waitq, x)]
    BY <1>2, <1>3, WaitCancel DEF o, Waiting, WaitsInv
  <2> QED BY <1>1, <1>2, <2>1, SameLines DEF KernelType
<1>4. CASE k.state[x] = "RDY"
  <2>1. o = task_make_unready(k, x) /\ Policy(k, o)
    BY <1>2, <1>4, UnreadyPolicy DEF o, Waiting
  <2>2. k'.rdyq = o.rdyq
    BY <1>1, <1>2, <2>1 DEF task_make_unready, KernelType
  <2> QED BY <2>1, <2>2 DEF Policy
<1>5. CASE k.state[x] \notin Waiting /\ k.state[x] # "RDY"
  <2>1. o = k
    BY <1>5 DEF o
  <2> QED BY <1>1, <1>2, <2>1, SameLines DEF KernelType
<1> QED BY <1>3, <1>4, <1>5

(* sus_tsk and rsm_tsk: a READY task leaves, a SUSPENDED one arrives.      *)
LEMMA SuspendPolicy ==
  ASSUME NEW a, IInv(a), NEW t \in Task, NEW x \in Task, sus_tsk(t, x) \/ rsm_tsk(t, x)
  PROVE  Policy(k, k')
<1>1. k \in KernelType /\ SchedInv(k)
  BY DEF IInv, Sound
<1>2. CASE sus_tsk(t, x)
  <2> DEFINE w == IF k.state[x] = "RDY"
                  THEN [task_make_unready(k, x) EXCEPT !.state[x] = "SUS"]
                  ELSE [k EXCEPT !.state[x] = "WAS"]
  <2>1. k' = k \/ k' = [w EXCEPT !.suscnt[x] = @ + 1]
    BY <1>2 DEF sus_tsk
  <2>2. Policy(k, w) /\ [w EXCEPT !.suscnt[x] = @ + 1].rdyq = w.rdyq
    <3>1. CASE k.state[x] = "RDY"
      <4>1. Policy(k, w)
        BY <1>1, <3>1, UnreadyPolicy
      <4>2. [w EXCEPT !.suscnt[x] = @ + 1].rdyq = w.rdyq
        BY <1>1, <3>1 DEF task_make_unready, KernelType
      <4> QED BY <4>1, <4>2
    <3>2. CASE k.state[x] # "RDY"
      BY <1>1, <3>2 DEF KernelType, Policy, PolicyStep
    <3> QED BY <3>1, <3>2
  <2> HIDE DEF w
  <2>3. k'.rdyq = k.rdyq \/ k'.rdyq = w.rdyq
    BY <2>1, <2>2
  <2> QED BY <2>2, <2>3, SameLines DEF Policy
<1>3. CASE rsm_tsk(t, x)
  <2> DEFINE out == [k EXCEPT !.suscnt[x] = @ - 1]
  <2>1. /\ out.state = k.state /\ out.tskpri = k.tskpri /\ out.rdyq = k.rdyq
        /\ out.schedtsk = k.schedtsk
        /\ [out EXCEPT !.state[x] = "WAI"].rdyq = k.rdyq
    BY <1>1 DEF KernelType
  <2>2. \/ k'.rdyq = k.rdyq
        \/ k' = task_make_ready(out, x) /\ k.state[x] = "SUS"
    BY <1>3, <2>1 DEF rsm_tsk
  <2>3. CASE k' = task_make_ready(out, x) /\ k.state[x] = "SUS"
    <3>1. k'.rdyq = rdyq_insert(k.rdyq, x, k.tskpri[x])
      BY <1>1, <2>1, <2>3 DEF task_make_ready, KernelType
    <3>2. task_make_ready(k, x).rdyq = rdyq_insert(k.rdyq, x, k.tskpri[x])
      BY <1>1 DEF task_make_ready, KernelType
    <3>3. Policy(k, task_make_ready(k, x))
      BY <1>1, <2>3, ReadyPolicy
    <3> QED BY <3>1, <3>2, <3>3 DEF Policy
  <2> QED BY <2>2, <2>3, SameLines
<1> QED BY <1>2, <1>3

(* dly_tsk and slp_tsk: the caller leaves, or goes on.                     *)
LEMMA SleepPolicy ==
  ASSUME NEW a, IInv(a), NEW t \in Task,
         \/ \E d \in Dly : dly_tsk(t, d)
         \/ \E tmo \in Tmo : __slp_tsk(t, tmo)
  PROVE  Policy(k, k')
<1>1. At(t, User) /\ ~Leaving(User)
  BY CallsApart DEF dly_tsk, __slp_tsk, Calls_
<1>2. /\ k.state[t] = "RDY" /\ Sound(k, a) /\ k \in KernelType
      /\ k.wupcnt \in [Task -> 0..TMAX_ACTCNT]
  BY <1>1, Running DEF Sound, KernelType
<1>3. ASSUME NEW d \in Dly, dly_tsk(t, d) PROVE Policy(k, k')
  <2> DEFINE l == [k EXCEPT !.ercd[t] = "E_OK", !.tskwait[t] = "DLY"]
             c == "DLY"
  <2>1. k' = make_wait(l, t, as_TMO(d)) /\ as_TMO(d) \in Int
    BY <1>3, KernelAssumption DEF dly_tsk, as_TMO
  <2>2. Reasons(k, l, t, c) /\ c \in {"SLP", "DLY"} /\ c # "SLP"
    BY <1>2 DEF Reasons, KernelType
  <2> HIDE DEF l, c
  <2>3. MadeWait(a, k, l, k', t)
    BY <1>2, <2>1, <2>2, MakeWaitSound
  <2> QED BY <2>3 DEF MadeWait
<1>4. ASSUME NEW tmo \in Tmo, __slp_tsk(t, tmo) PROVE Policy(k, k')
  <2>1. CASE k.wupcnt[t] = 0 /\ tmo # TMO_POL
    <3> DEFINE l == [k EXCEPT !.ercd[t] = "E_TMOUT", !.tskwait[t] = "SLP"]
               c == "SLP"
    <3>1. k' = make_wait(l, t, tmo) /\ tmo \in Int
      BY <1>2, <1>4, <2>1, KernelAssumption DEF __slp_tsk
    <3>2. Reasons(k, l, t, c) /\ c \in {"SLP", "DLY"} /\ k.wupcnt[t] = 0
      BY <1>2, <2>1 DEF Reasons, KernelType
    <3> HIDE DEF l, c
    <3>3. MadeWait(a, k, l, k', t)
      BY <1>2, <3>1, <3>2, MakeWaitSound
    <3> QED BY <3>3 DEF MadeWait
  <2>2. CASE ~(k.wupcnt[t] = 0 /\ tmo # TMO_POL)
    <3>1. k.wupcnt[t] > 0 \/ (k.wupcnt[t] = 0 /\ tmo = TMO_POL)
      BY <1>2, <2>2, KernelAssumption
    <3>2. k'.rdyq = k.rdyq
      BY <1>2, <1>4, <3>1 DEF __slp_tsk, KernelType
    <3> QED BY <3>2, SameLines
  <2> QED BY <2>1, <2>2
<1> QED BY <1>3, <1>4

(* ext_tsk: the task leaves; if activations are queued it arrives again,   *)
(* at its initial priority, in the same step.                              *)
LEMMA ExtPolicy ==
  ASSUME NEW a, IInv(a), NEW t \in Task, ext_tsk(t) PROVE Policy(k, k')
<1> DEFINE u   == task_make_unready(k, t)
           out == task_make_dormant(u, t)
           p   == k.tskpri[t]
           q   == k.itskpri[t]
           rq  == rdyq_remove(k.rdyq, t, p)
<1>1. At(t, User) /\ ~Leaving(User)
  BY CallsApart DEF ext_tsk, Calls_
<1>2. /\ k.state[t] = "RDY" /\ k \in KernelType /\ SchedInv(k) /\ SchedFields(k)
      /\ q \in Line
  BY <1>1, Running, HasSchedFields DEF Sound, KernelType
<1>3. u.rdyq = rq /\ u.itskpri = k.itskpri /\ u.tskpri = k.tskpri
  BY <1>2 DEF task_make_unready, KernelType
<1>4. out.rdyq = rq /\ out.tskpri[t] = q
  BY <1>2 DEF task_make_dormant, task_make_unready, KernelType
<1>5. \/ k'.rdyq = rq
      \/ k'.rdyq = rdyq_insert(rq, t, q)
  <2>1. CASE k.actcnt[t] = 0
    BY <1>4, <2>1 DEF ext_tsk
  <2>2. CASE k.actcnt[t] # 0
    <3> DEFINE l == [out EXCEPT !.actcnt[t] = @ - 1]
    <3>1. k' = task_make_ready(l, t)
      BY <2>2 DEF ext_tsk
    <3>2. l.rdyq = rq /\ l.tskpri[t] = q
      BY <1>2 DEF task_make_dormant, task_make_unready, KernelType
    <3>3. task_make_ready(l, t).rdyq = rdyq_insert(l.rdyq, t, l.tskpri[t])
      BY <1>2 DEF task_make_ready, task_make_dormant, task_make_unready, KernelType
    <3> HIDE DEF l
    <3> QED BY <3>1, <3>2, <3>3
  <2> QED BY <2>1, <2>2
<1> HIDE DEF u, out
<1>6. p \in Line /\ t \in ToSet(k.rdyq.priq[p]) /\ RdyqInv(k.rdyq)
  BY <1>2, ReadyLinked
<1> HIDE DEF p, q
<1>7. PICK i \in 1..Len(k.rdyq.priq[p]) :
        /\ k.rdyq.priq[p][i] = t
        /\ rq.priq = [k.rdyq.priq EXCEPT ![p] = RemoveAt(@, i)]
  BY <1>6, LeavesLine
<1> HIDE DEF rq
<1>8. CASE k'.rdyq = rq
  BY <1>6, <1>7, <1>8 DEF Policy, PolicyStep, Leaves
<1>9. CASE k'.rdyq = rdyq_insert(rq, t, q)
  <2>1. k'.rdyq.priq =
          [[k.rdyq.priq EXCEPT ![p] = RemoveAt(@, i)] EXCEPT ![q] = Append(@, t)]
    BY <1>7, <1>9 DEF rdyq_insert, kqueue_insert
  <2>2. Moves(k.rdyq.priq, k'.rdyq.priq, t, q)
    BY <1>6, <1>7, <2>1 DEF Moves
  <2> QED BY <1>2, <2>2 DEF Policy, PolicyStep
<1> QED BY <1>5, <1>8, <1>9

(* chg_pri, of the calling task, which is READY.                           *)
LEMMA ChgPriPolicy ==
  ASSUME NEW a, IInv(a), NEW t \in Task, NEW x \in Task, NEW p \in Line \union {TPRI_INI},
         chg_pri(t, x, p)
  PROVE  Policy(k, k')
<1> DEFINE c == <<"chg_pri", x, p>>
           q == IF p = TPRI_INI THEN k.itskpri[x] ELSE p
<1>1. At(t, c) /\ ~Leaving(c) /\ k' = task_change_pri(k, x, q)
  BY CallsApart DEF chg_pri
<1>2. /\ call[t] = c /\ k.state[t] = "RDY"
      /\ SchedInv(k) /\ SchedFields(k) /\ k.itskpri \in [Task -> Line]
  BY <1>1, Running, HasSchedFields DEF Sound, KernelType
<1>3. x = t /\ q \in Line
  BY <1>2 DEF IInv, Flow, CallInv
<1> HIDE DEF c, q
<1>4. Moves(k.rdyq.priq, k'.rdyq.priq, t, q)
  BY <1>1, <1>2, <1>3, ChangePriLines
<1> QED BY <1>3, <1>4 DEF Policy, PolicyStep

(* rot_rdq, of any line.                                                   *)
LEMMA RotatePolicy ==
  ASSUME NEW a, IInv(a), NEW t \in Task, rot_rdq(t) PROVE Policy(k, k')
<1>1. SchedInv(k) /\ SchedFields(k)
  BY HasSchedFields DEF IInv, Sound
<1>2. k' = k \/ \E p \in Line : k' = rdyq_rotate_at(k, p)
  BY <1>1, RdyqTop DEF rot_rdq, rdyq_rotate_current, SchedInv
<1>3. ASSUME NEW p \in Line, k' = rdyq_rotate_at(k, p) PROVE Policy(k, k')
  BY <1>1, <1>3, RotateLines DEF Policy
<1> QED BY <1>2, <1>3, SameLines

(* A turn of timer_handler: the task whose time is over arrives.           *)
LEMMA TimerPolicy ==
  ASSUME NEW a, IInv(a), timer_step PROVE Policy(k, k')
<1> DEFINE e == event
           n == (k.count[e] + RELTIM_MAX) % (RELTIM_MAX + 1)
           out == [k EXCEPT !.count[e] = n]
<1>1. /\ e \in Task
      /\ k' = IF n = 0 THEN wait_release_tmout(timer_delete(out, e), e) ELSE out
  BY DEF timer_step
<1>2. /\ Sound(k, a) /\ k \in KernelType /\ k.state[e] \in Waiting
      /\ k.count \in [Task -> 0..RELTIM_MAX]
  BY <1>1 DEF IInv, Flow, RunInv, Sound, WaitsInv, KernelType
<1>3. n \in 0..RELTIM_MAX
  <2>1. /\ RELTIM_MAX + 1 \in Nat \ {0} /\ (RELTIM_MAX + 1) - 1 = RELTIM_MAX
        /\ k.count[e] + RELTIM_MAX \in Int
    <3>1. RELTIM_MAX \in Nat \ {0} /\ k.count[e] \in 0..RELTIM_MAX
      BY <1>1, <1>2, KernelAssumption
    <3> QED BY <3>1
  <2>2. n \in 0..((RELTIM_MAX + 1) - 1)
    BY <2>1, Remainder
  <2> QED BY <2>1, <2>2
<1> HIDE DEF n
<1>4. /\ out \in KernelType /\ out.state = k.state /\ out.tskpri = k.tskpri
      /\ out.rdyq = k.rdyq /\ out.schedtsk = k.schedtsk
      /\ out.tskwait = k.tskwait /\ out.wupcnt = k.wupcnt
      /\ out.suscnt = k.suscnt /\ out.waitq = k.waitq /\ out.timerq = k.timerq
  BY <1>1, <1>2, <1>3 DEF KernelType
<1>5. n = 0 => k' = wait_release(out, e)
  BY <1>1 DEF wait_release_tmout, wait_release, wait_cancel
<1>6. n # 0 => k' = out
  BY <1>1
<1> HIDE DEF out, e
<1>7. Sound(out, a) /\ out.state[e] \in Waiting
  BY <1>2, <1>4, OtherFields
<1>8. CASE n = 0
  <2>1. k' = wait_release(out, e) /\ e \in Task
    BY <1>1, <1>5, <1>8
  <2>2. Policy(out, k')
    BY <1>7, <2>1, WaitRelease
  <2> QED BY <1>4, <2>2 DEF Policy
<1>9. CASE n # 0
  BY <1>4, <1>6, <1>9, SameLines
<1> QED BY <1>8, <1>9

(* Every step of the kernel does to the lines what the policy allows.      *)
LEMMA StepPolicy ==
  ASSUME NEW a, IInv(a), WellBehaved, [Next]_vars PROVE Policy(k, k')
<1>1. /\ Sound(k, a) /\ call \in [Task -> a.calls] /\ INIT_TASK \in Task
      /\ Calls \subseteq a.calls
  BY KernelAssumption DEF IInv, Flow, Typed
<1>2. ASSUME k' = k PROVE Policy(k, k')
  BY <1>2, SameLines
<1>3. ASSUME NEW t \in Task, TaskStep(t) PROVE Policy(k, k')
  <2>1. CASE dispatch(t)
    BY <2>1, <1>2 DEF dispatch
  <2>2. CASE rot_rdq(t) \/ ext_tsk(t)
    BY <2>2, RotatePolicy, ExtPolicy
  <2>3. ASSUME NEW x \in Task,
               \/ cre_tsk_check(t, x)
               \/ \E p \in Line \union {TPRI_INI} : chg_pri_check(t, x, p)
        PROVE  Policy(k, k')
    BY <2>3, <1>2 DEF cre_tsk_check, chg_pri_check
  <2>4. ASSUME NEW x \in Task, cre_tsk(t, x) PROVE Policy(k, k')
    <3> DEFINE c == <<"cre_tsk", x>>
    <3>1. At(t, c) /\ ~Leaving(c) /\ k' = create(x)
      BY <2>4, CallsApart DEF cre_tsk
    <3>2. call[t] = c
      BY <3>1, Running
    <3>3. k.state[x] = "NOEXS"
      BY <3>2 DEF IInv, Flow, CallInv
    <3> QED BY <1>1, <3>1, <3>3, CreateSound, SameLines
  <2>5. ASSUME NEW x \in Task, act_tsk(t, x) PROVE Policy(k, k')
    <3> DEFINE c == [call EXCEPT ![t] = Dispatch]
    <3>1. _act_tsk(x, c) /\ c \in [Task -> a.calls]
      BY <1>1, <2>5 DEF act_tsk, Calls
    <3> QED BY <1>1, <3>1, ActSound
  <2>6. ASSUME NEW x \in Task, del_tsk(t, x) \/ sus_tsk(t, x) \/ rsm_tsk(t, x)
        PROVE  Policy(k, k')
    BY <2>6, DelPolicy, SuspendPolicy
  <2>7. ASSUME NEW x \in Task, wup_tsk(t, x) PROVE Policy(k, k')
    BY <1>1, <2>7, WupSound DEF wup_tsk
  <2>8. ASSUME NEW x \in Task, can_wup(t, x) PROVE Policy(k, k')
    <3>1. k'.rdyq = k.rdyq
      BY <1>1, <2>8 DEF can_wup, Sound, KernelType
    <3> QED BY <3>1, SameLines
  <2>9. ASSUME NEW x \in Task, NEW p \in Line \union {TPRI_INI}, chg_pri(t, x, p)
        PROVE  Policy(k, k')
    BY <2>9, ChgPriPolicy
  <2>10. CASE \/ \E d \in Dly : dly_tsk(t, d)
              \/ \E tmo \in Tmo : __slp_tsk(t, tmo)
    BY <2>10, SleepPolicy
  <2> QED BY <1>3, <2>1, <2>2, <2>3, <2>4, <2>5, <2>6, <2>7, <2>8, <2>9, <2>10 DEF TaskStep
<1>4. ASSUME NEW x \in Task, iact_tsk(x) PROVE Policy(k, k')
  BY <1>1, <1>4, ActSound DEF iact_tsk
<1>5. ASSUME NEW x \in Task, iwup_tsk(x) PROVE Policy(k, k')
  BY <1>1, <1>5, WupSound DEF iwup_tsk
<1>6. CASE main_cre
  <2>1. k' = create(INIT_TASK) /\ k.state[INIT_TASK] = "NOEXS"
    BY <1>6 DEF main_cre
  <2> QED BY <1>1, <2>1, CreateSound, SameLines
<1>7. CASE main_act
  BY <1>1, <1>7, ActSound DEF main_act
<1>8. CASE dispatch_null \/ timer_enter \/ timer_exit
  BY <1>2, <1>8 DEF dispatch_null, timer_enter, timer_exit
<1>9. CASE timer_step
  BY <1>9, TimerPolicy
<1>10. CASE UNCHANGED vars
  BY <1>2, <1>10 DEF vars
<1> QED BY <1>3, <1>4, <1>5, <1>6, <1>7, <1>8, <1>9, <1>10 DEF Next, Handler

(* What the policy allows is a step of PriorityFifo: schedtsk, which the   *)
(* invariant ties to the lines, is its choice.                             *)
LEMMA StepImplements ==
  ASSUME NEW a, IInv(a), IInv(a)', Policy(k, k') PROVE [Fifo!Next]_(Fifo!vars)
<1> DEFINE l == k.rdyq.priq
           m == k'.rdyq.priq
<1>1. PolicyStep(l, m)
  BY DEF Policy
<1>2. k.schedtsk = Fifo!Choice(l) /\ k'.schedtsk = Fifo!Choice(m)
  BY TopIsFirst DEF IInv, Sound, SchedInv, Fifo!Choice
<1> HIDE DEF l, m
<1>3. CASE m = l
  BY <1>2, <1>3 DEF Fifo!vars, l, m
<1>4. ASSUME NEW t \in Task, NEW p \in Line, Arrives(l, m, t, p) PROVE Fifo!Next
  BY <1>2, <1>4 DEF Arrives, Fifo!Next, Fifo!Arrive, Fifo!Ready, Fifo!ToSet, ToSet, l, m
<1>5. ASSUME NEW t \in Task, NEW p \in Line, Moves(l, m, t, p) PROVE Fifo!Next
  <2>1. Fifo!Move(t, p)
    BY <1>5 DEF Moves, Fifo!Move, Fifo!RemoveAt, RemoveAt, l, m
  <2> QED BY <1>2, <2>1 DEF Fifo!Next, l, m
<1>6. ASSUME NEW t \in Task, Leaves(l, m, t) PROVE Fifo!Next
  <2>1. Fifo!Leave(t)
    BY <1>6 DEF Leaves, Fifo!Leave, Fifo!RemoveAt, RemoveAt, l, m
  <2> QED BY <1>2, <2>1 DEF Fifo!Next, l, m
<1>7. ASSUME NEW p \in Line, GivesWay(l, m, p) PROVE Fifo!Next
  BY <1>2, <1>7 DEF GivesWay, Fifo!Next, Fifo!GiveWay, l, m
<1> QED BY <1>1, <1>3, <1>4, <1>5, <1>6, <1>7 DEF PolicyStep

(* The kernel as a whole schedules tasks by priority and, within one, in   *)
(* the order they became ready: every service call, interrupt and timeout  *)
(* is one step of PriorityFifo or none (task.c and all that calls it).     *)
THEOREM KernelImplementsFifo == ASSUME WellBehaved PROVE Spec => FifoSpec
<1>1. Init => Fifo!Init
  BY DEF Init, task_initialize, rdyq_init, Fifo!Init
<1>2. IInv(Ctx) /\ IInv(Ctx)' /\ [Next]_vars => [Fifo!Next]_(Fifo!vars)
  BY StepPolicy, StepImplements
<1> QED BY <1>1, <1>2, Invariance, PTL DEF Spec, FifoSpec, Fifo!Spec

-----------------------------------------------------------------------------
(* What the modules of semaphores, event flags and mailboxes use of this   *)
(* one: a queue that a task joins or leaves, and what becomes of a task    *)
(* inside a call that Kernel has no action for.                            *)

(* kqueue_find_pri stops at the first member of a lower precedence.        *)
LEMMA FindPri ==
  ASSUME NEW S, NEW q \in Seq(S), NEW pri \in [S -> Int], NEW p \in Int
  PROVE  LET i == kqueue_find_pri(q, pri, p)
         IN  /\ i \in 1..(Len(q) + 1)
             /\ i <= Len(q) => pri[q[i]] > p
             /\ \A j \in 1..(i - 1) : pri[q[j]] <= p
<1> DEFINE low == {i \in 1..Len(q) : pri[q[i]] > p}
           P(i) == /\ i <= Len(q) => pri[q[i]] > p
                   /\ \A j \in 1..(i - 1) : pri[q[j]] <= p
<1>1. \A i \in 1..Len(q) : pri[q[i]] \in Int
  OBVIOUS
<1>2. \E i \in 1..(Len(q) + 1) : P(i)
  <2>1. CASE low = {}
    <3>1. P(Len(q) + 1)
      BY <1>1, <2>1
    <3> QED BY <3>1
  <2>2. CASE low # {}
    <3>1. low \in SUBSET Nat
      OBVIOUS
    <3>2. PICK m \in low : \A x \in low : m <= x
      BY <2>2, <3>1, NatMin
    <3>3. P(m)
      BY <1>1, <3>2
    <3> QED BY <3>2, <3>3
  <2> QED BY <2>1, <2>2
<1> QED BY <1>2 DEF kqueue_find_pri

(* A new member between the first ones and the others.                     *)
LEMMA InsertPlace ==
  ASSUME NEW S, NEW q \in Seq(S), NEW e \in S, NEW i \in 1..(Len(q) + 1)
  PROVE  /\ InsertAt(q, i, e) \in Seq(S)
         /\ Len(InsertAt(q, i, e)) = Len(q) + 1
         /\ \A j \in 1..(Len(q) + 1) :
              InsertAt(q, i, e)[j] = IF j < i THEN q[j] ELSE IF j = i THEN e ELSE q[j - 1]
<1> DEFINE u == SubSeq(q, 1, i - 1)
           v == SubSeq(q, i, Len(q))
           w == u \o <<e>>
           r == w \o v
<1>1. /\ u \in Seq(S) /\ Len(u) = i - 1
      /\ \A j \in 1..(i - 1) : u[j] = q[j]
  BY SubSeqProperties
<1>2. /\ v \in Seq(S) /\ Len(v) = Len(q) + 1 - i
      /\ \A j \in 1..(Len(q) + 1 - i) : v[j] = q[i + j - 1]
  BY SubSeqProperties
<1>3. InsertAt(q, i, e) = r
  BY DEF InsertAt
<1> HIDE DEF u, v
<1>4. /\ <<e>> \in Seq(S) /\ Len(<<e>>) = 1 /\ <<e>>[1] = e
  OBVIOUS
<1>5. /\ w \in Seq(S) /\ Len(w) = i
      /\ \A j \in 1..i : w[j] = IF j < i THEN q[j] ELSE e
  <2>1. /\ w \in Seq(S) /\ Len(w) = Len(u) + 1
        /\ \A j \in 1..(Len(u) + 1) :
             w[j] = IF j <= Len(u) THEN u[j] ELSE <<e>>[j - Len(u)]
    BY <1>1, <1>4, ConcatProperties
  <2> HIDE DEF w
  <2> QED BY <1>1, <1>4, <2>1
<1> HIDE DEF w
<1>6. /\ r \in Seq(S) /\ Len(r) = Len(w) + Len(v)
      /\ \A j \in 1..(Len(w) + Len(v)) :
           r[j] = IF j <= Len(w) THEN w[j] ELSE v[j - Len(w)]
  BY <1>2, <1>5, ConcatProperties
<1> HIDE DEF r
<1>7. Len(r) = Len(q) + 1
  BY <1>2, <1>5, <1>6
<1>8. ASSUME NEW j \in 1..(Len(q) + 1)
      PROVE  r[j] = IF j < i THEN q[j] ELSE IF j = i THEN e ELSE q[j - 1]
  <2>1. CASE j <= i
    BY <2>1, <1>2, <1>5, <1>6
  <2>2. CASE j > i
    <3>1. j - i \in 1..(Len(q) + 1 - i) /\ i + (j - i) - 1 = j - 1
      BY <2>2
    <3>2. r[j] = v[j - i]
      BY <2>2, <1>2, <1>5, <1>6
    <3>3. v[j - i] = q[i + (j - i) - 1]
      BY <3>1, <1>2
    <3> QED BY <2>2, <3>1, <3>2, <3>3
  <2> QED BY <2>1, <2>2
<1> QED BY <1>3, <1>6, <1>7, <1>8

(* kqueue_insert_pri keeps a queue in order.                               *)
LEMMA InsertPri ==
  ASSUME NEW S, NEW q \in Seq(S), NEW e \in S, IsInjective(q), e \notin ToSet(q),
         NEW pri \in [S -> Int], InOrder(q, pri)
  PROVE  /\ kqueue_insert_pri(q, e, pri) \in Seq(S)
         /\ IsInjective(kqueue_insert_pri(q, e, pri))
         /\ ToSet(kqueue_insert_pri(q, e, pri)) = ToSet(q) \union {e}
         /\ InOrder(kqueue_insert_pri(q, e, pri), pri)
<1> DEFINE i == kqueue_find_pri(q, pri, pri[e])
           r == InsertAt(q, i, e)
<1>1. /\ i \in 1..(Len(q) + 1)
      /\ i <= Len(q) => pri[q[i]] > pri[e]
      /\ \A j \in 1..(i - 1) : pri[q[j]] <= pri[e]
  BY FindPri
<1> HIDE DEF i
<1>2. /\ r \in Seq(S) /\ Len(r) = Len(q) + 1
      /\ \A j \in 1..(Len(q) + 1) :
           r[j] = IF j < i THEN q[j] ELSE IF j = i THEN e ELSE q[j - 1]
  BY <1>1, InsertPlace
<1> HIDE DEF r
<1>3. /\ \A j, m \in 1..Len(q) : q[j] = q[m] => j = m
      /\ \A j \in 1..Len(q) : q[j] # e /\ q[j] \in S /\ pri[q[j]] \in Int
      /\ \A j, m \in 1..Len(q) : j < m => pri[q[j]] <= pri[q[m]]
      /\ ToSet(q) = {q[j] : j \in 1..Len(q)}
      /\ pri[e] \in Int /\ DOMAIN r = 1..(Len(q) + 1)
  <2>1. DOMAIN q = 1..Len(q) /\ DOMAIN r = 1..(Len(q) + 1) /\ Len(q) \in Nat
    BY <1>2
  <2>2. \A j \in 1..Len(q) : q[j] \in S /\ q[j] \in ToSet(q)
    BY <2>1 DEF ToSet
  <2>3. ToSet(q) = {q[j] : j \in 1..Len(q)}
    BY <2>1 DEF ToSet
  <2>4. \A j, m \in 1..Len(q) : q[j] = q[m] => j = m
    BY <2>1 DEF IsInjective
  <2>5. \A j, m \in 1..Len(q) : j < m => pri[q[j]] <= pri[q[m]]
    BY <2>1 DEF InOrder
  <2> QED BY <2>1, <2>2, <2>3, <2>4, <2>5
<1> DEFINE f(j) == IF j < i THEN j ELSE j - 1
           R == 1..(Len(q) + 1)
<1>4. \A j \in R : j # i => f(j) \in 1..Len(q) /\ r[j] = q[f(j)]
  BY <1>1, <1>2
<1>5. \A j, m \in R : j # i /\ m # i /\ j < m => f(j) < f(m)
  BY <1>1
<1>6. i \in R /\ r[i] = e /\ R \subseteq Int
  BY <1>1, <1>2
<1>7. \A j \in 1..Len(q) : \E m \in R : m # i /\ f(m) = j
  <2> SUFFICES ASSUME NEW j \in 1..Len(q) PROVE \E m \in R : m # i /\ f(m) = j
    OBVIOUS
  <2>1. CASE j < i
    <3>1. j \in R /\ j # i /\ f(j) = j
      BY <2>1, <1>1
    <3> QED BY <3>1
  <2>2. CASE j >= i
    <3>1. j + 1 \in R /\ j + 1 # i /\ f(j + 1) = j
      BY <2>2, <1>1
    <3> QED BY <3>1
  <2> QED BY <2>1, <2>2, <1>1
<1>8. /\ \A j \in R : j < i => pri[q[f(j)]] <= pri[e]
      /\ \A j \in R : i < j => pri[e] <= pri[q[f(j)]]
  <2>1. ASSUME NEW j \in R, j < i PROVE pri[q[f(j)]] <= pri[e]
    BY <2>1, <1>1
  <2>2. ASSUME NEW j \in R, i < j PROVE pri[e] <= pri[q[f(j)]]
    <3>1. f(j) \in 1..Len(q) /\ i <= f(j) /\ i \in 1..Len(q)
      BY <2>2, <1>1
    <3> HIDE DEF f
    <3>2. pri[e] < pri[q[i]] /\ pri[q[i]] \in Int /\ pri[q[f(j)]] \in Int
      BY <3>1, <1>1, <1>3
    <3>3. pri[q[i]] <= pri[q[f(j)]]
      BY <3>1, <3>2, <1>3
    <3> QED BY <3>2, <3>3, <1>3
  <2> QED BY <2>1, <2>2
<1> HIDE DEF f, R
<1>9. IsInjective(r)
  <2> SUFFICES ASSUME NEW j \in R, NEW m \in R, r[j] = r[m]
               PROVE  j = m
    BY <1>3 DEF IsInjective, R
  <2>1. CASE j # i /\ m # i
    <3>1. f(j) = f(m)
      BY <2>1, <1>3, <1>4
    <3> QED BY <2>1, <3>1, <1>3, <1>4, <1>5, <1>6
  <2>2. CASE j = i \/ m = i
    BY <2>2, <1>3, <1>4, <1>6
  <2> QED BY <2>1, <2>2
<1>10. ToSet(r) = ToSet(q) \union {e}
  <2>1. ToSet(r) = {r[j] : j \in R}
    BY <1>3 DEF ToSet, R
  <2>2. ASSUME NEW j \in R PROVE r[j] \in ToSet(q) \union {e}
    BY <1>3, <1>4, <1>6
  <2>3. ASSUME NEW j \in 1..Len(q) PROVE q[j] \in ToSet(r)
    BY <1>4, <1>7, <2>1
  <2>4. ToSet(r) \subseteq ToSet(q) \union {e}
    BY <2>1, <2>2
  <2>5. ToSet(q) \subseteq ToSet(r) /\ e \in ToSet(r)
    BY <1>3, <1>6, <2>1, <2>3
  <2> QED BY <2>4, <2>5
<1>11. InOrder(r, pri)
  <2> SUFFICES ASSUME NEW j \in R, NEW m \in R, j < m
               PROVE  pri[r[j]] <= pri[r[m]]
    BY <1>3 DEF InOrder, R
  <2>1. CASE j # i /\ m # i
    BY <2>1, <1>3, <1>4, <1>5
  <2>2. CASE j = i
    BY <2>2, <1>4, <1>6, <1>8
  <2>3. CASE m = i
    BY <2>3, <1>4, <1>6, <1>8
  <2> QED BY <2>1, <2>2, <2>3
<1> QED BY <1>2, <1>9, <1>10, <1>11 DEF kqueue_insert_pri, r, i

(* The same waits, seen with other sets of tasks for the same queues.      *)
LEMMA Recontext ==
  ASSUME NEW a, NEW b, NEW n, Sound(n, a), ~a.caused, ~b.caused,
         \A o \in Obj : n.waitq[o] # <<>> => (o \in b.sorted => o \in a.sorted),
         \A o \in Obj : \A t \in ToSet(n.waitq[o]) : t \in b.member[o]
  PROVE  Sound(n, b)
<1>1. \A o \in Obj : QueueOK(n, o, b)
  <2> SUFFICES ASSUME NEW o \in Obj PROVE QueueOK(n, o, b)
    OBVIOUS
  <2>1. QueueOK(n, o, a)
    BY DEF Sound, WaitsInv
  <2>2. CASE n.waitq[o] = <<>>
    BY <2>1, <2>2 DEF QueueOK, InOrder
  <2>3. CASE n.waitq[o] # <<>>
    BY <2>1, <2>3 DEF QueueOK
  <2> QED BY <2>2, <2>3
<1>2. \A t \in Task : WaitOK(n, t, b)
  BY DEF Sound, WaitsInv, WaitOK
<1> QED BY <1>1, <1>2 DEF Sound, WaitsInv

(* A waiting task joins the queue of o, in the order the queue is kept in. *)
LEMMA JoinSound ==
  ASSUME NEW a, NEW b, NEW n, Sound(n, a), ~a.caused, ~b.caused, b.sorted = a.sorted,
         NEW t \in Task, NEW o \in Obj, n.state[t] \in Waiting,
         t \notin ToSet(n.waitq[o]), t \in b.member[o],
         \A x \in Obj : \A u \in ToSet(n.waitq[x]) : u \in b.member[x],
         NEW p, p = (o \in a.sorted),
         NEW m, m = [n EXCEPT !.waitq[o] =
                       IF p THEN kqueue_insert_pri(n.waitq[o], t, n.tskpri)
                       ELSE kqueue_insert(n.waitq[o], t)]
  PROVE  Sound(m, b)
<1> DEFINE q == n.waitq[o]
           r == IF p THEN kqueue_insert_pri(q, t, n.tskpri) ELSE kqueue_insert(q, t)
<1>1. /\ n \in KernelType /\ SchedInv(n) /\ WaitsInv(n, a) /\ QueueOK(n, o, a)
      /\ q \in Seq(Task) /\ IsInjective(q) /\ n.waitq \in [Obj -> Seq(Task)]
  BY DEF Sound, WaitsInv, QueueOK, KernelType
<1>2. /\ r \in Seq(Task) /\ IsInjective(r) /\ ToSet(r) = ToSet(q) \union {t}
      /\ p => InOrder(r, n.tskpri)
  <2>1. CASE p
    <3>1. InOrder(q, n.tskpri)
      BY <1>1, <2>1 DEF QueueOK
    <3>2. n.tskpri \in [Task -> Int]
      BY <1>1, ReadyQueueAssumption DEF KernelType, Line
    <3>3. r = kqueue_insert_pri(q, t, n.tskpri)
      BY <2>1
    <3> HIDE DEF r, q
    <3> QED BY <1>1, <3>1, <3>2, <3>3, InsertPri DEF q
  <2>2. CASE ~p
    <3>1. r = kqueue_insert(q, t)
      BY <2>2
    <3> HIDE DEF r, q
    <3> QED BY <2>2, <1>1, <3>1, InsertMembers DEF q
  <2> QED BY <2>1, <2>2
<1> HIDE DEF r
<1>3. m = [n EXCEPT !.waitq = [n.waitq EXCEPT ![o] = r]]
  BY <1>1 DEF r, KernelType
<1>4. /\ m \in KernelType /\ m.state = n.state /\ m.tskpri = n.tskpri /\ m.rdyq = n.rdyq
      /\ m.schedtsk = n.schedtsk /\ m.tskwait = n.tskwait /\ m.wupcnt = n.wupcnt
      /\ m.suscnt = n.suscnt /\ m.timerq = n.timerq
      /\ m.waitq = [n.waitq EXCEPT ![o] = r]
  <2> DEFINE w == [n.waitq EXCEPT ![o] = r]
  <2>1. w \in [Obj -> Seq(Task)] /\ m = [n EXCEPT !.waitq = w]
    BY <1>1, <1>2, <1>3
  <2> HIDE DEF w
  <2>2. /\ m \in KernelType /\ m.state = n.state /\ m.tskpri = n.tskpri
        /\ m.rdyq = n.rdyq /\ m.schedtsk = n.schedtsk /\ m.tskwait = n.tskwait
        /\ m.wupcnt = n.wupcnt /\ m.suscnt = n.suscnt /\ m.timerq = n.timerq
        /\ m.waitq = w
    BY <1>1, <2>1 DEF KernelType
  <2> QED BY <2>2 DEF w
<1>5. SchedInv(m)
  <2>1. \A u \in Task : /\ m.state[u] = "RDY" <=> n.state[u] = "RDY"
                        /\ n.state[u] = "RDY" => m.tskpri[u] = n.tskpri[u]
    BY <1>4
  <2> QED BY <1>1, <1>4, <2>1 DEF SchedInv, ReadyLinks
<1>6. \A x \in Obj : QueueOK(m, x, b)
  <2> SUFFICES ASSUME NEW x \in Obj PROVE QueueOK(m, x, b)
    OBVIOUS
  <2>1. QueueOK(n, x, a)
    BY <1>1 DEF WaitsInv
  <2>2. CASE x = o
    <3>1. m.waitq[x] = r
      BY <1>1, <1>4, <2>2
    <3> QED BY <2>1, <2>2, <3>1, <1>2, <1>4 DEF QueueOK
  <2>3. CASE x # o
    <3>1. m.waitq[x] = n.waitq[x]
      BY <1>1, <1>4, <2>3
    <3> QED BY <2>1, <3>1, <1>4 DEF QueueOK
  <2> QED BY <2>2, <2>3
<1>7. \A u \in Task : WaitOK(m, u, b)
  BY <1>1, <1>4 DEF WaitsInv, WaitOK
<1> QED BY <1>1, <1>4, <1>5, <1>6, <1>7 DEF Sound, WaitsInv

(* A task in the queue of o is released, with the code e.                  *)
LEMMA ReleaseMember ==
  ASSUME NEW a, NEW n, Sound(n, a), NEW o \in Obj, NEW t \in ToSet(n.waitq[o]),
         NEW e \in {"E_OK", "E_TMOUT", "E_DLT"},
         NEW l, l = [n EXCEPT !.ercd[t] = e], NEW m, m = wait_release(l, t)
  PROVE  /\ t \in Task /\ n.state[t] \in Waiting /\ Sound(m, a)
         /\ Released(l, m, t) /\ l.state = n.state /\ l.tskwait = n.tskwait
         /\ l.waitq = n.waitq
<1>1. n.waitq[o] \in Seq(Task) /\ n \in KernelType
  BY DEF Sound, KernelType
<1>2. t \in Task
  BY <1>1 DEF ToSet
<1>3. n.state[t] \in Waiting
  BY DEF Sound, WaitsInv, QueueOK
<1>4. /\ l \in KernelType /\ l.state = n.state /\ l.tskpri = n.tskpri /\ l.rdyq = n.rdyq
      /\ l.schedtsk = n.schedtsk /\ l.tskwait = n.tskwait /\ l.wupcnt = n.wupcnt
      /\ l.suscnt = n.suscnt /\ l.timerq = n.timerq /\ l.waitq = n.waitq
  BY <1>1 DEF KernelType
<1>5. Sound(l, a)
  BY <1>4, OtherFields
<1>6. l.state[t] \in Waiting
  BY <1>3, <1>4
<1>7. Sound(m, a) /\ Released(l, m, t)
  BY <1>2, <1>5, <1>6, WaitRelease
<1> QED BY <1>2, <1>3, <1>4, <1>7

(* So is the first task of a queue.                                        *)
LEMMA ReleaseFirst ==
  ASSUME NEW a, NEW n, Sound(n, a), NEW o \in Obj, n.waitq[o] # <<>>,
         NEW t, t = kqueue_next(n.waitq[o]), NEW e \in {"E_OK", "E_TMOUT", "E_DLT"},
         NEW l, l = [n EXCEPT !.ercd[t] = e], NEW m, m = wait_release(l, t)
  PROVE  /\ t \in Task /\ n.state[t] \in Waiting /\ Sound(m, a)
         /\ Released(l, m, t) /\ l.state = n.state
<1>1. n.waitq[o] \in Seq(Task)
  BY DEF Sound, KernelType
<1>2. t \in ToSet(n.waitq[o])
  BY <1>1 DEF kqueue_next, ToSet
<1> QED BY <1>2, ReleaseMember

(* A task that is between two steps of a call goes on to the next one.     *)
LEMMA GoOnFlow ==
  ASSUME NEW a, Flow(a), NEW t \in Task, NEW c, ~Leaving(c), At(t, c),
         NEW d \in a.calls, d # Boot, \A x : d # <<"cre_tsk", x>>,
         \A x, p : d # <<"chg_pri", x, p>>, Goto(t, d),
         k'.state = k.state, k'.schedtsk = k.schedtsk
  PROVE  Flow(a)'
<1>1. /\ runtsk = t /\ event = NoTask /\ t # NoTask /\ INIT_TASK \in Task
      /\ runtsk' = t /\ event' = NoTask /\ NoTask \notin Task
      /\ k.state[t] = "RDY" /\ (Preemptive => t = k.schedtsk)
      /\ call[INIT_TASK] # Boot
  BY ReadyQueueAssumption, KernelAssumption
     DEF At, Goto, Flow, RunInv, CallInv
<1>2. \A u \in Task : call'[u] = IF u = t THEN d ELSE call[u]
  BY DEF Flow, Typed, Goto
<1>3. Typed(a)'
  BY <1>1 DEF Flow, Typed, Goto
<1>4. RunInv'
  <2>1. /\ event' \notin Task /\ k'.state[runtsk'] = "RDY"
        /\ Preemptive => runtsk' = k'.schedtsk
    BY <1>1
  <2> QED BY <2>1 DEF RunInv
<1>5. CallInv'
  <2>1. ASSUME NEW u \in Task, NEW x \in Task, call'[u] = <<"cre_tsk", x>>
        PROVE  u \in Creators /\ k'.state[x] = "NOEXS"
    <3>1. call[u] = <<"cre_tsk", x>>
      BY <2>1, <1>2
    <3> QED BY <3>1 DEF Flow, CallInv
  <2>2. ASSUME NEW u \in Task, NEW x \in Task, NEW p \in Line \union {TPRI_INI},
               call'[u] = <<"chg_pri", x, p>>
        PROVE  x = u
    <3>1. call[u] = <<"chg_pri", x, p>>
      BY <2>2, <1>2
    <3> QED BY <3>1 DEF Flow, CallInv
  <2>3. call'[INIT_TASK] # Boot
    BY <1>1, <1>2
  <2> QED BY <2>1, <2>2, <2>3 DEF CallInv
<1> QED BY <1>3, <1>4, <1>5 DEF Flow

(* u stays where it is, or moves between the kernel's calls, or is begun.  *)
CallMoves(u) ==
  \/ call'[u] = call[u]
  \/ call'[u] \in Calls /\ (call[u] \in Calls \/ k'.state[u] = "RDY")

(* _act_tsk moves nobody else but a dormant task, which it makes READY.    *)
LEMMA ActMoves ==
  ASSUME NEW S, call \in [Task -> S], k \in KernelType, NEW x \in Task,
         NEW c, c \in [Task -> S \union Calls],
         \A u \in Task : c[u] = call[u] \/ (c[u] \in Calls /\ call[u] \in Calls),
         _act_tsk(x, c)
  PROVE  \A u \in Task : CallMoves(u)
<1>1. User \in Calls
  BY DEF Calls
<1>2. CASE call' = c
  BY <1>2 DEF CallMoves
<1>3. CASE k' = task_make_ready(k, x) /\ call' = [c EXCEPT ![x] = User]
  <2>1. k'.state = [k.state EXCEPT ![x] = "RDY"] /\ k.state \in [Task -> States]
    BY <1>3 DEF task_make_ready, KernelType
  <2> QED BY <1>1, <1>3, <2>1 DEF CallMoves
<1> QED BY <1>2, <1>3 DEF _act_tsk

(* A task of module Kernel takes a step from one of its calls to another.  *)
Hops(t) ==
  /\ event = NoTask /\ event' = NoTask /\ call[t] \in Calls
  /\ \E c \in Calls : call' = [call EXCEPT ![t] = c]

LEMMA TaskMoves ==
  ASSUME NEW S, call \in [Task -> S], k \in KernelType, NEW t \in Task, TaskStep(t)
  PROVE  event = NoTask /\ event' = NoTask /\ \A u \in Task : CallMoves(u)
<1>1. /\ {User, Dispatch, Boot} \subseteq Calls
      /\ \A x \in Task : <<"cre_tsk", x>> \in Calls
      /\ \A x \in Task, p \in Line \union {TPRI_INI} : <<"chg_pri", x, p>> \in Calls
  BY DEF Calls
<1>2. ASSUME Hops(t) PROVE event = NoTask /\ event' = NoTask /\ \A u \in Task : CallMoves(u)
  BY <1>2 DEF Hops, CallMoves
<1>3. CASE dispatch(t)
  BY <1>1, <1>2, <1>3 DEF dispatch, At, Hops
<1>4. ASSUME NEW c \in Calls, At(t, User), Goto(t, c) PROVE Hops(t)
  BY <1>1, <1>4 DEF At, Goto, Hops
<1>5. CASE \/ rot_rdq(t)
           \/ \E x \in Task : \/ cre_tsk_check(t, x) \/ del_tsk(t, x)
                              \/ sus_tsk(t, x) \/ rsm_tsk(t, x) \/ wup_tsk(t, x)
                              \/ \E p \in Line \union {TPRI_INI} : chg_pri_check(t, x, p)
           \/ \E d \in Dly : dly_tsk(t, d)
           \/ \E tmo \in Tmo : __slp_tsk(t, tmo)
  <2>1. At(t, User) /\ \E c \in Calls : Goto(t, c)
    BY <1>1, <1>5 DEF rot_rdq, cre_tsk_check, del_tsk, sus_tsk, rsm_tsk, wup_tsk,
                      chg_pri_check, dly_tsk, __slp_tsk, Calls_
  <2> QED BY <2>1, <1>2, <1>4
<1>6. CASE ext_tsk(t) \/ \E x \in Task : can_wup(t, x)
  BY <1>6 DEF ext_tsk, can_wup, Calls_, At, CallMoves
<1>7. CASE \E x \in Task : \/ cre_tsk(t, x)
                           \/ \E p \in Line \union {TPRI_INI} : chg_pri(t, x, p)
  <2>1. Hops(t)
    BY <1>1, <1>7 DEF cre_tsk, chg_pri, At, Goto, Hops
  <2> QED BY <2>1, <1>2
<1>8. ASSUME NEW x \in Task, act_tsk(t, x)
      PROVE  event = NoTask /\ event' = NoTask /\ \A u \in Task : CallMoves(u)
  <2> DEFINE c == [call EXCEPT ![t] = Dispatch]
  <2>1. /\ event = NoTask /\ event' = NoTask /\ call[t] \in Calls
        /\ _act_tsk(x, c)
    BY <1>1, <1>8 DEF act_tsk, Calls_, At
  <2>2. /\ c \in [Task -> S \union Calls]
        /\ \A u \in Task : c[u] = call[u] \/ (c[u] \in Calls /\ call[u] \in Calls)
    BY <1>1, <2>1
  <2> HIDE DEF c
  <2> QED BY <2>1, <2>2, ActMoves
<1> QED BY <1>3, <1>5, <1>6, <1>7, <1>8, <1>2 DEF TaskStep

LEMMA NextMoves ==
  ASSUME NEW a, IInv(a), Obj \intersect (Task \union {NoTask, QueueHead}) = {}, Next
  PROVE  event \notin Obj /\ event' \notin Obj /\ \A u \in Task : CallMoves(u)
<1>1. /\ call \in [Task -> a.calls] /\ k \in KernelType /\ NoTask \notin Obj
      /\ k.timerq \in Seq(Task) /\ IsInjective(k.timerq)
      /\ event \in Task => event \in ToSet(k.timerq)
  BY DEF IInv, Flow, Typed, Sound, RunInv, KernelType, WaitsInv
<1>2. CASE \E t \in Task : TaskStep(t)
  BY <1>1, <1>2, TaskMoves
<1>3. ASSUME NEW x \in Task, iact_tsk(x) \/ iwup_tsk(x)
      PROVE  event = NoTask /\ event' = NoTask /\ \A u \in Task : CallMoves(u)
  <2>1. CASE iact_tsk(x)
    <3>1. /\ event = NoTask /\ event' = NoTask /\ _act_tsk(x, call)
          /\ call \in [Task -> a.calls \union Calls]
      BY <1>1, <2>1 DEF iact_tsk, irq_entry
    <3> QED BY <1>1, <3>1, ActMoves
  <2>2. CASE iwup_tsk(x)
    BY <2>2 DEF iwup_tsk, irq_entry, CallMoves
  <2> QED BY <1>3, <2>1, <2>2
<1>4. CASE main_cre \/ main_act
  <2>1. CASE main_cre
    BY <1>1, <2>1 DEF main_cre, CallMoves
  <2>2. CASE main_act
    <3>1. /\ event = NoTask /\ event' = NoTask /\ _act_tsk(INIT_TASK, call)
          /\ call \in [Task -> a.calls \union Calls] /\ INIT_TASK \in Task
      BY <1>1, <2>2, KernelAssumption DEF main_act
    <3> QED BY <1>1, <3>1, ActMoves
  <2> QED BY <1>4, <2>1, <2>2
<1>5. CASE dispatch_null
  BY <1>1, <1>5 DEF dispatch_null, CallMoves
<1>6. CASE timer_enter
  <2>1. kqueue_next(k.timerq) \in Task \union {QueueHead}
    BY <1>1 DEF kqueue_next
  <2> QED BY <1>1, <1>6, <2>1 DEF timer_enter, irq_entry, CallMoves
<1>7. CASE timer_step
  <2>1. event \in Task /\ event \in ToSet(k.timerq) /\ call' = call
    BY <1>1, <1>7 DEF timer_step
  <2>2. event' = QueueHead \/ event' \in ToSet(k.timerq)
    BY <1>1, <1>7, <2>1, NextMember DEF timer_step
  <2>3. ToSet(k.timerq) \subseteq Task
    BY <1>1 DEF ToSet
  <2> QED BY <2>1, <2>2, <2>3 DEF CallMoves
<1>8. CASE timer_exit
  BY <1>1, <1>8 DEF timer_exit, CallMoves
<1> QED BY <1>1, <1>2, <1>3, <1>4, <1>5, <1>6, <1>7, <1>8 DEF Next, Handler

(* _cre_sem: its queue is a new one.                                       *)
LEMMA EmptySound ==
  ASSUME NEW a, NEW n, Sound(n, a), ~a.caused, NEW o \in Obj,
         NEW m, m = [n EXCEPT !.waitq[o] = <<>>]
  PROVE  Sound(m, a)
<1> DEFINE w == [n.waitq EXCEPT ![o] = <<>>]
<1>1. /\ n \in KernelType /\ SchedInv(n) /\ WaitsInv(n, a)
      /\ n.waitq \in [Obj -> Seq(Task)]
  BY DEF Sound, KernelType
<1>2. /\ w \in [Obj -> Seq(Task)] /\ w[o] = <<>> /\ m = [n EXCEPT !.waitq = w]
      /\ \A x \in Obj : x # o => w[x] = n.waitq[x]
  BY <1>1
<1> HIDE DEF w
<1>3. /\ m \in KernelType /\ m.state = n.state /\ m.tskpri = n.tskpri
      /\ m.rdyq = n.rdyq /\ m.schedtsk = n.schedtsk /\ m.tskwait = n.tskwait
      /\ m.wupcnt = n.wupcnt /\ m.suscnt = n.suscnt /\ m.timerq = n.timerq
      /\ m.waitq = w
  BY <1>1, <1>2 DEF KernelType
<1>4. SchedInv(m)
  BY <1>1, <1>3 DEF SchedInv, ReadyLinks
<1>5. ASSUME NEW x \in Obj PROVE QueueOK(m, x, a)
  <2>1. QueueOK(n, x, a)
    BY <1>1 DEF WaitsInv
  <2>2. CASE x = o
    BY <2>2, <1>2, <1>3 DEF QueueOK, InOrder, IsInjective, ToSet
  <2>3. CASE x # o
    BY <2>1, <2>3, <1>2, <1>3 DEF QueueOK
  <2> QED BY <2>2, <2>3
<1>6. \A u \in Task : WaitOK(m, u, a)
  BY <1>1, <1>3 DEF WaitsInv, WaitOK
<1>7. WaitsInv(m, a)
  BY <1>1, <1>3, <1>5, <1>6 DEF WaitsInv
<1> QED BY <1>1, <1>3, <1>4, <1>7 DEF Sound

(* From n to m task u keeps its ercd, unless a wakeup gives it a new one,  *)
(* and begins no such wait.                                                *)
Asks(n, m, u) ==
  n.tskwait[u] = "none" => m.tskwait[u] = "none" /\ m.ercd[u] = n.ercd[u]

(* And it is still there.                                                  *)
Kept(n, m, u) ==
  /\ n.state[u] \notin {"NOEXS", "DMT"} => m.state[u] \notin {"NOEXS", "DMT"}
  /\ Asks(n, m, u)

(* make_wait changes no ercd, no tskwait, and no other task's state.       *)
LEMMA MakeWaitOther ==
  ASSUME NEW n, n \in KernelType, NEW t \in Task, NEW u \in Task \ {t}, NEW tmo,
         NEW m, m = make_wait(n, t, tmo)
  PROVE  m.state[u] = n.state[u] /\ m.tskwait = n.tskwait /\ m.ercd = n.ercd
<1> DEFINE w == CASE n.state[t] = "RDY" -> [task_make_unready(n, t) EXCEPT !.state[t] = "WAI"]
                  [] n.state[t] = "SUS" -> [n EXCEPT !.state[t] = "WAS"]
                  [] OTHER -> n
           D == {"state", "tskwait", "ercd", "count", "timerq"}
<1>1. /\ w.state[u] = n.state[u] /\ w.tskwait = n.tskwait /\ w.ercd = n.ercd
      /\ D \subseteq DOMAIN w
  BY DEF task_make_unready, KernelType
<1>2. m = timer_insert(w, t, tmo)
  BY DEF make_wait
<1> HIDE DEF w
<1> QED BY <1>1, <1>2 DEF timer_insert

(* The services that change no field of interest, or those of the caller.  *)
LEMMA TaskKept ==
  ASSUME k \in KernelType, NEW t \in Task, NEW u \in Task \ {t},
         \/ rot_rdq(t) \/ ext_tsk(t)
         \/ \E x \in Task :
              \/ sus_tsk(t, x) \/ rsm_tsk(t, x) \/ can_wup(t, x)
              \/ \E p \in Line \union {TPRI_INI} : chg_pri(t, x, p)
         \/ \E d \in Dly : dly_tsk(t, d)
         \/ \E tmo \in Tmo : __slp_tsk(t, tmo)
  PROVE  Kept(k, k', u)
<1> USE DEF Kept, Asks
<1>1. CASE rot_rdq(t)
  BY <1>1 DEF KernelType, rot_rdq, rdyq_rotate_current, rdyq_rotate_at
<1>2. CASE ext_tsk(t)
  <2> DEFINE d == task_make_dormant(task_make_unready(k, t), t)
             l == [d EXCEPT !.actcnt[t] = @ - 1]
  <2>1. /\ DOMAIN d.state = Task
        /\ d.state[u] = k.state[u] /\ d.tskwait[u] = k.tskwait[u] /\ d.ercd = k.ercd
        /\ {"state", "tskwait", "ercd", "actcnt", "rdyq", "schedtsk"} \subseteq DOMAIN d
    BY DEF KernelType, task_make_unready, task_make_dormant
  <2>2. k' = d \/ k' = task_make_ready(l, t)
    BY <1>2 DEF ext_tsk
  <2> HIDE DEF d
  <2>3. /\ l.state = d.state /\ l.tskwait = d.tskwait /\ l.ercd = d.ercd
        /\ {"state", "tskwait", "ercd", "rdyq", "schedtsk"} \subseteq DOMAIN l
    BY <2>1
  <2> HIDE DEF l
  <2> DEFINE r == task_make_ready(l, t)
  <2>4. r.state[u] = l.state[u] /\ r.tskwait = l.tskwait /\ r.ercd = l.ercd
    BY <2>1, <2>3 DEF task_make_ready
  <2> HIDE DEF r
  <2>5. k' = d \/ k' = r
    BY <2>2 DEF r
  <2> QED BY <2>1, <2>3, <2>4, <2>5
<1>3. ASSUME NEW x \in Task, can_wup(t, x) PROVE Kept(k, k', u)
  BY <1>3 DEF KernelType, can_wup
<1>4. ASSUME NEW x \in Task, NEW p \in Line \union {TPRI_INI}, chg_pri(t, x, p)
      PROVE  Kept(k, k', u)
  BY <1>4 DEF KernelType, chg_pri, task_change_pri
<1>5. ASSUME NEW x \in Task, sus_tsk(t, x) PROVE Kept(k, k', u)
  <2> DEFINE s == [k.state EXCEPT ![x] = IF k.state[x] = "RDY" THEN "SUS" ELSE "WAS"]
  <2>1. CASE k' = k
    BY <2>1
  <2>2. CASE k' # k
    <3> DEFINE l == IF k.state[x] = "RDY"
                    THEN [task_make_unready(k, x) EXCEPT !.state[x] = "SUS"]
                    ELSE [k EXCEPT !.state[x] = "WAS"]
    <3>1. k' = [l EXCEPT !.suscnt[x] = @ + 1]
      BY <2>2, <1>5 DEF sus_tsk
    <3>2. /\ l.state = s /\ l.tskwait = k.tskwait /\ l.ercd = k.ercd
          /\ {"state", "tskwait", "ercd", "suscnt"} \subseteq DOMAIN l
      BY DEF KernelType, task_make_unready
    <3> HIDE DEF l
    <3>3. k'.state = s /\ k'.tskwait = k.tskwait /\ k'.ercd = k.ercd
      BY <3>1, <3>2
    <3> QED BY <3>3
  <2> QED BY <2>1, <2>2
<1>6. ASSUME NEW x \in Task, rsm_tsk(t, x) PROVE Kept(k, k', u)
  BY <1>6 DEF KernelType, rsm_tsk, task_make_ready
<1>7. ASSUME NEW d \in Dly, dly_tsk(t, d) PROVE Kept(k, k', u)
  <2>1. PICK l : /\ l = [k EXCEPT !.ercd[t] = "E_OK", !.tskwait[t] = "DLY"]
                 /\ k' = make_wait(l, t, as_TMO(d))
    BY <1>7 DEF dly_tsk
  <2>2. /\ l \in KernelType /\ l.state = k.state /\ l.tskwait[u] = k.tskwait[u]
        /\ l.ercd[u] = k.ercd[u]
    BY <2>1 DEF KernelType
  <2>3. PICK m : m = k'
    OBVIOUS
  <2>4. PICK v : v = as_TMO(d)
    OBVIOUS
  <2>5. m = make_wait(l, t, v) /\ l \in KernelType
    BY <2>1, <2>2, <2>3, <2>4
  <2>6. m.state[u] = l.state[u] /\ m.tskwait = l.tskwait /\ m.ercd = l.ercd
    BY <2>5, MakeWaitOther
  <2> QED BY <2>2, <2>3, <2>6
<1>8. ASSUME NEW tmo \in Tmo, __slp_tsk(t, tmo) PROVE Kept(k, k', u)
  <2>1. CASE k.wupcnt[t] > 0 \/ tmo = TMO_POL
    BY <2>1, <1>8 DEF KernelType, __slp_tsk
  <2>2. CASE ~(k.wupcnt[t] > 0) /\ tmo # TMO_POL
    <3> DEFINE l == [[k EXCEPT !.ercd[t] = "E_TMOUT"] EXCEPT !.tskwait[t] = "SLP"]
    <3>1. k' = make_wait(l, t, tmo)
      <4>1. k.wupcnt[t] = 0
        BY <2>2 DEF KernelType
      <4> QED BY <2>2, <4>1, <1>8 DEF __slp_tsk
    <3>2. /\ l \in KernelType /\ l.state = k.state /\ l.tskwait[u] = k.tskwait[u]
          /\ l.ercd[u] = k.ercd[u]
      BY DEF KernelType
    <3> HIDE DEF l
    <3>3. PICK m : m = k'
      OBVIOUS
    <3>4. m.state[u] = l.state[u] /\ m.tskwait = l.tskwait /\ m.ercd = l.ercd
      BY <3>1, <3>2, <3>3, MakeWaitOther
    <3> QED BY <3>2, <3>3, <3>4
  <2> QED BY <2>1, <2>2
<1> QED BY <1>1, <1>2, <1>3, <1>4, <1>5, <1>6, <1>7, <1>8

(* An activation, of the task itself or of another one.                    *)
LEMMA ActKept ==
  ASSUME k \in KernelType, NEW x \in Task, NEW c, DOMAIN c = Task, _act_tsk(x, c),
         NEW u \in Task
  PROVE  Kept(k, k', u) /\ (k.state[u] # "DMT" => call'[u] = c[u])
<1>1. CASE k.state[x] = "DMT"
  <2>1. k' = task_make_ready(k, x) /\ call' = [c EXCEPT ![x] = User]
    BY <1>1 DEF _act_tsk
  <2>2. /\ k'.state = [k.state EXCEPT ![x] = "RDY"] /\ k'.tskwait = k.tskwait
        /\ k'.ercd = k.ercd /\ DOMAIN k.state = Task
    BY <2>1 DEF KernelType, task_make_ready
  <2> QED BY <1>1, <2>1, <2>2 DEF Kept, Asks
<1>2. CASE k.state[x] # "DMT"
  <2>1. k' = [k EXCEPT !.actcnt[x] = @ + 1] /\ call' = c
    BY <1>2 DEF _act_tsk
  <2> QED BY <2>1 DEF Kept, Asks, KernelType
<1> QED BY <1>1, <1>2

(* A wakeup gives a new ercd to a task in slp_tsk only.                    *)
LEMMA WupKept ==
  ASSUME NEW a, Sound(k, a), NEW x \in Task, _wup_tsk(x), NEW u \in Task
  PROVE  Kept(k, k', u)
<1>1. k \in KernelType
  BY DEF Sound
<1>2. CASE k.state[x] \in Waiting /\ k.tskwait[x] = "SLP"
  <2> DEFINE l == [k EXCEPT !.ercd[x] = "E_OK"]
  <2>1. k' = wait_release(l, x)
    BY <1>2 DEF _wup_tsk, wait_release_ok
  <2>2. /\ l \in KernelType /\ l.state = k.state /\ l.tskpri = k.tskpri
        /\ l.rdyq = k.rdyq /\ l.schedtsk = k.schedtsk
        /\ l.tskwait = k.tskwait /\ l.wupcnt = k.wupcnt
        /\ l.suscnt = k.suscnt /\ l.waitq = k.waitq /\ l.timerq = k.timerq
        /\ u # x => l.ercd[u] = k.ercd[u]
    BY <1>1 DEF KernelType
  <2> HIDE DEF l
  <2>3. Sound(l, a)
    BY <2>2, OtherFields
  <2>4. Released(l, k', x)
    BY <1>2, <2>1, <2>2, <2>3, WaitRelease
  <2>5. DOMAIN k.state = Task /\ DOMAIN k.tskwait = Task
    BY <1>1 DEF KernelType
  <2> QED BY <1>2, <2>2, <2>4, <2>5 DEF Released, Kept, Asks
<1>3. CASE ~(k.state[x] \in Waiting /\ k.tskwait[x] = "SLP")
  BY <1>1, <1>3 DEF _wup_tsk, KernelType, Kept, Asks
<1> QED BY <1>2, <1>3

(* A timeout gives none: ercd is what the call left in it before the wait  *)
(* (wait_release_tmout).                                                   *)
LEMMA TimerKept ==
  ASSUME NEW a, IInv(a), timer_step, NEW u \in Task PROVE Kept(k, k', u)
<1> DEFINE e == event
           n == (k.count[e] + RELTIM_MAX) % (RELTIM_MAX + 1)
           l == [k EXCEPT !.count[e] = n]
<1>1. /\ e \in Task
      /\ k' = IF n = 0 THEN wait_release_tmout(timer_delete(l, e), e) ELSE l
  BY DEF timer_step
<1>2. /\ Sound(k, a) /\ k \in KernelType /\ k.state[e] \in Waiting
      /\ k.count[e] \in 0..RELTIM_MAX
  BY <1>1 DEF IInv, Flow, RunInv, Sound, WaitsInv, KernelType
<1>3. n \in 0..RELTIM_MAX
  <2>1. /\ RELTIM_MAX + 1 \in Nat \ {0} /\ (RELTIM_MAX + 1) - 1 = RELTIM_MAX
        /\ k.count[e] + RELTIM_MAX \in Int
    BY <1>2, KernelAssumption
  <2>2. n \in 0..((RELTIM_MAX + 1) - 1)
    BY <2>1, Remainder
  <2> QED BY <2>1, <2>2
<1> HIDE DEF n
<1>4. /\ l \in KernelType /\ l.state = k.state /\ l.tskpri = k.tskpri
      /\ l.rdyq = k.rdyq /\ l.schedtsk = k.schedtsk
      /\ l.tskwait = k.tskwait /\ l.wupcnt = k.wupcnt
      /\ l.suscnt = k.suscnt /\ l.waitq = k.waitq /\ l.timerq = k.timerq
      /\ l.ercd = k.ercd
  BY <1>1, <1>2, <1>3 DEF KernelType
<1>5. k' = wait_release(l, e) \/ k' = l
  BY <1>1 DEF wait_release_tmout, wait_release, wait_cancel
<1> HIDE DEF l, e
<1>6. Sound(l, a)
  BY <1>2, <1>4, OtherFields
<1>7. CASE k' = wait_release(l, e)
  <2>1. Released(l, k', e)
    BY <1>1, <1>2, <1>4, <1>6, <1>7, WaitRelease
  <2>2. DOMAIN k.state = Task /\ DOMAIN k.tskwait = Task
    BY <1>2 DEF KernelType
  <2> QED BY <1>4, <2>1, <2>2 DEF Released, Kept, Asks
<1>8. CASE k' = l
  BY <1>4, <1>8 DEF Kept, Asks
<1> QED BY <1>5, <1>7, <1>8

(* cre_tsk is about a task that is not there yet.                          *)
LEMMA CreateKept ==
  ASSUME k \in KernelType, NEW x \in Task, k.state[x] = "NOEXS", k' = create(x),
         NEW u \in Task
  PROVE  Kept(k, k', u)
<1> DEFINE n == [qnode_remove(k, x) EXCEPT !.itskpri[x] = Itskpri[x], !.actcnt[x] = 0]
<1>1. /\ n.state = k.state /\ n.tskwait = k.tskwait /\ n.ercd = k.ercd
      /\ {"state", "tskpri", "wupcnt", "suscnt", "tskwait", "ercd"} \subseteq DOMAIN n
      /\ DOMAIN k.state = Task /\ DOMAIN k.tskwait = Task
  BY DEF qnode_remove, KernelType
<1>2. k' = task_make_dormant(n, x)
  BY DEF create
<1> HIDE DEF n
<1> QED BY <1>1, <1>2 DEF task_make_dormant, Kept, Asks

(* del_tsk of a waiting task ends its wait without an answer.              *)
LEMMA DelKept ==
  ASSUME k \in KernelType, NEW t \in Task, NEW x \in Task, del_tsk(t, x), NEW u \in Task
  PROVE  Asks(k, k', u)
<1> DEFINE out == CASE k.state[x] \in Waiting -> wait_cancel(k, x)
                    [] k.state[x] = "RDY"     -> task_make_unready(k, x)
                    [] OTHER                  -> k
<1>1. /\ out.tskwait = k.tskwait /\ out.ercd = k.ercd
      /\ {"state", "tskwait", "ercd", "actcnt"} \subseteq DOMAIN out
  <2>1. CASE k.state[x] \in Waiting
    <3>1. out = wait_cancel(k, x)
      BY <2>1 DEF Waiting
    <3> DEFINE d == timer_delete(k, x)
               r == [d EXCEPT !.rdyq.priq = rdyq_unlink(d.rdyq, x)]
    <3>2. /\ d.tskwait = k.tskwait /\ d.ercd = k.ercd
          /\ {"state", "tskwait", "ercd", "actcnt", "rdyq", "waitq"} \subseteq DOMAIN d
      BY DEF timer_delete, KernelType
    <3>3. qnode_remove(d, x) = [r EXCEPT !.waitq = [o \in Obj |-> kqueue_remove(@[o], x)]]
      BY DEF qnode_remove
    <3> HIDE DEF d
    <3>4. /\ r.tskwait = d.tskwait /\ r.ercd = d.ercd
          /\ {"state", "tskwait", "ercd", "actcnt", "waitq"} \subseteq DOMAIN r
      BY <3>2
    <3> HIDE DEF r
    <3>5. out = qnode_remove(d, x)
      BY <3>1 DEF wait_cancel, d
    <3> HIDE DEF out
    <3> QED BY <3>2, <3>3, <3>4, <3>5
  <2>2. CASE k.state[x] = "RDY"
    <3>1. out = task_make_unready(k, x)
      BY <2>2 DEF Waiting
    <3> HIDE DEF out
    <3> QED BY <3>1 DEF task_make_unready, KernelType
  <2>3. CASE k.state[x] \notin Waiting /\ k.state[x] # "RDY"
    BY <2>3 DEF KernelType
  <2> QED BY <2>1, <2>2, <2>3
<1>2. k' = [out EXCEPT !.state[x] = "NOEXS", !.actcnt[x] = 0]
  BY DEF del_tsk
<1> HIDE DEF out
<1> QED BY <1>1, <1>2 DEF Asks

(* What a step of the kernel leaves alone of a task that is inside a call  *)
(* of another module, for which Kernel has no action.                      *)
LEMMA NextKept ==
  ASSUME NEW a, IInv(a), Next, NEW u \in Task, call[u] \notin Calls
  PROVE  /\ Asks(k, k', u)
         /\ "del_tsk" \notin Services => Kept(k, k', u)
         /\ k.state[u] # "DMT" => call'[u] = call[u]
<1> DEFINE Goal == Kept(k, k', u) /\ (k.state[u] # "DMT" => call'[u] = call[u])
<1>0. CASE Goal
  BY <1>0 DEF Kept
<1>1. /\ Sound(k, a) /\ Flow(a) /\ k \in KernelType /\ call \in [Task -> a.calls]
  BY DEF IInv, Sound, Flow, Typed
<1>2. /\ {User, Dispatch, Boot} \subseteq Calls
      /\ \A x \in Task : <<"cre_tsk", x>> \in Calls
      /\ \A x \in Task, p \in Line \union {TPRI_INI} : <<"chg_pri", x, p>> \in Calls
  BY DEF Calls
<1>3. Kept(k, k, u)
  BY DEF Kept, Asks
<1>4. ASSUME NEW t \in Task, NEW c \in Calls, At(t, c)
      PROVE  u # t /\ \A d : Goto(t, d) => call'[u] = call[u]
  BY <1>1, <1>4 DEF At, Goto
<1>5. ASSUME NEW t \in Task, TaskStep(t), \A x \in Task : ~del_tsk(t, x) PROVE Goal
  <2>1. CASE dispatch(t)
    BY <2>1, <1>1, <1>2, <1>3 DEF dispatch, At
  <2>2. ASSUME NEW x \in Task, cre_tsk_check(t, x) PROVE Goal
    BY <2>2, <1>2, <1>3, <1>4 DEF cre_tsk_check, Calls_
  <2>3. ASSUME NEW x \in Task, cre_tsk(t, x) PROVE Goal
    <3>1. At(t, <<"cre_tsk", x>>) /\ k' = create(x) /\ Goto(t, User)
      BY <2>3 DEF cre_tsk
    <3>2. k.state[x] = "NOEXS"
      BY <3>1, <1>1 DEF At, Flow, CallInv
    <3> QED BY <3>1, <3>2, <1>1, <1>2, <1>4, CreateKept
  <2>4. ASSUME NEW x \in Task, act_tsk(t, x) PROVE Goal
    <3> DEFINE c == [call EXCEPT ![t] = Dispatch]
    <3>1. At(t, User) /\ _act_tsk(x, c)
      BY <2>4 DEF act_tsk, Calls_
    <3>2. u # t /\ DOMAIN c = Task /\ c[u] = call[u]
      BY <3>1, <1>1, <1>2, <1>4
    <3> HIDE DEF c
    <3>3. Kept(k, k', u) /\ (k.state[u] # "DMT" => call'[u] = c[u])
      BY <3>1, <3>2, <1>1, ActKept
    <3> QED BY <3>2, <3>3
  <2>5. ASSUME NEW x \in Task, wup_tsk(t, x) PROVE Goal
    <3>1. At(t, User) /\ _wup_tsk(x) /\ Goto(t, Dispatch)
      BY <2>5 DEF wup_tsk, Calls_
    <3> QED BY <3>1, <1>1, <1>2, <1>4, WupKept
  <2>6. ASSUME NEW x \in Task, NEW p \in Line \union {TPRI_INI}, chg_pri_check(t, x, p)
        PROVE  Goal
    BY <2>6, <1>2, <1>3, <1>4 DEF chg_pri_check, Calls_
  <2>7. CASE \/ rot_rdq(t) \/ ext_tsk(t)
             \/ \E x \in Task :
                  \/ sus_tsk(t, x) \/ rsm_tsk(t, x) \/ can_wup(t, x)
                  \/ \E p \in Line \union {TPRI_INI} : chg_pri(t, x, p)
             \/ \E d \in Dly : dly_tsk(t, d)
             \/ \E tmo \in Tmo : __slp_tsk(t, tmo)
    <3>1. \E c \in Calls : /\ At(t, c)
                           /\ call' = call \/ \E d : Goto(t, d)
      BY <2>7, <1>2 DEF rot_rdq, ext_tsk, sus_tsk, rsm_tsk, can_wup, chg_pri, dly_tsk,
                        __slp_tsk, Calls_
    <3>2. u # t /\ call'[u] = call[u]
      BY <3>1, <1>4
    <3> QED BY <2>7, <3>2, <1>1, TaskKept
  <2> QED BY <1>5, <2>1, <2>2, <2>3, <2>4, <2>5, <2>6, <2>7 DEF TaskStep
<1>6. ASSUME NEW x \in Task, iact_tsk(x) PROVE Goal
  <2>1. _act_tsk(x, call) /\ DOMAIN call = Task
    BY <1>1, <1>6 DEF iact_tsk
  <2> QED BY <2>1, <1>1, ActKept
<1>7. ASSUME NEW x \in Task, iwup_tsk(x) PROVE Goal
  <2>1. _wup_tsk(x) /\ call' = call
    BY <1>7 DEF iwup_tsk
  <2> QED BY <2>1, <1>1, WupKept
<1>8. ASSUME main_cre PROVE Goal
  <2>1. INIT_TASK \in Task /\ k.state[INIT_TASK] = "NOEXS" /\ k' = create(INIT_TASK)
        /\ call' = call
    BY <1>8, KernelAssumption DEF main_cre
  <2> QED BY <2>1, <1>1, CreateKept
<1>9. ASSUME main_act PROVE Goal
  <2>1. INIT_TASK \in Task /\ _act_tsk(INIT_TASK, call) /\ DOMAIN call = Task
    BY <1>1, <1>9, KernelAssumption DEF main_act
  <2> QED BY <2>1, <1>1, ActKept
<1>10. ASSUME dispatch_null \/ timer_enter \/ timer_exit PROVE Goal
  BY <1>3, <1>10 DEF dispatch_null, timer_enter, timer_exit
<1>11. ASSUME timer_step PROVE Goal
  <2>1. call' = call
    BY <1>11 DEF timer_step
  <2> QED BY <2>1, <1>1, <1>11, TimerKept
<1>12. ASSUME NEW t \in Task, NEW x \in Task, del_tsk(t, x)
       PROVE  /\ Asks(k, k', u) /\ "del_tsk" \in Services
              /\ call'[u] = call[u]
  <2>1. At(t, User) /\ Goto(t, Dispatch) /\ "del_tsk" \in Services
    BY <1>12 DEF del_tsk, Calls_
  <2> QED BY <2>1, <1>1, <1>2, <1>4, <1>12, DelKept
<1>13. CASE \E t \in Task, x \in Task : del_tsk(t, x)
  BY <1>12, <1>13
<1>14. CASE Next /\ \A t \in Task, x \in Task : ~del_tsk(t, x)
  <2>1. Goal
    <3> HIDE DEF Goal
    <3> QED BY <1>5, <1>6, <1>7, <1>8, <1>9, <1>10, <1>11, <1>14 DEF Next, Handler
  <2> QED BY <2>1, <1>0
<1> QED BY <1>13, <1>14

(* m is what l becomes when task t waits.                                  *)
Joined(m, l, t) ==
  /\ m.state = [l.state EXCEPT ![t] = "WAI"]
  /\ m.ercd = l.ercd /\ m.tskwait = l.tskwait

(* The running task t waits in the queue of o; e is what its call answers  *)
(* unless the wait ends in another way.                                    *)
LEMMA JoinsQueue ==
  ASSUME NEW a, NEW b, Sound(k, a), ~a.caused, ~b.caused, b.sorted = a.sorted,
         NEW t \in Task, k.state[t] = "RDY", NEW o \in Obj,
         NEW p, p = (o \in a.sorted), NEW tmo \in Int, t \in b.member[o],
         \A x \in Obj : \A u \in ToSet(k.waitq[x]) : u \in b.member[x],
         NEW e \in {"E_OK", "E_TMOUT", "E_DLT"}, NEW l, l = [k EXCEPT !.ercd[t] = e],
         NEW z, z = obj_make_wait(l, t, o, tmo, p)
  PROVE  Sound(z, b) /\ Joined(z, l, t) /\ l.state = k.state /\ l.tskwait = k.tskwait
<1> DEFINE m == make_wait(l, t, tmo)
<1>1. k \in KernelType
  BY DEF Sound
<1>2. k.tskwait[t] = "none" /\ k.tskwait \in [Task -> {"none", "SLP", "DLY"}]
  BY <1>1 DEF Sound, WaitsInv, WaitOK, Waiting, KernelType
<1>3. [k.tskwait EXCEPT ![t] = "none"] = k.tskwait
  BY <1>2
<1>4. Reasons(k, l, t, "none")
  BY <1>1, <1>3 DEF Reasons, KernelType
<1>5. MadeWait(a, k, l, m, t)
  <2> DEFINE c == "none"
  <2>1. Reasons(k, l, t, c) /\ c \in {"none", "SLP", "DLY"} /\ c # "SLP"
    BY <1>4
  <2> HIDE DEF c, m
  <2> QED BY <1>1, <2>1, MakeWaitSound DEF m
<1>6. z = [m EXCEPT !.waitq[o] = IF p THEN kqueue_insert_pri(m.waitq[o], t, m.tskpri)
                                 ELSE kqueue_insert(m.waitq[o], t)]
  BY DEF obj_make_wait
<1> HIDE DEF m
<1>7. /\ Sound(m, a) /\ m.state = [k.state EXCEPT ![t] = "WAI"] /\ m.waitq = k.waitq
      /\ m \in KernelType /\ m.ercd = l.ercd /\ m.tskwait = l.tskwait
      /\ l.state = k.state /\ l.tskwait = k.tskwait
  <2>1. l.tskwait = k.tskwait /\ l.state = k.state
    BY <1>1 DEF KernelType
  <2> QED BY <1>5, <2>1 DEF MadeWait, Sound
<1>8. m.state[t] \in Waiting /\ t \notin ToSet(m.waitq[o])
  <2>1. WaitsInv(k, a) /\ k.state[t] \notin Waiting /\ k.state \in [Task -> States]
    BY <1>1 DEF Sound, Waiting, KernelType
  <2>2. t \notin ToSet(k.waitq[o])
    BY <2>1, NotQueued
  <2> QED BY <2>1, <2>2, <1>7 DEF Waiting
<1>9. Sound(z, b)
  <2>1. \A x \in Obj : \A u \in ToSet(m.waitq[x]) : u \in b.member[x]
    BY <1>7
  <2>2. PICK n : n = m
    OBVIOUS
  <2>3. /\ Sound(n, a) /\ n.state[t] \in Waiting /\ t \notin ToSet(n.waitq[o])
        /\ \A x \in Obj : \A u \in ToSet(n.waitq[x]) : u \in b.member[x]
        /\ z = [n EXCEPT !.waitq[o] = IF p THEN kqueue_insert_pri(n.waitq[o], t, n.tskpri)
                                      ELSE kqueue_insert(n.waitq[o], t)]
    BY <1>6, <1>7, <1>8, <2>1, <2>2
  <2> QED BY <2>3, JoinSound
<1>10. z.state = m.state /\ z.ercd = m.ercd /\ z.tskwait = m.tskwait
  BY <1>6, <1>7 DEF KernelType
<1> QED BY <1>7, <1>9, <1>10 DEF Joined

(* The task t that gives up the processor goes on at d when it runs again; *)
(* who runs instead is READY.                                              *)
LEMMA SwitchFlow ==
  ASSUME NEW a, Flow(a), NEW t \in Task, runtsk = t, event = NoTask, event' = event,
         SchedInv(k'), runtsk' = k'.schedtsk,
         NEW d \in a.calls, d # Boot, \A x : d # <<"cre_tsk", x>>,
         \A x, p : d # <<"chg_pri", x, p>>, call' = [call EXCEPT ![t] = d],
         \A u \in Task : k.state[u] = "NOEXS" => k'.state[u] = "NOEXS"
  PROVE  Flow(a)'
<1>1. /\ t # NoTask /\ NoTask \notin Task /\ INIT_TASK \in Task
      /\ call[INIT_TASK] # Boot /\ Typed(a)
  BY ReadyQueueAssumption, KernelAssumption DEF Flow, CallInv
<1>2. \/ k'.schedtsk = NoTask
      \/ k'.schedtsk \in Task /\ k'.state[k'.schedtsk] = "RDY"
  BY ChosenReady
<1>3. \A u \in Task : call'[u] = IF u = t THEN d ELSE call[u]
  BY <1>1 DEF Typed
<1>4. Typed(a)'
  BY <1>1, <1>2 DEF Typed
<1>5. RunInv'
  BY <1>1, <1>2 DEF RunInv
<1>6. CallInv'
  <2>1. ASSUME NEW u \in Task, NEW x \in Task, call'[u] = <<"cre_tsk", x>>
        PROVE  u \in Creators /\ k'.state[x] = "NOEXS"
    <3>1. call[u] = <<"cre_tsk", x>>
      BY <2>1, <1>3
    <3> QED BY <3>1 DEF Flow, CallInv
  <2>2. ASSUME NEW u \in Task, NEW x \in Task, NEW p \in Line \union {TPRI_INI},
               call'[u] = <<"chg_pri", x, p>>
        PROVE  x = u
    <3>1. call[u] = <<"chg_pri", x, p>>
      BY <2>2, <1>3
    <3> QED BY <3>1 DEF Flow, CallInv
  <2>3. call'[INIT_TASK] # Boot
    BY <1>1, <1>3
  <2> QED BY <2>1, <2>2, <2>3 DEF CallInv
<1> QED BY <1>4, <1>5, <1>6 DEF Flow

(* Between two turns of wait_delete's loop nothing else happens: the task  *)
(* that deletes the object is past its critical section.                   *)
LEMMA LoopFlow ==
  ASSUME NEW a, Flow(a), event \in Obj, runtsk \in Task, Leaving(call[runtsk]),
         UNCHANGED <<runtsk, call>>, event' \in (Obj \union {NoTask}) \ Task,
         \A u \in Task : k.state[u] = "NOEXS" => k'.state[u] = "NOEXS"
  PROVE  Flow(a)'
<1>1. call[INIT_TASK] # Boot /\ NoTask \notin Task
  BY ReadyQueueAssumption DEF Flow, CallInv
<1>2. Typed(a)'
  BY <1>1 DEF Flow, Typed
<1>3. RunInv'
  BY <1>1 DEF RunInv
<1>4. CallInv'
  BY <1>1 DEF Flow, CallInv
<1> QED BY <1>2, <1>3, <1>4 DEF Flow
=============================================================================
