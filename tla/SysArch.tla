------------------------------- MODULE SysArch -------------------------------
(***************************************************************************)
(* services/net/arch/sys_arch.c: the semaphores and threads that lwIP      *)
(* makes and destroys, from two static pools.  A semaphore is created in   *)
(* the kernel once and then used again; a mutex has one and a mailbox two, *)
(* beside blocks of the heap, and any of these may not be had.             *)
(***************************************************************************)
EXTENDS SequencesExt, Integers, FiniteSets

CONSTANTS
  SysUser,            \* tasks that call lwIP
  LWIP_SEM_COUNT, LWIP_THREAD_COUNT,
  MaxCalls,           \* bound: objects that a task makes
  Alone               \* may no task run between another's choice of a
                      \* semaphore and its marking it

ASSUME SysAssumption ==
  /\ IsFiniteSet(SysUser) /\ LWIP_SEM_COUNT \in Nat \ {0} /\ LWIP_THREAD_COUNT \in Nat
  /\ MaxCalls \in Nat /\ Alone \in BOOLEAN

VARIABLES
  sem_pool,           \* [created, free, count], by number
  thread_pool,        \* [used, fn, task]: the task that was made of it, if any
  heap,               \* blocks that are allocated
  sys,                \* a task's call: [at, kind, want, got, slot]
  objs,               \* what it holds: sequence of [kind, sems]
  calls

sysvars == <<sem_pool, thread_pool, heap, sys, objs, calls>>

Slot == 1..LWIP_SEM_COUNT
Thread == 1..LWIP_THREAD_COUNT
Call(at, kind, want, got, slot) == [at |-> at, kind |-> kind, want |-> want, got |-> got, slot |-> slot]
IdleCall == Call("idle", "none", <<>>, <<>>, 0)

SysInit ==
  /\ sem_pool = [i \in Slot |-> [created |-> FALSE, free |-> TRUE, count |-> 0]]
  /\ thread_pool = [i \in Thread |-> [used |-> FALSE, fn |-> "none", task |-> "none"]]
  /\ heap = 0 /\ sys = [u \in SysUser |-> IdleCall] /\ objs = [u \in SysUser |-> <<>>]
  /\ calls = [u \in SysUser |-> 0]

(* What each kind is made of: the counts of its semaphores, and blocks of  *)
(* the heap that are allocated before them.                                *)
Counts(kind) == CASE kind = "sem" -> <<0>> [] kind = "mutex" -> <<1>> [] kind = "mbox" -> <<0, 0>>
Blocks(kind) == CASE kind = "sem" -> 0 [] kind = "mutex" -> 1 [] kind = "mbox" -> 2

Calls(u, c) == sys' = [sys EXCEPT ![u] = c]

(* sys_sem_new, sys_mutex_new, sys_mbox_new: the first allocations fail    *)
(* and leave nothing, or succeed.                                          *)
sys_new(u) ==
  /\ sys[u].at = "idle" /\ calls[u] < MaxCalls /\ calls' = [calls EXCEPT ![u] = @ + 1]
  /\ \E kind \in {"sem", "mutex", "mbox"} :
       \/ Blocks(kind) > 0 /\ UNCHANGED <<heap, sys>>
       \/ /\ heap' = heap + Blocks(kind)
          /\ Calls(u, Call("search", kind, Counts(kind), <<>>, 0))
  /\ UNCHANGED <<sem_pool, thread_pool, objs>>

(* One more semaphore, or none (0): the call goes on to the next.          *)
Got(u, s) ==
  LET c == sys[u]
      got == Append(c.got, s)
  IN  Calls(u, Call(IF Len(got) = Len(c.want) THEN "made" ELSE "search", c.kind, c.want, got, 0))

(* A semaphore is emptied before it is given a count, or goes back.        *)
sem_drain(x) == [x EXCEPT !.count = 0]
sem_given(x, cnt) == LET e == sem_drain(x) IN [created |-> TRUE, free |-> e.free, count |-> e.count + cnt]
sem_back(x) == LET e == sem_drain(x) IN [created |-> e.created, free |-> TRUE, count |-> e.count]

(* sem_alloc_from_pool takes the first that is free, creates it when it    *)
(* has not been, and gives it its count; then marks it and allocates.      *)
sem_search(u) ==
  /\ sys[u].at = "search"
  /\ Alone => \A v \in SysUser : sys[v].at /= "mark"
  /\ LET free == {i \in Slot : sem_pool[i].free}
     IN  \/ free = {} /\ Got(u, 0) /\ UNCHANGED sem_pool
         \/ \E s \in free :
              /\ \A i \in free : s <= i
              /\ \/ ~sem_pool[s].created /\ Got(u, 0) /\ UNCHANGED sem_pool
                 \/ LET c == sys[u]
                    IN  /\ sem_pool' = [sem_pool EXCEPT ![s] = sem_given(@, c.want[Len(c.got) + 1])]
                        /\ Calls(u, Call("mark", c.kind, c.want, c.got, s))
  /\ UNCHANGED <<thread_pool, heap, objs, calls>>
sem_mark(u) ==
  /\ sys[u].at = "mark"
  /\ LET s == sys[u].slot
     IN  \/ /\ sem_pool' = [sem_pool EXCEPT ![s].free = FALSE] /\ heap' = heap + 1
            /\ Got(u, s)
         \/ /\ sem_pool' = [sem_pool EXCEPT ![s] = sem_back(@)]
            /\ Got(u, 0) /\ UNCHANGED heap
  /\ UNCHANGED <<thread_pool, objs, calls>>

(* sem_release_to_pool, of each in s; NULL is none.                        *)
sem_release_to_pool(pool, s) ==
  [i \in Slot |-> IF i \in ToSet(s) THEN sem_back(pool[i]) ELSE pool[i]]
Made(s) == Cardinality({i \in DOMAIN s : s[i] /= 0})

(* Faulty: a mailbox without its second semaphore keeps the first. *)
sys_made_Leaks(u) ==
  /\ sys[u].at = "made"
  /\ LET c == sys[u]
     IN  IF 0 \notin ToSet(c.got)
         THEN objs' = [objs EXCEPT ![u] = Append(@, [kind |-> c.kind, sems |-> c.got])]
              /\ UNCHANGED <<sem_pool, heap>>
         ELSE heap' = heap - Blocks(c.kind) - Made(c.got) /\ UNCHANGED <<sem_pool, objs>>
  /\ Calls(u, IdleCall)
  /\ UNCHANGED <<thread_pool, calls>>

(* The object is the caller's, or all that it was to have is given back.   *)
sys_made(u) ==
  /\ sys[u].at = "made"
  /\ LET c == sys[u]
     IN  IF 0 \notin ToSet(c.got)
         THEN objs' = [objs EXCEPT ![u] = Append(@, [kind |-> c.kind, sems |-> c.got])]
              /\ UNCHANGED <<sem_pool, heap>>
         ELSE /\ sem_pool' = sem_release_to_pool(sem_pool, c.got)
              /\ heap' = heap - Blocks(c.kind) - Made(c.got) /\ UNCHANGED objs
  /\ Calls(u, IdleCall)
  /\ UNCHANGED <<thread_pool, calls>>

(* sys_sem_free, sys_mutex_free, sys_mbox_free.                            *)
sys_free(u) ==
  /\ sys[u].at = "idle" /\ objs[u] /= <<>>
  /\ LET o == Head(objs[u])
     IN  /\ sem_pool' = sem_release_to_pool(sem_pool, o.sems)
         /\ heap' = heap - Blocks(o.kind) - Len(o.sems)
         /\ objs' = [objs EXCEPT ![u] = Tail(@)]
  /\ UNCHANGED <<thread_pool, sys, calls>>

(* sys_sem_signal; what is left of it when the semaphore goes back counts  *)
(* for the next owner if it is not drained.                                *)
sys_sem_signal(u) ==
  /\ sys[u].at = "idle" /\ objs[u] /= <<>>
  /\ LET s == Last(Head(objs[u]).sems)
     IN  sem_pool[s].count < 2 /\ sem_pool' = [sem_pool EXCEPT ![s].count = @ + 1]
  /\ UNCHANGED <<thread_pool, heap, sys, objs, calls>>

------------------------------------------------------------------------------
(* sys_thread_new: a place is taken in a critical section, and given back  *)
(* when the task cannot be created or started.                             *)
Unused == {i \in Thread : ~thread_pool[i].used}
sys_thread_new(u, fn) ==
  /\ sys[u].at = "idle"
  /\ \E i \in Unused :
       /\ \A j \in Unused : i <= j
       /\ thread_pool' = [thread_pool EXCEPT ![i].used = TRUE, ![i].fn = fn]
       /\ Calls(u, Call("cre", fn, <<>>, <<>>, i))
  /\ UNCHANGED <<sem_pool, heap, objs>>

(* cre_tsk and act_tsk; the task calls slot->fn.                           *)
sys_thread_started(u) ==
  /\ sys[u].at = "cre"
  /\ LET i == sys[u].slot
     IN  \/ thread_pool' = [thread_pool EXCEPT ![i].task = thread_pool[i].fn]
         \/ thread_pool' = [thread_pool EXCEPT ![i].used = FALSE]
  /\ Calls(u, IdleCall)
  /\ UNCHANGED <<sem_pool, heap, objs, calls>>

SysObject(u) == sys_new(u) \/ sem_search(u) \/ sem_mark(u) \/ sys_made(u) \/ sys_free(u) \/ sys_sem_signal(u)
SysThread(u) ==
  \/ calls[u] < MaxCalls /\ sys_thread_new(u, u) /\ calls' = [calls EXCEPT ![u] = @ + 1]
  \/ sys_thread_started(u)
SysStep == \E u \in SysUser : SysObject(u) \/ SysThread(u)

------------------------------------------------------------------------------
(* Every semaphore that is taken has one holder, the call (place 0) or an  *)
(* object of a task, and every block of the heap belongs to one of these,  *)
(* through every failure half way.  As no semaphore is in two objects,     *)
(* objects are counted by the first that each has.                         *)
Sems(u, n) == IF n = 0 THEN sys[u].got ELSE objs[u][n].sems
Places(u) == 0..Len(objs[u])
Held(s) == \E u \in SysUser : \E n \in Places(u) : s \in ToSet(Sems(u, n))
HeldOnce ==
  \A u, v \in SysUser : \A n \in Places(u), m \in Places(v) :
    \A i \in DOMAIN Sems(u, n), j \in DOMAIN Sems(v, m) :
      Sems(u, n)[i] = Sems(v, m)[j] /\ Sems(u, n)[i] /= 0 => u = v /\ n = m /\ i = j
Taken == {s \in Slot : ~sem_pool[s].free}

Firsts(kind) ==
  {s \in Slot : \E u \in SysUser : \E n \in DOMAIN objs[u] :
                   objs[u][n].kind = kind /\ objs[u][n].sems[1] = s}
Making(kind) == {u \in SysUser : sys[u].at \in {"search", "mark", "made"} /\ sys[u].kind = kind}
InHeap(kind) == Blocks(kind) * (Cardinality(Firsts(kind)) + Cardinality(Making(kind)))
SlotsExact ==
  /\ Taken = {s \in Slot : Held(s)} /\ HeldOnce
  /\ heap = Cardinality(Taken) + InHeap("mutex") + InHeap("mbox")

(* A semaphore that was used before starts with the count asked for.       *)
FreshCount ==
  \A u \in SysUser : sys[u].at = "mark" =>
    sem_pool[sys[u].slot].count = sys[u].want[Len(sys[u].got) + 1]

(* A thread that was asked for runs its own function, and no other's.      *)
ThreadsOwn ==
  \A u \in SysUser : sys[u].at = "cre" =>
    /\ thread_pool[sys[u].slot].fn = sys[u].kind
    /\ thread_pool[sys[u].slot].task = "none"

(* The pools and the heap of sys_arch.c belong exactly to the objects that *)
(* exist or are being made, with the counts and functions asked for.       *)
PoolsExact == SlotsExact /\ FreshCount /\ ThreadsOwn
=============================================================================
