--------------------------------- MODULE Mbox ---------------------------------
(***************************************************************************)
(* A mailbox of services/net/arch/sys_arch.c: a ring of `size' pointers    *)
(* edited in critical sections, and two semaphores used outside them.      *)
(* Tasks preempt each other between any two of these steps; pc[t] is the   *)
(* step task t takes next.  The semaphores are those of module Semaphore,  *)
(* created FIFO with no token.  A poster may be an interrupt handler; it   *)
(* only tries.                                                             *)
(***************************************************************************)
EXTENDS Integers, SequencesExt, FiniteSets

CONSTANTS
  Poster,       \* who posts
  Blocking,     \* the posters that use sys_mbox_post
  Fetcher,      \* who fetches
  Msg,          \* messages
  NULL,         \* a slot that holds none
  Size,         \* the mailbox's size
  TMAX_MAXSEM   \* the limit of a semaphore's count

ASSUME MboxAssumption ==
  /\ Size \in Nat \ {0} /\ TMAX_MAXSEM \in Nat
  /\ Size <= TMAX_MAXSEM
  /\ Blocking \subseteq Poster
  /\ Poster \intersect Fetcher = {}
  /\ NULL \notin Msg
  /\ IsFiniteSet(Poster) /\ IsFiniteSet(Fetcher)

VARIABLES
  q, head, tail, used,    \* struct sys_mbox
  sem_empty, sem_full,    \* its semaphores: the count and who waits
  pc,                     \* where each task is
  msg                     \* the message it posts, or fetched last

ring == <<q, head, tail, used>>
mboxvars == <<q, head, tail, used, sem_empty, sem_full, pc, msg>>

Cell == 0..(Size - 1)
Sem == [cnt : 0..TMAX_MAXSEM, waitq : Seq(Poster \union Fetcher)]

PosterPc == {"idle", "enqueue", "sig_empty", "wai_full", "asleep"}
FetcherPc == {"idle", "wai_empty", "asleep", "dequeue", "try_dequeue", "sig_full"}

MboxInit ==
  /\ q = [i \in Cell |-> NULL]
  /\ head = 0 /\ tail = 0 /\ used = 0
  /\ sem_empty = [cnt |-> 0, waitq |-> <<>>]
  /\ sem_full = [cnt |-> 0, waitq |-> <<>>]
  /\ pc = [t \in Poster \union Fetcher |-> "idle"]
  /\ msg \in [Poster \union Fetcher -> Msg]

At(t, l) == pc[t] = l
Enters(t, l) == pc' = [pc EXCEPT ![t] = l]

(* wai_sem by t: it goes on at l with a token, or sleeps until it is given *)
(* one.  The value is what the semaphore and pc become.                    *)
taken(s) == [s EXCEPT !.cnt = @ - 1]
waits(s, t) == [s EXCEPT !.waitq = Append(@, t)]
withdrawn(s, t) ==   \* its wait timed out: the place it has in the queue is closed
  {[s EXCEPT !.waitq = RemoveAt(@, i)] : i \in {j \in DOMAIN s.waitq : s.waitq[j] = t}}

(* sig_sem: the first waiter, or the count up to its limit, gets the token. *)
signalled(s) ==
  IF s.waitq # <<>> THEN [s EXCEPT !.waitq = Tail(@)]
  ELSE IF s.cnt < TMAX_MAXSEM THEN [s EXCEPT !.cnt = @ + 1]
  ELSE s
woken(s, l, t) ==    \* pc once t has signalled s and its first waiter goes to l
  LET done == [pc EXCEPT ![t] = "idle"]
  IN  IF s.waitq = <<>> THEN done ELSE [done EXCEPT ![Head(s.waitq)] = l]

-----------------------------------------------------------------------------
(* sys_mbox_post, sys_mbox_trypost and sys_mbox_trypost_fromisr *)
post(t, m) ==
  /\ At(t, "idle")
  /\ msg' = [msg EXCEPT ![t] = m]
  /\ Enters(t, "enqueue")
  /\ UNCHANGED <<ring, sem_empty, sem_full>>

(* Faulty: the ring is taken to be full one message late. *)
mbox_try_enqueue_Late(t) ==
  /\ At(t, "enqueue")
  /\ used <= Size
  /\ q' = [q EXCEPT ![head] = msg[t]]
  /\ head' = (head + 1) % Size
  /\ used' = used + 1
  /\ Enters(t, "sig_empty")
  /\ UNCHANGED <<tail, sem_empty, sem_full, msg>>

mbox_try_enqueue(t) ==
  /\ At(t, "enqueue")
  /\ \/ /\ used < Size
        /\ q' = [q EXCEPT ![head] = msg[t]]
        /\ head' = IF head + 1 >= Size THEN 0 ELSE head + 1
        /\ used' = used + 1
        /\ Enters(t, "sig_empty")
        /\ UNCHANGED tail
     \/ /\ used >= Size
        /\ Enters(t, IF t \in Blocking THEN "wai_full" ELSE "idle")
        /\ UNCHANGED ring
  /\ UNCHANGED <<sem_empty, sem_full, msg>>

post_sig_empty(t) ==
  /\ At(t, "sig_empty")
  /\ sem_empty' = signalled(sem_empty)
  /\ pc' = woken(sem_empty, "dequeue", t)
  /\ UNCHANGED <<ring, sem_full, msg>>

post_wai_full(t) ==
  /\ At(t, "wai_full")
  /\ \/ sem_full.cnt > 0 /\ sem_full' = taken(sem_full) /\ Enters(t, "enqueue")
     \/ sem_full.cnt = 0 /\ sem_full' = waits(sem_full, t) /\ Enters(t, "asleep")
  /\ UNCHANGED <<ring, sem_empty, msg>>

-----------------------------------------------------------------------------
(* sys_arch_mbox_fetch; the time it has left is not kept, so a wait may    *)
(* time out at any moment.                                                 *)
fetch(t) ==
  /\ At(t, "idle")
  /\ Enters(t, "wai_empty")
  /\ UNCHANGED <<ring, sem_empty, sem_full, msg>>

fetch_wai_empty(t) ==
  /\ At(t, "wai_empty")
  /\ \/ sem_empty.cnt > 0 /\ sem_empty' = taken(sem_empty) /\ Enters(t, "dequeue")
     \/ sem_empty.cnt = 0 /\ sem_empty' = waits(sem_empty, t) /\ Enters(t, "asleep")
  /\ UNCHANGED <<ring, sem_full, msg>>

(* Faulty: the wait gives up as if it had not been served in between. *)
fetch_timeout_Late(t) ==
  /\ pc[t] \in {"asleep", "dequeue"}
  /\ sem_empty' \in {sem_empty} \union withdrawn(sem_empty, t)
  /\ Enters(t, "idle")
  /\ UNCHANGED <<ring, sem_full, msg>>

fetch_timeout(t) ==
  /\ At(t, "asleep")
  /\ sem_empty' \in withdrawn(sem_empty, t)
  /\ Enters(t, "idle")
  /\ UNCHANGED <<ring, sem_full, msg>>

(* sys_arch_mbox_tryfetch: pol_sem, then the same with another way out. *)
tryfetch(t) ==
  /\ At(t, "idle")
  /\ sem_empty.cnt > 0
  /\ sem_empty' = taken(sem_empty)
  /\ Enters(t, "try_dequeue")
  /\ UNCHANGED <<ring, sem_full, msg>>

(* Faulty: posters are never told that a slot came free. *)
fetch_dequeue_Silent(t) ==
  /\ pc[t] \in {"dequeue", "try_dequeue"}
  /\ used > 0
  /\ msg' = [msg EXCEPT ![t] = q[tail]]
  /\ q' = [q EXCEPT ![tail] = NULL]
  /\ tail' = IF tail + 1 >= Size THEN 0 ELSE tail + 1
  /\ used' = used - 1
  /\ Enters(t, "idle")
  /\ UNCHANGED <<head, sem_empty, sem_full>>

(* A token without a message sends fetch back to wait, tryfetch away.      *)
fetch_dequeue(t) ==
  /\ pc[t] \in {"dequeue", "try_dequeue"}
  /\ \/ /\ used = 0
        /\ Enters(t, IF At(t, "dequeue") THEN "wai_empty" ELSE "idle")
        /\ UNCHANGED <<ring, msg>>
     \/ /\ used > 0
        /\ msg' = [msg EXCEPT ![t] = q[tail]]
        /\ q' = [q EXCEPT ![tail] = NULL]
        /\ tail' = IF tail + 1 >= Size THEN 0 ELSE tail + 1
        /\ used' = used - 1
        /\ Enters(t, IF used >= Size THEN "sig_full" ELSE "idle")
        /\ UNCHANGED head
  /\ UNCHANGED <<sem_empty, sem_full>>

fetch_sig_full(t) ==
  /\ At(t, "sig_full")
  /\ sem_full' = signalled(sem_full)
  /\ pc' = woken(sem_full, "enqueue", t)
  /\ UNCHANGED <<ring, sem_empty, msg>>

-----------------------------------------------------------------------------
(* What a task does inside a call. *)
Runs(t) ==
  \/ t \in Poster /\ (mbox_try_enqueue(t) \/ post_sig_empty(t) \/ post_wai_full(t))
  \/ t \in Fetcher /\ (fetch_wai_empty(t) \/ fetch_dequeue(t) \/ fetch_sig_full(t))

MboxNext ==
  \/ \E t \in Poster, m \in Msg : post(t, m)
  \/ \E t \in Fetcher : fetch(t) \/ tryfetch(t) \/ fetch_timeout(t)
  \/ \E t \in Poster \union Fetcher : Runs(t)

(* A task inside a call gets the processor sooner or later, and some task  *)
(* fetches again and again (lwIP's tcpip_thread).                          *)
MboxFairness ==
  /\ \A t \in Poster \union Fetcher : WF_mboxvars(Runs(t))
  /\ \A t \in Fetcher : WF_mboxvars(fetch(t))

MboxSpec == MboxInit /\ [][MboxNext]_mboxvars
FairSpec == MboxSpec /\ MboxFairness

-----------------------------------------------------------------------------
(* The fields have their types; head and tail stay in the ring.            *)
MboxTypeOK ==
  /\ q \in [Cell -> Msg \union {NULL}]
  /\ head \in Cell /\ tail \in Cell /\ used \in 0..Size
  /\ sem_empty \in Sem /\ sem_full \in Sem
  /\ \A t \in Poster : pc[t] \in PosterPc
  /\ \A t \in Fetcher : pc[t] \in FetcherPc
  /\ msg \in [Poster \union Fetcher -> Msg]

Count(T, l) == Cardinality({t \in T : pc[t] \in l})

(* Tokens and messages correspond though they are handled apart: a message *)
(* not announced yet, or whose token is with a fetcher, has no token in    *)
(* the count, so the used == 0 branches of the fetches are never taken,    *)
(* timeouts included (sys_arch.c 406-413, 462-480).                        *)
TokenPerMessage ==
  sem_empty.cnt + Count(Fetcher, {"dequeue", "try_dequeue"})
    + Count(Poster, {"sig_empty"}) = used

(* A task that sleeps is in the queue of the semaphore that can wake it,   *)
(* once, and in no other: no signal wakes a fetcher that has left with a   *)
(* timeout, none is lost on one that sleeps (sys_arch.c 304, 406, 462).    *)
SleepersQueued ==
  /\ sem_empty.waitq \in Seq(Fetcher) /\ sem_full.waitq \in Seq(Poster)
  /\ IsInjective(sem_empty.waitq) /\ IsInjective(sem_full.waitq)
  /\ \A t \in Fetcher : At(t, "asleep") <=> t \in ToSet(sem_empty.waitq)
  /\ \A t \in Poster : At(t, "asleep") <=> t \in ToSet(sem_full.waitq)

(* The ring and its critical sections implement the channel. *)
Chan == INSTANCE Channel WITH
          chan <- [i \in 1..used |-> q[(tail + i - 1) % Size]],
          got  <- [t \in Fetcher |-> msg[t]]
ChannelSpec == Chan!Spec

(* sem_full wakes posters when a slot frees (sys_arch.c:304): no poster    *)
(* sleeps on while the mailbox has room.                                   *)
PosterWakes ==
  \A t \in Blocking : t \in ToSet(sem_full.waitq) /\ used < Size
                        ~> t \notin ToSet(sem_full.waitq)

(* The ring and the two semaphores of sys_mbox_t agree (sys_arch.c).       *)
TokensExact == MboxTypeOK /\ TokenPerMessage /\ SleepersQueued
=============================================================================
