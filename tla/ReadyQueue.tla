----------------------------- MODULE ReadyQueue -----------------------------
(***************************************************************************)
(* The lists of the kernel and the ready queue built from them:            *)
(* src/kernel/kqueue.h and src/kernel/rdyq.h.                              *)
(***************************************************************************)
EXTENDS Integers, SequencesExt

(***************************************************************************)
(* The kernel's circular doubly linked lists (src/kernel/kqueue.h), seen   *)
(* as sequences: a list head is the sequence of the nodes that follow it.  *)
(* A node is linked in at most one list, so unlinking a node never needs   *)
(* the list it is in.                                                      *)
(***************************************************************************)

CONSTANT QueueHead  \* a list head read as if it were a member of the list

kqueue_empty(q) == q = <<>>

(* queue->next; an empty list points back at its own head. *)
kqueue_next(q) == IF q = <<>> THEN QueueHead ELSE q[1]

(* Faulty: a list that grows at its front. *)
kqueue_insert_AtFront(q, e) == <<e>> \o q

(* kqueue_insert(entry, &head): the entry becomes the last of the list. *)
kqueue_insert(q, e) == Append(q, e)

Position(q, e) == CHOOSE i \in DOMAIN q : q[i] = e

(* Unlinks e; nothing happens to a list e is not in. *)
kqueue_remove(q, e) ==
  IF e \in ToSet(q) THEN RemoveAt(q, Position(q, e)) ELSE q

(* The index kqueue_find_pri stops at: the first member of a lower         *)
(* precedence than prio, else one past the end (the head).                 *)
kqueue_find_pri(q, pri, prio) ==
  CHOOSE i \in 1..Len(q) + 1 :
    /\ i <= Len(q) => pri[q[i]] > prio
    /\ \A j \in 1..(i - 1) : pri[q[j]] <= prio

(* kqueue_insert_pri: behind every member of the same or a higher          *)
(* precedence; pri gives the members' current priority.                    *)
kqueue_insert_pri(q, e, pri) ==
  InsertAt(q, kqueue_find_pri(q, pri, pri[e]), e)

-----------------------------------------------------------------------------
(***************************************************************************)
(* The ready queue (src/kernel/rdyq.h): one list per priority line, a      *)
(* bitmap of the non-empty lines cut into words of BITMAPSZ bits, and the  *)
(* cached top_priority.  Priorities are the 0-based indexes pri_to_index   *)
(* gives, 0 being the highest.  A word is the set of its bits that are 1.  *)
(***************************************************************************)

CONSTANTS
  Task,         \* the task control blocks
  NoTask,       \* the null TCB pointer
  TMAX_TPRI,    \* the number of priority lines
  BITMAPSZ      \* bits in a word of the bitmap (1 << BITMAPSHIFT)

ASSUME ReadyQueueAssumption ==
  /\ TMAX_TPRI \in Nat \ {0}
  /\ BITMAPSZ \in Nat \ {0}
  /\ NoTask \notin Task
  /\ QueueHead \notin Task

NUM_BITMAP == (TMAX_TPRI + BITMAPSZ - 1) \div BITMAPSZ
Line == 0..(TMAX_TPRI - 1)
Word == 0..(NUM_BITMAP - 1)
Bit == 0..(BITMAPSZ - 1)

RdyqType == [top_priority : 0..TMAX_TPRI,
             priq         : [Line -> Seq(Task)],
             bitmap       : [Word -> SUBSET Bit]]

rdyq_init == [top_priority |-> TMAX_TPRI,
              priq         |-> [p \in Line |-> <<>>],
              bitmap       |-> [w \in Word |-> {}]]

(* Faulty: the bit number is the priority itself. *)
rdyq_bitmap_set_NoMask(bm, p) ==
  [bm EXCEPT ![p \div BITMAPSZ] = @ \union {p}]

rdyq_bitmap_set(bm, p) ==
  [bm EXCEPT ![p \div BITMAPSZ] = @ \union {p % BITMAPSZ}]

(* Faulty: the bit of a line that ran empty stays 1. *)
rdyq_bitmap_clear_Missing(bm, p) == bm

rdyq_bitmap_clear(bm, p) ==
  [bm EXCEPT ![p \div BITMAPSZ] = @ \ {p % BITMAPSZ}]

(* The lowest bit of a word that is not 0. *)
_ffs(w) == CHOOSE b \in w : \A c \in w : b <= c

(* The scan of the words from priority >> BITMAPSHIFT on. *)
rdyq_scan(bm, p) ==
  LET later == {w \in Word : w >= p \div BITMAPSZ /\ bm[w] # {}}
      i     == CHOOSE w \in later : \A v \in later : w <= v
  IN  IF later = {} THEN TMAX_TPRI ELSE i * BITMAPSZ + _ffs(bm[i])

(* The field `null' follows priq, so the head of line TMAX_TPRI reads 0. *)
rdyq_top(rq) ==
  IF rq.top_priority = TMAX_TPRI THEN NoTask
  ELSE kqueue_next(rq.priq[rq.top_priority])

(* rdyq_insert's return value: the task becomes the top. *)
rdyq_insert_tops(rq, p) == p < rq.top_priority

rdyq_insert(rq, t, p) ==
  [top_priority |-> IF p < rq.top_priority THEN p ELSE rq.top_priority,
   priq         |-> [rq.priq EXCEPT ![p] = kqueue_insert(@, t)],
   bitmap       |-> rdyq_bitmap_set(rq.bitmap, p)]

(* A task that waits is linked elsewhere: no line of rq changes then.  *)
rdyq_unlink(rq, t) == [p \in Line |-> kqueue_remove(rq.priq[p], t)]

rdyq_remove(rq, t, p) ==
  LET lines == rdyq_unlink(rq, t)
      clear == rdyq_bitmap_clear(rq.bitmap, p)
  IN  IF ~kqueue_empty(lines[p]) THEN [rq EXCEPT !.priq = lines]
      ELSE [top_priority |-> IF p # rq.top_priority THEN rq.top_priority
                             ELSE rdyq_scan(clear, p),
            priq         |-> lines,
            bitmap       |-> clear]

(* rdyq_rotate: the first task of the line becomes its last. *)
rdyq_rotate(rq, p) ==
  IF kqueue_empty(rq.priq[p]) THEN rq
  ELSE [rq EXCEPT !.priq[p] = kqueue_insert(Tail(@), Head(@))]

-----------------------------------------------------------------------------
(* The ready queue's invariant, in parts. *)

(* A bit is 1 exactly when its line holds a task. *)
BitmapExact(rq) ==
  \A p \in Line :
    p % BITMAPSZ \in rq.bitmap[p \div BITMAPSZ] <=> rq.priq[p] # <<>>

(* No bit beyond the last line is 1: the scan never returns one. *)
BitmapBounded(rq) ==
  \A w \in Word : \A b \in rq.bitmap[w] : w * BITMAPSZ + b < TMAX_TPRI

(* top_priority is the first line that holds a task, if one does. *)
TopExact(rq) ==
  /\ rq.top_priority < TMAX_TPRI => rq.priq[rq.top_priority] # <<>>
  /\ \A p \in Line : rq.priq[p] # <<>> => rq.top_priority <= p

(* A task is linked at most once. *)
LinkedOnce(rq) ==
  /\ \A p \in Line : IsInjective(rq.priq[p])
  /\ \A p, q \in Line :
       ToSet(rq.priq[p]) \intersect ToSet(rq.priq[q]) # {} => p = q

RdyqInv(rq) ==
  /\ rq \in RdyqType
  /\ BitmapExact(rq)
  /\ BitmapBounded(rq)
  /\ TopExact(rq)
  /\ LinkedOnce(rq)
=============================================================================
