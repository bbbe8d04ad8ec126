---------------------------- MODULE TasksProofs ----------------------------
(***************************************************************************)
(* Lemmas about the lists, the ready queue and task.c, and the theorems    *)
(* about the scheduler, for every number of priority lines, every word     *)
(* size and every set of tasks.                                            *)
(***************************************************************************)
EXTENDS Sched, SequenceTheorems, FiniteSetTheorems, TLAPS

-----------------------------------------------------------------------------
(* Lists *)

(* kqueue_insert adds one member at the end and nothing else.              *)
LEMMA InsertMembers ==
  ASSUME NEW S, NEW q \in Seq(S), NEW e \in S, IsInjective(q), e \notin ToSet(q)
  PROVE  /\ kqueue_insert(q, e) \in Seq(S)
         /\ IsInjective(kqueue_insert(q, e))
         /\ ToSet(kqueue_insert(q, e)) = ToSet(q) \union {e}
         /\ kqueue_insert(q, e) # <<>>
         /\ q # <<>> => Head(kqueue_insert(q, e)) = Head(q)
         /\ q = <<>> => Head(kqueue_insert(q, e)) = e
<1> DEFINE r == Append(q, e)
<1>1. /\ r \in Seq(S) /\ Len(r) = Len(q) + 1
      /\ DOMAIN r = 1..(Len(q) + 1) /\ DOMAIN q = 1..Len(q)
  OBVIOUS
<1>2. \A i \in 1..Len(q) : r[i] = q[i]
  OBVIOUS
<1>3. r[Len(q) + 1] = e
  OBVIOUS
<1> HIDE DEF r
<1>4. IsInjective(r)
  BY <1>1, <1>2, <1>3 DEF IsInjective, ToSet
<1>5. ToSet(r) = ToSet(q) \union {e}
  BY <1>1, <1>2, <1>3 DEF ToSet
<1>6. r # <<>> /\ Head(r) = r[1]
  BY <1>1
<1>7. q # <<>> => 1 \in 1..Len(q) /\ Head(q) = q[1]
  OBVIOUS
<1>8. q = <<>> => Len(q) + 1 = 1
  OBVIOUS
<1> QED BY <1>1, <1>2, <1>3, <1>4, <1>5, <1>6, <1>7, <1>8 DEF kqueue_insert, r

(* kqueue_remove closes the place of a member; the others keep their order. *)
LEMMA RemovePlace ==
  ASSUME NEW S, NEW q \in Seq(S), NEW e \in ToSet(q)
  PROVE  \E n \in 1..Len(q) :
           /\ q[n] = e /\ kqueue_remove(q, e) = RemoveAt(q, n)
           /\ kqueue_remove(q, e) \in Seq(S)
           /\ Len(kqueue_remove(q, e)) = Len(q) - 1
           /\ \A i \in 1..(Len(q) - 1) :
                kqueue_remove(q, e)[i] = IF i < n THEN q[i] ELSE q[i + 1]
<1> DEFINE n == Position(q, e)
           r == RemoveAt(q, n)
           u == SubSeq(q, 1, n - 1)
           v == SubSeq(q, n + 1, Len(q))
<1>1. n \in 1..Len(q) /\ q[n] = e
  BY DEF Position, ToSet
<1>2. kqueue_remove(q, e) = r
  BY DEF kqueue_remove, n
<1> HIDE DEF n
<1>3. /\ u \in Seq(S) /\ Len(u) = n - 1
      /\ \A i \in 1..(n - 1) : u[i] = q[i]
  BY <1>1, SubSeqProperties
<1>4. /\ v \in Seq(S) /\ Len(v) = Len(q) - n
      /\ \A i \in 1..(Len(q) - n) : v[i] = q[n + i]
  BY <1>1, SubSeqProperties
<1>5. r = u \o v
  BY DEF RemoveAt
<1> HIDE DEF u, v, r
<1>6. /\ u \o v \in Seq(S) /\ Len(u \o v) = Len(u) + Len(v)
      /\ \A i \in 1..(Len(u) + Len(v)) :
           (u \o v)[i] = IF i <= Len(u) THEN u[i] ELSE v[i - Len(u)]
  BY <1>3, <1>4, ConcatProperties
<1>7. Len(r) = Len(q) - 1
  BY <1>1, <1>3, <1>4, <1>5, <1>6
<1>8. ASSUME NEW i \in 1..Len(r)
      PROVE  r[i] = IF i < n THEN q[i] ELSE q[i + 1]
  <2>1. CASE i < n
    BY <2>1, <1>1, <1>3, <1>4, <1>5, <1>6, <1>7
  <2>2. CASE ~(i < n)
    <3>1. i - (n - 1) \in 1..(Len(q) - n) /\ n + (i - (n - 1)) = i + 1
      BY <2>2, <1>1, <1>7
    <3>2. r[i] = v[i - (n - 1)]
      BY <2>2, <1>1, <1>3, <1>4, <1>5, <1>6, <1>7
    <3>3. v[i - (n - 1)] = q[n + (i - (n - 1))]
      BY <3>1, <1>4
    <3> QED BY <3>1, <3>2, <3>3, <2>2
  <2> QED BY <2>1, <2>2
<1> QED BY <1>1, <1>2, <1>5, <1>6, <1>7, <1>8 DEF r

(* kqueue_remove unlinks e, and nothing but e.                             *)
LEMMA RemoveMembers ==
  ASSUME NEW S, NEW q \in Seq(S), NEW e, IsInjective(q)
  PROVE  /\ kqueue_remove(q, e) \in Seq(S)
         /\ IsInjective(kqueue_remove(q, e))
         /\ ToSet(kqueue_remove(q, e)) = ToSet(q) \ {e}
         /\ q # <<>> /\ Head(q) # e =>
              kqueue_remove(q, e) # <<>> /\ Head(kqueue_remove(q, e)) = Head(q)
<1>1. CASE e \notin ToSet(q)
  BY <1>1 DEF kqueue_remove
<1>2. CASE e \in ToSet(q)
  <2> DEFINE r == kqueue_remove(q, e)
  <2>1. PICK n \in 1..Len(q) :
          /\ q[n] = e /\ r \in Seq(S) /\ Len(r) = Len(q) - 1
          /\ \A i \in 1..(Len(q) - 1) : r[i] = IF i < n THEN q[i] ELSE q[i + 1]
    BY <1>2, RemovePlace
  <2>2. /\ r \in Seq(S)
        /\ Len(r) = Len(q) - 1
        /\ \A i \in 1..Len(r) : r[i] = IF i < n THEN q[i] ELSE q[i + 1]
    BY <2>1
  <2> HIDE DEF r
  <2>4. IsInjective(r)
    <3> SUFFICES ASSUME NEW i \in 1..Len(r), NEW j \in 1..Len(r), r[i] = r[j]
                 PROVE  i = j
      BY <2>2 DEF IsInjective
    <3> DEFINE f(m) == IF m < n THEN m ELSE m + 1
    <3>1. r[i] = q[f(i)] /\ r[j] = q[f(j)]
      BY <2>2
    <3>2. f(i) \in DOMAIN q /\ f(j) \in DOMAIN q
      BY <2>1, <2>2
    <3>3. f(i) = f(j)
      BY <3>1, <3>2 DEF IsInjective
    <3> QED BY <3>3, <2>1
  <2>5. ToSet(r) \subseteq ToSet(q) \ {e}
    <3> SUFFICES ASSUME NEW i \in 1..Len(r) PROVE r[i] \in ToSet(q) /\ r[i] # e
      BY <2>2 DEF ToSet
    <3> DEFINE m == IF i < n THEN i ELSE i + 1
    <3>1. m \in DOMAIN q /\ m # n /\ n \in DOMAIN q /\ r[i] = q[m]
      BY <2>1, <2>2
    <3> QED BY <3>1, <2>1 DEF IsInjective, ToSet
  <2>6. ASSUME NEW i \in 1..Len(q), q[i] # e PROVE q[i] \in ToSet(r)
    <3>1. CASE i < n
      BY <3>1, <2>1, <2>2 DEF ToSet
    <3>2. CASE i > n
      <4>1. i - 1 \in 1..Len(r) /\ r[i - 1] = q[i]
        BY <3>2, <2>1, <2>2
      <4> QED BY <4>1, <2>2 DEF ToSet
    <3> QED BY <2>1, <2>6, <3>1, <3>2
  <2>7. ToSet(q) \ {e} \subseteq ToSet(r)
    BY <2>6 DEF ToSet
  <2>8. ASSUME q # <<>>, Head(q) # e PROVE r # <<>> /\ Head(r) = Head(q)
    <3>1. Head(q) = q[1] /\ 1 < n
      BY <2>1, <2>8
    <3>2. 1 \in 1..Len(r) /\ r[1] = q[1]
      BY <3>1, <2>1, <2>2
    <3> QED BY <3>1, <3>2, <2>2
  <2> QED BY <2>2, <2>4, <2>5, <2>7, <2>8 DEF r
<1> QED BY <1>1, <1>2

(* Rotating a list that is not empty keeps its members.                    *)
LEMMA RotateMembers ==
  ASSUME NEW S, NEW q \in Seq(S), q # <<>>, IsInjective(q)
  PROVE  LET r == kqueue_insert(Tail(q), Head(q))
         IN  r \in Seq(S) /\ IsInjective(r) /\ ToSet(r) = ToSet(q) /\ r # <<>>
<1> DEFINE u == Tail(q)
<1>1. /\ Head(q) = q[1] /\ q[1] \in S /\ Len(q) >= 1
      /\ u \in Seq(S) /\ Len(u) = Len(q) - 1
      /\ \A i \in 1..Len(u) : u[i] = q[i + 1]
  OBVIOUS
<1> HIDE DEF u
<1>2. IsInjective(u)
  <2> SUFFICES ASSUME NEW i \in 1..Len(u), NEW j \in 1..Len(u), u[i] = u[j]
               PROVE  i = j
    BY <1>1 DEF IsInjective
  <2>1. q[i + 1] = q[j + 1] /\ i + 1 \in DOMAIN q /\ j + 1 \in DOMAIN q
    BY <1>1
  <2> QED BY <2>1 DEF IsInjective
<1>3. q[1] \notin ToSet(u)
  <2> SUFFICES ASSUME NEW i \in 1..Len(u), u[i] = q[1] PROVE FALSE
    BY <1>1 DEF ToSet
  <2>1. q[i + 1] = q[1] /\ i + 1 \in DOMAIN q /\ 1 \in DOMAIN q
    BY <1>1
  <2> QED BY <2>1 DEF IsInjective
<1>4. ToSet(u) \union {q[1]} = ToSet(q)
  <2>1. ToSet(u) \subseteq ToSet(q)
    <3> SUFFICES ASSUME NEW i \in 1..Len(u) PROVE u[i] \in ToSet(q)
      BY <1>1 DEF ToSet
    <3>1. u[i] = q[i + 1] /\ i + 1 \in DOMAIN q
      BY <1>1
    <3> QED BY <3>1 DEF ToSet
  <2>2. ASSUME NEW i \in 1..Len(q) PROVE q[i] \in ToSet(u) \union {q[1]}
    <3>1. CASE i = 1
      BY <3>1
    <3>2. CASE i # 1
      <4>1. i - 1 \in 1..Len(u) /\ u[i - 1] = q[i]
        BY <3>2, <1>1
      <4> QED BY <4>1, <1>1 DEF ToSet
    <3> QED BY <3>1, <3>2
  <2>3. q[1] \in ToSet(q)
    BY <1>1 DEF ToSet
  <2>4. ToSet(q) \subseteq ToSet(u) \union {q[1]}
    BY <2>2, <1>1 DEF ToSet
  <2> QED BY <2>1, <2>3, <2>4
<1>5. /\ kqueue_insert(u, q[1]) \in Seq(S)
      /\ IsInjective(kqueue_insert(u, q[1]))
      /\ ToSet(kqueue_insert(u, q[1])) = ToSet(u) \union {q[1]}
      /\ kqueue_insert(u, q[1]) # <<>>
  BY <1>1, <1>2, <1>3, InsertMembers
<1> QED BY <1>1, <1>4, <1>5 DEF u

-----------------------------------------------------------------------------
(* Bits and words *)

(* Division by the word size and its remainder (p >> SHIFT, p & MASK).      *)
LEMMA DivMod ==
  ASSUME NEW B \in Nat \ {0}, NEW p \in Nat
  PROVE  /\ p \div B \in Nat /\ (p % B) \in 0..(B - 1)
         /\ p = (p \div B) * B + (p % B)
OBVIOUS

(* A bit of an earlier word is a higher priority than one of a later word. *)
LEMMA WordOrder ==
  ASSUME NEW B \in Nat \ {0}, NEW v \in Nat, NEW w \in Nat, v < w,
         NEW b \in 0..(B - 1), NEW c \in Nat
  PROVE  v * B + b < w * B + c
<1>1. v + 1 <= w
  OBVIOUS
<1>2. (v + 1) * B <= w * B
  BY <1>1
<1>3. (v + 1) * B = v * B + B
  OBVIOUS
<1> QED BY <1>2, <1>3

(* Every line has a word and a bit of its own.                             *)
LEMMA LineBit ==
  ASSUME NEW p \in Line
  PROVE  /\ p \div BITMAPSZ \in Word
         /\ p % BITMAPSZ \in Bit
         /\ p = (p \div BITMAPSZ) * BITMAPSZ + (p % BITMAPSZ)
<1> DEFINE B == BITMAPSZ
           w == p \div B
           n == (TMAX_TPRI + B - 1) \div B
<1>1. B \in Nat \ {0} /\ p \in Nat /\ TMAX_TPRI \in Nat /\ p <= TMAX_TPRI - 1
  BY ReadyQueueAssumption DEF Line
<1>2. w \in Nat /\ (p % B) \in 0..(B - 1) /\ p = w * B + (p % B)
  BY <1>1, DivMod
<1>3. /\ n \in Nat
      /\ ((TMAX_TPRI + B - 1) % B) \in 0..(B - 1)
      /\ TMAX_TPRI + B - 1 = n * B + ((TMAX_TPRI + B - 1) % B)
  <2>1. TMAX_TPRI + B - 1 \in Nat
    BY <1>1
  <2> QED BY <2>1, <1>1, DivMod
<1> HIDE DEF B, w, n
<1>4. w < n
  <2>1. CASE w = n
    <3>1. w * B = n * B
      BY <2>1
    <3> QED BY <3>1, <1>1, <1>2, <1>3
  <2>2. CASE n < w
    <3>1. n * B + ((TMAX_TPRI + B - 1) % B) < w * B + 0
      BY <2>2, <1>1, <1>2, <1>3, WordOrder
    <3> QED BY <3>1, <1>1, <1>2, <1>3
  <2> QED BY <2>1, <2>2, <1>2, <1>3
<1> QED BY <1>2, <1>3, <1>4 DEF Word, Bit, NUM_BITMAP, B, w, n

(* Two lines never share a bit of the bitmap.                               *)
LEMMA LineBitUnique ==
  ASSUME NEW p \in Line, NEW q \in Line,
         p \div BITMAPSZ = q \div BITMAPSZ, p % BITMAPSZ = q % BITMAPSZ
  PROVE  p = q
BY LineBit

(* A bit of a word within the lines is the bit of one line.                *)
LEMMA BitLine ==
  ASSUME NEW w \in Word, NEW b \in Bit, w * BITMAPSZ + b < TMAX_TPRI
  PROVE  /\ w * BITMAPSZ + b \in Line
         /\ (w * BITMAPSZ + b) \div BITMAPSZ = w
         /\ (w * BITMAPSZ + b) % BITMAPSZ = b
<1> DEFINE B == BITMAPSZ
           p == w * B + b
           v == p \div B
<1>1. B \in Nat \ {0} /\ w \in Nat /\ b \in 0..(B - 1) /\ p \in Nat /\ p \in Line
  BY ReadyQueueAssumption DEF Word, Bit, Line
<1>2. v \in Nat /\ (p % B) \in 0..(B - 1) /\ p = v * B + (p % B)
  BY <1>1, DivMod
<1>3. ~(v < w)
  BY <1>1, <1>2, WordOrder
<1>4. ~(w < v)
  BY <1>1, <1>2, WordOrder
<1>5. v = w
  BY <1>1, <1>2, <1>3, <1>4
<1> QED BY <1>1, <1>2, <1>5

(* A set of numbers that is not empty has a least one: the intervals 0..x  *)
(* are finite sets, and strict inclusion is well founded on finite sets.   *)
LEMMA NatMin ==
  ASSUME NEW S \in SUBSET Nat, S # {}
  PROVE  \E m \in S : \A x \in S : m <= x
<1> DEFINE T == {0..x : x \in S}
           R == StrictSubsetOrdering(Nat)
           F == FiniteSubsetsOf(Nat)
<1>1. T \subseteq F /\ T # {}
  <2>1. \A x \in S : 0..x \in SUBSET Nat /\ IsFiniteSet(0..x)
    BY FS_Interval
  <2> QED BY <2>1 DEF FiniteSubsetsOf
<1>2. IsWellFoundedOn(R, F)
  BY FS_StrictSubsetOrderingWellFounded
<1> HIDE DEF T, R, F
<1>3. PICK t \in T : \A u \in T : <<u, t>> \notin R
  BY <1>1, <1>2, WFMin
<1>4. PICK m \in S : t = 0..m
  BY DEF T
<1>5. ASSUME NEW x \in S, x < m PROVE FALSE
  <2>1. 0..x \in SUBSET Nat /\ 0..m \in SUBSET Nat /\ 0..x \subseteq 0..m
    BY <1>5
  <2>2. 0..x # 0..m
    <3>1. m \in 0..m /\ m \notin 0..x
      BY <1>5
    <3> QED BY <3>1
  <2>3. <<0..x, 0..m>> \in R
    BY <2>1, <2>2 DEF R, StrictSubsetOrdering
  <2>4. 0..x \in T
    BY DEF T
  <2> QED BY <1>3, <1>4, <2>3, <2>4
<1> QED BY <1>5

(* What is to be shown of every number is written as membership in a set,  *)
(* so that the provers can use induction.                                  *)
LEMMA NumberInduction ==
  ASSUME NEW S, 0 \in S, \A n \in Nat : n \in S => n + 1 \in S
  PROVE  \A n \in Nat : n \in S
<1> DEFINE T == {n \in Nat : n \notin S}
<1> SUFFICES ASSUME T # {} PROVE FALSE
  OBVIOUS
<1>1. PICK m \in T : \A x \in T : m <= x
  <2> HIDE DEF T
  <2>1. T \subseteq Nat
    BY DEF T
  <2> QED BY <2>1, NatMin
<1>2. m # 0 /\ m - 1 \in Nat /\ ~(m <= m - 1)
  BY <1>1
<1>3. m - 1 \in S
  BY <1>1, <1>2
<1> QED BY <1>1, <1>2, <1>3

-----------------------------------------------------------------------------
(* The ready queue *)

(* An empty ready queue satisfies the invariant.                           *)
LEMMA RdyqInit == RdyqInv(rdyq_init)
<1> DEFINE n == rdyq_init
<1>1. /\ n.top_priority = TMAX_TPRI
      /\ \A p \in Line : n.priq[p] = <<>>
      /\ \A w \in Word : n.bitmap[w] = {}
  BY DEF rdyq_init
<1>2. n \in RdyqType
  BY ReadyQueueAssumption DEF rdyq_init, RdyqType
<1> HIDE DEF n
<1>3. BitmapExact(n)
  BY <1>1, LineBit DEF BitmapExact
<1>4. BitmapBounded(n)
  BY <1>1 DEF BitmapBounded
<1>5. TopExact(n)
  BY <1>1, ReadyQueueAssumption DEF TopExact
<1>6. LinkedOnce(n)
  BY <1>1 DEF LinkedOnce, ToSet, IsInjective
<1> QED BY <1>2, <1>3, <1>4, <1>5, <1>6 DEF RdyqInv, n

(* t is in no line. *)
LinkedNowhere(rq, t) == \A q \in Line : t \notin ToSet(rq.priq[q])

(* rdyq_insert of a task that is in no line.                               *)
LEMMA RdyqInsert ==
  ASSUME NEW rq, RdyqInv(rq), NEW t \in Task, NEW p \in Line, LinkedNowhere(rq, t)
  PROVE  /\ RdyqInv(rdyq_insert(rq, t, p))
         /\ \A q \in Line : ToSet(rdyq_insert(rq, t, p).priq[q]) =
              IF q = p THEN ToSet(rq.priq[q]) \union {t} ELSE ToSet(rq.priq[q])
<1> DEFINE n == rdyq_insert(rq, t, p)
           w == p \div BITMAPSZ
           b == p % BITMAPSZ
<1>1. /\ rq \in RdyqType
      /\ \A q \in Line : rq.priq[q] \in Seq(Task) /\ IsInjective(rq.priq[q])
  BY DEF RdyqInv, RdyqType, LinkedOnce
<1>2. /\ n.priq = [rq.priq EXCEPT ![p] = kqueue_insert(@, t)]
      /\ n.bitmap = [rq.bitmap EXCEPT ![w] = @ \union {b}]
      /\ n.top_priority = IF p < rq.top_priority THEN p ELSE rq.top_priority
      /\ DOMAIN n = {"top_priority", "priq", "bitmap"}
  BY DEF rdyq_insert, rdyq_bitmap_set
<1>3. /\ kqueue_insert(rq.priq[p], t) \in Seq(Task)
      /\ IsInjective(kqueue_insert(rq.priq[p], t))
      /\ ToSet(kqueue_insert(rq.priq[p], t)) = ToSet(rq.priq[p]) \union {t}
      /\ kqueue_insert(rq.priq[p], t) # <<>>
  BY <1>1, InsertMembers DEF LinkedNowhere
<1>4. w \in Word /\ b \in Bit /\ p = w * BITMAPSZ + b
  BY LineBit
<1>5. n \in RdyqType
  <2>1. n.top_priority \in 0..TMAX_TPRI
    BY <1>1, <1>2, ReadyQueueAssumption DEF RdyqType, Line
  <2>2. n.priq \in [Line -> Seq(Task)]
    BY <1>1, <1>2, <1>3 DEF RdyqType
  <2>3. n.bitmap \in [Word -> SUBSET Bit]
    BY <1>1, <1>2, <1>4 DEF RdyqType
  <2> QED BY <2>1, <2>2, <2>3 DEF RdyqType, rdyq_insert
<1>6. \A q \in Line : n.priq[q] = IF q = p THEN kqueue_insert(rq.priq[p], t)
                                   ELSE rq.priq[q]
  BY <1>1, <1>2 DEF RdyqType
<1>7. \A v \in Word : n.bitmap[v] = IF v = w THEN rq.bitmap[v] \union {b}
                                     ELSE rq.bitmap[v]
  BY <1>1, <1>2 DEF RdyqType
<1> HIDE DEF n, w, b
<1>8. BitmapExact(n)
  <2> SUFFICES ASSUME NEW q \in Line
               PROVE  q % BITMAPSZ \in n.bitmap[q \div BITMAPSZ] <=> n.priq[q] # <<>>
    BY DEF BitmapExact
  <2>1. CASE q = p
    BY <2>1, <1>3, <1>4, <1>6, <1>7 DEF w, b
  <2>2. CASE q # p
    <3>1. q \div BITMAPSZ # w \/ q % BITMAPSZ # b
      BY <2>2, LineBitUnique DEF w, b
    <3>2. q \div BITMAPSZ \in Word
      BY LineBit
    <3>3. q % BITMAPSZ \in rq.bitmap[q \div BITMAPSZ] <=> rq.priq[q] # <<>>
      BY DEF RdyqInv, BitmapExact
    <3> QED BY <2>2, <3>1, <3>2, <3>3, <1>6, <1>7
  <2> QED BY <2>1, <2>2
<1>9. BitmapBounded(n)
  <2>1. w * BITMAPSZ + b < TMAX_TPRI
    BY <1>4, ReadyQueueAssumption DEF Line
  <2> QED BY <2>1, <1>7 DEF BitmapBounded, RdyqInv
<1>10. TopExact(n)
  <2>1. TopExact(rq)
    BY DEF RdyqInv
  <2>2. n.top_priority < TMAX_TPRI => n.priq[n.top_priority] # <<>>
    <3>1. CASE p < rq.top_priority
      BY <3>1, <1>2, <1>3, <1>6
    <3>2. CASE ~(p < rq.top_priority)
      <4>1. n.top_priority = rq.top_priority
        BY <3>2, <1>2
      <4>2. CASE rq.top_priority < TMAX_TPRI
        <5>1. rq.top_priority \in Line
          BY <4>2, <1>1, ReadyQueueAssumption DEF RdyqType, Line
        <5> QED BY <5>1, <4>1, <4>2, <2>1, <1>3, <1>6 DEF TopExact
      <4> QED BY <4>1, <4>2
    <3> QED BY <3>1, <3>2
  <2>3. ASSUME NEW q \in Line, n.priq[q] # <<>> PROVE n.top_priority <= q
    BY <2>3, <2>1, <1>1, <1>2, <1>6, ReadyQueueAssumption
       DEF TopExact, RdyqType, Line
  <2> QED BY <2>2, <2>3 DEF TopExact
<1>11. \A q \in Line : ToSet(n.priq[q]) =
          IF q = p THEN ToSet(rq.priq[q]) \union {t} ELSE ToSet(rq.priq[q])
  BY <1>3, <1>6
<1>12. LinkedOnce(n)
  <2>1. \A q \in Line : IsInjective(n.priq[q])
    BY <1>1, <1>3, <1>6
  <2>2. \A q, r \in Line :
          ToSet(n.priq[q]) \intersect ToSet(n.priq[r]) # {} => q = r
    BY <1>11 DEF RdyqInv, LinkedOnce, LinkedNowhere
  <2> QED BY <2>1, <2>2 DEF LinkedOnce
<1> QED BY <1>5, <1>8, <1>9, <1>10, <1>11, <1>12 DEF RdyqInv, n

(* The scan of the bitmap finds the first line that holds a task, provided *)
(* no line before the one it starts from holds one.                        *)
LEMMA RdyqScan ==
  ASSUME NEW rq, rq \in RdyqType, BitmapExact(rq), BitmapBounded(rq),
         NEW p \in Line, \A q \in Line : rq.priq[q] # <<>> => p <= q
  PROVE  LET s == rdyq_scan(rq.bitmap, p)
         IN  /\ s \in 0..TMAX_TPRI
             /\ s < TMAX_TPRI => rq.priq[s] # <<>>
             /\ \A q \in Line : rq.priq[q] # <<>> => s <= q
<1> DEFINE bm == rq.bitmap
           later == {w \in Word : w >= p \div BITMAPSZ /\ bm[w] # {}}
           i == CHOOSE w \in later : \A v \in later : w <= v
           s == rdyq_scan(bm, p)
<1>1. bm \in [Word -> SUBSET Bit] /\ TMAX_TPRI \in Nat /\ BITMAPSZ \in Nat \ {0}
  BY ReadyQueueAssumption DEF RdyqType
<1>2. ASSUME NEW q \in Line, rq.priq[q] # <<>>
      PROVE  /\ q \div BITMAPSZ \in later
             /\ q % BITMAPSZ \in bm[q \div BITMAPSZ]
  <2>1. q % BITMAPSZ \in bm[q \div BITMAPSZ] /\ q \div BITMAPSZ \in Word
    BY <1>2, LineBit DEF BitmapExact
  <2>2. /\ p \div BITMAPSZ \in Nat /\ p % BITMAPSZ \in Nat
        /\ q \div BITMAPSZ \in Nat /\ q % BITMAPSZ \in 0..(BITMAPSZ - 1)
        /\ p = (p \div BITMAPSZ) * BITMAPSZ + (p % BITMAPSZ)
        /\ q = (q \div BITMAPSZ) * BITMAPSZ + (q % BITMAPSZ)
    BY LineBit DEF Word, Bit
  <2>3. p <= q /\ p \in Nat /\ q \in Nat
    BY <1>2 DEF Line
  <2>4. ~(q \div BITMAPSZ < p \div BITMAPSZ)
    <3> SUFFICES ASSUME q \div BITMAPSZ < p \div BITMAPSZ PROVE q < p
      BY <2>3
    <3> QED BY <1>1, <2>2, WordOrder
  <2> QED BY <2>1, <2>2, <2>4
<1>3. CASE later = {}
  <2>1. s = TMAX_TPRI
    BY <1>3 DEF rdyq_scan
  <2> QED BY <2>1, <1>1, <1>2, <1>3
<1>4. CASE later # {}
  <2>1. later \in SUBSET Nat
    BY DEF Word
  <2>2. \E w \in later : \A v \in later : w <= v
    BY <2>1, <1>4, NatMin
  <2>3. i \in later /\ \A v \in later : i <= v
    BY <2>2
  <2>4. bm[i] # {} /\ bm[i] \in SUBSET Nat /\ bm[i] \in SUBSET Bit /\ i \in Word
    <3> HIDE DEF i, bm
    <3>1. i \in Word /\ bm[i] # {}
      BY <2>3
    <3>2. bm[i] \in SUBSET Bit
      BY <3>1, <1>1
    <3>3. Bit \subseteq Nat
      BY DEF Bit
    <3> QED BY <3>1, <3>2, <3>3
  <2>5. \E b \in bm[i] : \A c \in bm[i] : b <= c
    BY <2>4, NatMin
  <2>6. _ffs(bm[i]) \in bm[i] /\ \A c \in bm[i] : _ffs(bm[i]) <= c
    BY <2>5 DEF _ffs
  <2>7. s = i * BITMAPSZ + _ffs(bm[i])
    BY <1>4 DEF rdyq_scan
  <2> DEFINE b == _ffs(bm[i])
  <2> HIDE DEF b, i, s, later
  <2>8. b \in Bit /\ s = i * BITMAPSZ + b /\ s < TMAX_TPRI
    BY <2>4, <2>6, <2>7 DEF BitmapBounded, b
  <2>9. s \in Line /\ s \div BITMAPSZ = i /\ s % BITMAPSZ = b
    BY <2>4, <2>8, BitLine
  <2>10. rq.priq[s] # <<>>
    BY <2>6, <2>9 DEF BitmapExact, b
  <2>11. ASSUME NEW q \in Line, rq.priq[q] # <<>> PROVE s <= q
    <3> DEFINE v == q \div BITMAPSZ
               c == q % BITMAPSZ
    <3>1. v \in later /\ c \in bm[v] /\ v \in Word /\ c \in Bit
          /\ q = v * BITMAPSZ + c
      BY <2>11, <1>2, LineBit
    <3> HIDE DEF v, c
    <3>2. i <= v
      BY <3>1, <2>3
    <3>3. CASE i = v
      <4>1. b <= c
        BY <3>1, <3>3, <2>6 DEF b
      <4> QED BY <4>1, <3>1, <3>3, <2>8, <2>4, <1>1 DEF Bit, Word
    <3>4. CASE i < v
      <4>1. /\ BITMAPSZ \in Nat \ {0} /\ i \in Nat /\ v \in Nat /\ c \in Nat
            /\ b \in 0..(BITMAPSZ - 1)
        BY <3>1, <2>4, <2>8, ReadyQueueAssumption DEF Word, Bit
      <4>2. i * BITMAPSZ + b < v * BITMAPSZ + c
        BY <4>1, <3>4, WordOrder, SMTT(30)
      <4> QED BY <4>2, <3>1, <2>8, <2>9 DEF Line
    <3> QED BY <3>1, <3>2, <3>3, <3>4, <2>4 DEF Word
  <2>12. s \in 0..TMAX_TPRI
    BY <2>9, <1>1 DEF Line
  <2> QED BY <2>10, <2>11, <2>12 DEF s, bm
<1> QED BY <1>3, <1>4

(* rdyq_remove of a task that is in line p, its priority.                  *)
LEMMA RdyqRemove ==
  ASSUME NEW rq, RdyqInv(rq), NEW t \in Task, NEW p \in Line,
         t \in ToSet(rq.priq[p])
  PROVE  /\ RdyqInv(rdyq_remove(rq, t, p))
         /\ \A q \in Line : ToSet(rdyq_remove(rq, t, p).priq[q]) =
              IF q = p THEN ToSet(rq.priq[q]) \ {t} ELSE ToSet(rq.priq[q])
         /\ rdyq_remove(rq, t, p).priq = [rq.priq EXCEPT ![p] = kqueue_remove(@, t)]
<1> DEFINE n == rdyq_remove(rq, t, p)
           lines == rdyq_unlink(rq, t)
           clear == rdyq_bitmap_clear(rq.bitmap, p)
           w == p \div BITMAPSZ
           b == p % BITMAPSZ
<1>1. /\ rq \in RdyqType
      /\ \A q \in Line : rq.priq[q] \in Seq(Task) /\ IsInjective(rq.priq[q])
      /\ BitmapExact(rq) /\ BitmapBounded(rq) /\ TopExact(rq) /\ LinkedOnce(rq)
  BY DEF RdyqInv, RdyqType, LinkedOnce
<1>2. ASSUME NEW q \in Line, q # p PROVE lines[q] = rq.priq[q]
  <2>1. t \notin ToSet(rq.priq[q])
    BY <1>1, <1>2 DEF LinkedOnce
  <2> QED BY <2>1 DEF rdyq_unlink, kqueue_remove
<1>3. /\ lines[p] = kqueue_remove(rq.priq[p], t)
      /\ lines[p] \in Seq(Task) /\ IsInjective(lines[p])
      /\ ToSet(lines[p]) = ToSet(rq.priq[p]) \ {t}
  BY <1>1, RemoveMembers DEF rdyq_unlink
<1>4. w \in Word /\ b \in Bit /\ p = w * BITMAPSZ + b
  BY LineBit
<1>5. rq.priq[p] # <<>>
  BY DEF ToSet
<1>6. clear = [rq.bitmap EXCEPT ![w] = @ \ {b}]
  BY DEF rdyq_bitmap_clear
<1>7. lines \in [Line -> Seq(Task)] /\ clear \in [Word -> SUBSET Bit]
  BY <1>1, <1>2, <1>3, <1>6 DEF rdyq_unlink, RdyqType
<1>8. lines = [rq.priq EXCEPT ![p] = kqueue_remove(@, t)]
  BY <1>1, <1>2, <1>3, <1>7 DEF RdyqType
<1>9. \A q \in Line : ToSet(lines[q]) =
         IF q = p THEN ToSet(rq.priq[q]) \ {t} ELSE ToSet(rq.priq[q])
  BY <1>2, <1>3
<1>10. ASSUME NEW r, r.priq = lines PROVE LinkedOnce(r)
  <2>1. \A q \in Line : IsInjective(lines[q])
    BY <1>1, <1>2, <1>3
  <2>2. \A q, v \in Line :
          ToSet(lines[q]) \intersect ToSet(lines[v]) # {} => q = v
    BY <1>1, <1>9 DEF LinkedOnce
  <2> QED BY <2>1, <2>2, <1>10 DEF LinkedOnce
<1>11. CASE lines[p] # <<>>
  <2>1. n = [rq EXCEPT !.priq = lines]
    BY <1>11 DEF rdyq_remove, kqueue_empty
  <2>2. /\ n.priq = lines /\ n.bitmap = rq.bitmap
        /\ n.top_priority = rq.top_priority /\ n \in RdyqType
    BY <2>1, <1>1, <1>7 DEF RdyqType
  <2> HIDE DEF n, lines, clear
  <2>3. \A q \in Line : n.priq[q] # <<>> <=> rq.priq[q] # <<>>
    BY <1>2, <1>5, <1>11, <2>2
  <2>4. BitmapExact(n) /\ BitmapBounded(n)
    BY <2>2, <2>3, <1>1 DEF BitmapExact, BitmapBounded
  <2>5. TopExact(n)
    <3>1. rq.top_priority \in 0..TMAX_TPRI
      BY <1>1 DEF RdyqType
    <3> QED BY <2>2, <2>3, <3>1, <1>1, ReadyQueueAssumption DEF TopExact, Line
  <2>6. LinkedOnce(n)
    BY <1>10, <2>2
  <2> QED BY <2>2, <2>4, <2>5, <2>6, <1>8, <1>9 DEF RdyqInv, n
<1>12. CASE lines[p] = <<>>
  <2> DEFINE top == IF p # rq.top_priority THEN rq.top_priority
                    ELSE rdyq_scan(clear, p)
  <2>1. n = [top_priority |-> top, priq |-> lines, bitmap |-> clear]
    BY <1>12 DEF rdyq_remove, kqueue_empty
  <2>2. n.priq = lines /\ n.bitmap = clear /\ n.top_priority = top
    BY <2>1
  <2>3. BitmapExact(n)
    <3> SUFFICES ASSUME NEW q \in Line
                 PROVE  q % BITMAPSZ \in clear[q \div BITMAPSZ] <=> lines[q] # <<>>
      BY <2>2 DEF BitmapExact
    <3>1. CASE q = p
      BY <3>1, <1>1, <1>4, <1>6, <1>12 DEF RdyqType
    <3>2. CASE q # p
      <4>1. q \div BITMAPSZ # w \/ q % BITMAPSZ # b
        BY <3>2, LineBitUnique
      <4>2. q \div BITMAPSZ \in Word
        BY LineBit
      <4>3. q % BITMAPSZ \in rq.bitmap[q \div BITMAPSZ] <=> rq.priq[q] # <<>>
        BY <1>1 DEF BitmapExact
      <4> HIDE DEF w, b
      <4>4. q % BITMAPSZ \in clear[q \div BITMAPSZ]
              <=> q % BITMAPSZ \in rq.bitmap[q \div BITMAPSZ]
        BY <4>1, <4>2, <1>1, <1>4, <1>6 DEF RdyqType
      <4> QED BY <3>2, <4>3, <4>4, <1>2
    <3> QED BY <3>1, <3>2
  <2>4. BitmapBounded(n)
    <3>1. \A v \in Word : clear[v] \subseteq rq.bitmap[v]
      BY <1>1, <1>4, <1>6 DEF RdyqType
    <3> QED BY <3>1, <2>2, <1>1 DEF BitmapBounded
  <2>5. LinkedOnce(n)
    BY <1>10, <2>2
  <2>6. rq.top_priority \in 0..TMAX_TPRI /\ rq.top_priority <= p
    BY <1>1, <1>5 DEF RdyqType, TopExact
  <2>7. \A q \in Line : lines[q] # <<>> => rq.priq[q] # <<>> /\ q # p
    BY <1>2, <1>12
  <2>8. top \in 0..TMAX_TPRI /\ TopExact(n)
    <3>1. CASE p # rq.top_priority
      <4>1. top = rq.top_priority
        BY <3>1
      <4>2. rq.top_priority \in Line
        BY <2>6, ReadyQueueAssumption DEF Line
      <4>3. rq.priq[rq.top_priority] # <<>>
        <5>1. rq.top_priority < TMAX_TPRI
          BY <4>2, ReadyQueueAssumption DEF Line
        <5> HIDE DEF top, n, lines, clear
        <5> QED BY <5>1, <1>1 DEF TopExact
      <4>4. top \in Line /\ lines[top] = rq.priq[top] /\ rq.priq[top] # <<>>
        BY <4>1, <4>2, <4>3, <3>1, <1>2
      <4>5. n.priq = lines /\ n.top_priority = top
        BY <2>2
      <4> HIDE DEF top, n, lines
      <4>6. top \in 0..TMAX_TPRI
        BY <4>1, <2>6
      <4>7. ASSUME NEW q \in Line, lines[q] # <<>> PROVE top <= q
        BY <4>1, <4>7, <2>7, <1>1 DEF TopExact
      <4> QED BY <4>4, <4>5, <4>6, <4>7 DEF TopExact
    <3>2. CASE p = rq.top_priority
      <4> DEFINE m == [n EXCEPT !.top_priority = TMAX_TPRI]
      <4>1. m \in RdyqType /\ m.priq = lines /\ m.bitmap = clear
        <5>1. m = [top_priority |-> TMAX_TPRI, priq |-> lines, bitmap |-> clear]
          BY <2>1
        <5>2. TMAX_TPRI \in 0..TMAX_TPRI
          BY ReadyQueueAssumption
        <5> HIDE DEF m, n, top, lines, clear
        <5> QED BY <5>1, <5>2, <1>7 DEF RdyqType
      <4> HIDE DEF m
      <4>2. BitmapExact(m) /\ BitmapBounded(m)
        BY <4>1, <2>2, <2>3, <2>4 DEF BitmapExact, BitmapBounded
      <4>3. \A q \in Line : m.priq[q] # <<>> => p <= q
        BY <4>1, <3>2, <2>7, <1>1 DEF TopExact
      <4>4. /\ rdyq_scan(clear, p) \in 0..TMAX_TPRI
            /\ rdyq_scan(clear, p) < TMAX_TPRI => lines[rdyq_scan(clear, p)] # <<>>
            /\ \A q \in Line : lines[q] # <<>> => rdyq_scan(clear, p) <= q
        BY <4>1, <4>2, <4>3, RdyqScan
      <4>5. top = rdyq_scan(clear, p)
        BY <3>2
      <4> QED BY <4>4, <4>5, <2>2 DEF TopExact
    <3> QED BY <3>1, <3>2
  <2>9. n \in RdyqType
    <3> HIDE DEF top, lines, clear
    <3> QED BY <2>1, <2>8, <1>7 DEF RdyqType
  <2> QED BY <2>2, <2>3, <2>4, <2>5, <2>8, <2>9, <1>8, <1>9 DEF RdyqInv
<1> QED BY <1>11, <1>12

(* rdyq_rotate keeps every line's tasks.                                   *)
LEMMA RdyqRotate ==
  ASSUME NEW rq, RdyqInv(rq), NEW p \in Line
  PROVE  /\ RdyqInv(rdyq_rotate(rq, p))
         /\ \A q \in Line : ToSet(rdyq_rotate(rq, p).priq[q]) = ToSet(rq.priq[q])
<1>1. CASE rq.priq[p] = <<>>
  BY <1>1 DEF rdyq_rotate, kqueue_empty
<1>2. CASE rq.priq[p] # <<>>
  <2> DEFINE n == rdyq_rotate(rq, p)
             r == kqueue_insert(Tail(rq.priq[p]), Head(rq.priq[p]))
  <2>1. /\ rq \in RdyqType
        /\ \A q \in Line : rq.priq[q] \in Seq(Task) /\ IsInjective(rq.priq[q])
        /\ BitmapExact(rq) /\ BitmapBounded(rq) /\ TopExact(rq) /\ LinkedOnce(rq)
    BY DEF RdyqInv, RdyqType, LinkedOnce
  <2>2. /\ r \in Seq(Task) /\ IsInjective(r)
        /\ ToSet(r) = ToSet(rq.priq[p]) /\ r # <<>>
    BY <1>2, <2>1, RotateMembers
  <2>3. n = [rq EXCEPT !.priq = [rq.priq EXCEPT ![p] = r]]
    BY <1>2, <2>1 DEF rdyq_rotate, kqueue_empty, RdyqType
  <2> HIDE DEF n, r
  <2>4. /\ n \in RdyqType
        /\ n.bitmap = rq.bitmap /\ n.top_priority = rq.top_priority
        /\ \A q \in Line : n.priq[q] = IF q = p THEN r ELSE rq.priq[q]
    BY <2>1, <2>2, <2>3 DEF RdyqType
  <2>5. \A q \in Line : n.priq[q] # <<>> <=> rq.priq[q] # <<>>
    BY <1>2, <2>2, <2>4
  <2>6. BitmapExact(n) /\ BitmapBounded(n)
    BY <2>1, <2>4, <2>5 DEF BitmapExact, BitmapBounded
  <2>7. TopExact(n)
    <3>1. rq.top_priority \in 0..TMAX_TPRI
      BY <2>1 DEF RdyqType
    <3> QED BY <2>1, <2>4, <2>5, <3>1, ReadyQueueAssumption DEF TopExact, Line
  <2>8. \A q \in Line : ToSet(n.priq[q]) = ToSet(rq.priq[q]) /\ IsInjective(n.priq[q])
    BY <2>1, <2>2, <2>4
  <2>9. LinkedOnce(n)
    BY <2>1, <2>8 DEF LinkedOnce
  <2> QED BY <2>4, <2>6, <2>7, <2>8, <2>9 DEF RdyqInv, n
<1> QED BY <1>1, <1>2

(* rdyq_top is null exactly when every line is empty, and otherwise the    *)
(* first task of the first line that is not.                               *)
LEMMA RdyqTop ==
  ASSUME NEW rq, RdyqInv(rq)
  PROVE  /\ rdyq_top(rq) \in Task \union {NoTask}
         /\ rdyq_top(rq) = NoTask <=> rq.top_priority = TMAX_TPRI
         /\ rq.top_priority = TMAX_TPRI <=> \A p \in Line : rq.priq[p] = <<>>
         /\ rdyq_top(rq) # NoTask =>
              /\ rq.top_priority \in Line
              /\ rq.priq[rq.top_priority] # <<>>
              /\ rdyq_top(rq) = Head(rq.priq[rq.top_priority])
              /\ rdyq_top(rq) \in ToSet(rq.priq[rq.top_priority])
<1>1. /\ rq.top_priority \in 0..TMAX_TPRI
      /\ \A q \in Line : rq.priq[q] \in Seq(Task)
      /\ TopExact(rq) /\ TMAX_TPRI \in Nat /\ NoTask \notin Task
  BY ReadyQueueAssumption DEF RdyqInv, RdyqType
<1>2. CASE rq.top_priority = TMAX_TPRI
  BY <1>1, <1>2 DEF rdyq_top, TopExact, Line
<1>3. CASE rq.top_priority # TMAX_TPRI
  <2> DEFINE q == rq.priq[rq.top_priority]
  <2>1. rq.top_priority \in Line
    BY <1>1, <1>3 DEF Line
  <2>2. q \in Seq(Task) /\ q # <<>>
    BY <2>1, <1>1 DEF TopExact, Line
  <2>3. rdyq_top(rq) = q[1]
    BY <2>2, <1>3 DEF rdyq_top, kqueue_next
  <2> HIDE DEF q
  <2>4. q[1] \in Task /\ Head(q) = q[1] /\ 1 \in DOMAIN q
    BY <2>2
  <2>5. q[1] \in ToSet(q)
    BY <2>4 DEF ToSet
  <2> QED BY <1>1, <1>3, <2>1, <2>2, <2>3, <2>4, <2>5 DEF q
<1> QED BY <1>2, <1>3

(* Removing a task that is not the top leaves the top where it is.         *)
LEMMA TopKept ==
  ASSUME NEW rq, RdyqInv(rq), NEW t \in Task, NEW p \in Line,
         t \in ToSet(rq.priq[p]), rdyq_top(rq) # t
  PROVE  rdyq_top(rdyq_remove(rq, t, p)) = rdyq_top(rq)
<1> DEFINE n == rdyq_remove(rq, t, p)
           top == rq.top_priority
<1>1. /\ RdyqInv(n)
      /\ n.priq = [rq.priq EXCEPT ![p] = kqueue_remove(@, t)]
  BY RdyqRemove
<1>2. /\ rq.priq \in [Line -> Seq(Task)]
      /\ \A q \in Line : IsInjective(rq.priq[q])
      /\ top \in 0..TMAX_TPRI /\ TMAX_TPRI \in Nat
  BY ReadyQueueAssumption DEF RdyqInv, RdyqType, LinkedOnce
<1>3. rq.priq[p] # <<>>
  BY DEF ToSet
<1>4. /\ top \in Line /\ top # TMAX_TPRI
      /\ rq.priq[top] # <<>>
      /\ rdyq_top(rq) = Head(rq.priq[top])
  <2>1. rdyq_top(rq) # NoTask
    BY <1>3, RdyqTop
  <2> QED BY <2>1, RdyqTop, ReadyQueueAssumption DEF Line
<1>5. n.priq[top] # <<>> /\ Head(n.priq[top]) = Head(rq.priq[top])
  <2>1. CASE top = p
    BY <2>1, <1>1, <1>2, <1>4, RemoveMembers
  <2>2. CASE top # p
    BY <2>2, <1>1, <1>2, <1>4
  <2> QED BY <2>1, <2>2
<1>6. n.top_priority = top
  <2>1. CASE p # top
    BY <2>1 DEF rdyq_remove
  <2>2. CASE p = top
    <3>1. rdyq_unlink(rq, t)[p] = n.priq[p]
      BY <1>1, <1>2 DEF rdyq_unlink
    <3> HIDE DEF n
    <3>2. ~kqueue_empty(rdyq_unlink(rq, t)[p])
      BY <3>1, <2>2, <1>5 DEF kqueue_empty
    <3> QED BY <3>2 DEF rdyq_remove, n
  <2> QED BY <2>1, <2>2
<1> HIDE DEF n, top
<1>7. rdyq_top(n) = Head(n.priq[n.top_priority])
  BY <1>1, <1>4, <1>6, RdyqTop
<1> QED BY <1>4, <1>5, <1>6, <1>7 DEF n

(* The top after an insert: the new task if its priority is higher than    *)
(* every other's, else the top there was.                                  *)
LEMMA InsertTop ==
  ASSUME NEW rq, RdyqInv(rq), NEW t \in Task, NEW p \in Line, LinkedNowhere(rq, t)
  PROVE  rdyq_top(rdyq_insert(rq, t, p)) =
           IF p < rq.top_priority THEN t ELSE rdyq_top(rq)
<1> DEFINE n == rdyq_insert(rq, t, p)
<1>1. RdyqInv(n)
  BY RdyqInsert
<1>2. /\ n.top_priority = IF p < rq.top_priority THEN p ELSE rq.top_priority
      /\ n.priq = [rq.priq EXCEPT ![p] = kqueue_insert(@, t)]
  BY DEF rdyq_insert
<1>3. /\ rq.top_priority \in 0..TMAX_TPRI
      /\ rq.priq \in [Line -> Seq(Task)]
      /\ \A q \in Line : IsInjective(rq.priq[q])
      /\ \A q \in Line : rq.priq[q] # <<>> => rq.top_priority <= q
      /\ TMAX_TPRI \in Nat /\ NoTask \notin Task
  BY ReadyQueueAssumption DEF RdyqInv, RdyqType, LinkedOnce, TopExact
<1> HIDE DEF n
<1>4. CASE p < rq.top_priority
  <2>1. rq.priq[p] = <<>>
    BY <1>4, <1>3 DEF Line
  <2>2. Head(n.priq[p]) = t
    <3>1. n.priq[p] = Append(rq.priq[p], t)
      BY <1>2, <1>3 DEF kqueue_insert
    <3> QED BY <3>1, <2>1
  <2>3. n.top_priority = p /\ p # TMAX_TPRI
    BY <1>4, <1>2 DEF Line
  <2>4. rdyq_top(n) = Head(n.priq[p])
    BY <2>3, <1>1, RdyqTop
  <2> QED BY <2>2, <2>4, <1>4 DEF n
<1>5. CASE ~(p < rq.top_priority)
  <2>1. n.top_priority = rq.top_priority
    BY <1>5, <1>2
  <2>2. rq.top_priority \in Line /\ rq.top_priority # TMAX_TPRI
    BY <1>5, <1>3 DEF Line
  <2>3. /\ rdyq_top(n) = Head(n.priq[rq.top_priority])
        /\ rdyq_top(rq) = Head(rq.priq[rq.top_priority])
        /\ rq.priq[rq.top_priority] # <<>>
    BY <2>1, <2>2, <1>1, RdyqTop
  <2>4. CASE rq.top_priority = p
    <3>1. Head(kqueue_insert(rq.priq[p], t)) = Head(rq.priq[p])
      BY <2>3, <2>4, <1>3 DEF kqueue_insert
    <3> QED BY <3>1, <2>3, <2>4, <1>2, <1>3, <1>5 DEF n
  <2>5. CASE rq.top_priority # p
    BY <2>5, <2>2, <2>3, <1>2, <1>3, <1>5 DEF n
  <2> QED BY <2>4, <2>5
<1> QED BY <1>4, <1>5

-----------------------------------------------------------------------------
(***************************************************************************)
(* task.c keeps the scheduler's invariant: lemmas about its operations on  *)
(* any kernel state that has the fields they touch.                        *)
(***************************************************************************)

(* The fields task.c's scheduling operations read and write are there and  *)
(* have their types; a kernel state may have others.                       *)
SchedFields(k) ==
  /\ k = [f \in DOMAIN k |-> k[f]]
  /\ {"state", "tskpri", "rdyq", "schedtsk"} \subseteq DOMAIN k
  /\ k.state \in [Task -> States]
  /\ k.tskpri \in [Task -> Line]

(* task_make_ready on a task that is not READY.                            *)
LEMMA MakeReadyInv ==
  ASSUME NEW k, SchedFields(k), SchedInv(k), NEW t \in Task, k.state[t] # "RDY"
  PROVE  SchedInv(task_make_ready(k, t))
<1> DEFINE p == k.tskpri[t]
           rq == rdyq_insert(k.rdyq, t, p)
           top == IF rdyq_insert_tops(k.rdyq, p) THEN t ELSE k.schedtsk
           n == task_make_ready(k, t)
<1>1. /\ n.state = [k.state EXCEPT ![t] = "RDY"]
      /\ n.tskpri = k.tskpri
      /\ n.rdyq = rq
      /\ n.schedtsk = top
  BY DEF task_make_ready, SchedFields
<1>2. p \in Line /\ LinkedNowhere(k.rdyq, t)
  BY DEF SchedFields, SchedInv, ReadyLinks, LinkedNowhere
<1>3. RdyqInv(k.rdyq) /\ k.schedtsk = rdyq_top(k.rdyq)
  BY DEF SchedInv
<1> HIDE DEF n, p, rq, top
<1>4. /\ RdyqInv(rq)
      /\ \A q \in Line : ToSet(rq.priq[q]) =
           IF q = p THEN ToSet(k.rdyq.priq[q]) \union {t} ELSE ToSet(k.rdyq.priq[q])
  BY <1>2, <1>3, RdyqInsert DEF rq
<1>7. top = rdyq_top(rq)
  BY <1>2, <1>3, InsertTop DEF top, rq, rdyq_insert_tops
<1>8. ReadyLinks(n)
  <2> SUFFICES ASSUME NEW u \in Task, NEW q \in Line
               PROVE  u \in ToSet(rq.priq[q]) <=> n.state[u] = "RDY" /\ k.tskpri[u] = q
    BY <1>1 DEF ReadyLinks
  <2>1. u \in ToSet(k.rdyq.priq[q]) <=> k.state[u] = "RDY" /\ k.tskpri[u] = q
    BY DEF SchedInv, ReadyLinks
  <2>2. n.state[u] = IF u = t THEN "RDY" ELSE k.state[u]
    BY <1>1 DEF SchedFields
  <2> QED BY <2>1, <2>2, <1>2, <1>4 DEF p
<1> QED BY <1>1, <1>4, <1>7, <1>8 DEF SchedInv, n

(* task_make_unready on a READY task that its caller moves to state s.     *)
LEMMA MakeUnreadyInv ==
  ASSUME NEW k, SchedFields(k), SchedInv(k), NEW t \in Task, k.state[t] = "RDY",
         NEW s, s # "RDY"
  PROVE  SchedInv([task_make_unready(k, t) EXCEPT !.state[t] = s])
<1> DEFINE p == k.tskpri[t]
           rq == rdyq_remove(k.rdyq, t, p)
           top == IF k.schedtsk = t THEN rdyq_top(rq) ELSE k.schedtsk
           n == [task_make_unready(k, t) EXCEPT !.state[t] = s]
<1>1. /\ n.state = [k.state EXCEPT ![t] = s]
      /\ n.tskpri = k.tskpri
      /\ n.rdyq = rq
      /\ n.schedtsk = top
  BY DEF task_make_unready, SchedFields
<1>2. p \in Line /\ t \in ToSet(k.rdyq.priq[p])
  BY DEF SchedFields, SchedInv, ReadyLinks
<1>3. RdyqInv(k.rdyq) /\ k.schedtsk = rdyq_top(k.rdyq)
  BY DEF SchedInv
<1> HIDE DEF n, p, rq, top
<1>4. /\ RdyqInv(rq)
      /\ \A q \in Line : ToSet(rq.priq[q]) =
           IF q = p THEN ToSet(k.rdyq.priq[q]) \ {t} ELSE ToSet(k.rdyq.priq[q])
      /\ rq.priq = [k.rdyq.priq EXCEPT ![p] = kqueue_remove(@, t)]
  BY <1>2, <1>3, RdyqRemove DEF rq
<1>5. top = rdyq_top(rq)
  <2>1. CASE k.schedtsk = t
    BY <2>1 DEF top
  <2>2. CASE k.schedtsk # t
    BY <2>2, <1>2, <1>3, <1>4, TopKept DEF top, rq
  <2> QED BY <2>1, <2>2
<1>6. ReadyLinks(n)
  <2> SUFFICES ASSUME NEW u \in Task, NEW q \in Line
               PROVE  u \in ToSet(rq.priq[q]) <=> n.state[u] = "RDY" /\ k.tskpri[u] = q
    BY <1>1 DEF ReadyLinks
  <2>1. u \in ToSet(k.rdyq.priq[q]) <=> k.state[u] = "RDY" /\ k.tskpri[u] = q
    BY DEF SchedInv, ReadyLinks
  <2>2. n.state[u] = IF u = t THEN s ELSE k.state[u]
    BY <1>1 DEF SchedFields
  <2> QED BY <2>1, <2>2, <1>2, <1>4 DEF p
<1> QED BY <1>1, <1>4, <1>5, <1>6 DEF SchedInv, n

(* task_change_pri on a READY task.                                        *)
LEMMA ChangePriInv ==
  ASSUME NEW k, SchedFields(k), SchedInv(k), NEW t \in Task, k.state[t] = "RDY",
         NEW p \in Line
  PROVE  SchedInv(task_change_pri(k, t, p))
<1> DEFINE p0 == k.tskpri[t]
           rq0 == rdyq_remove(k.rdyq, t, p0)
           rq == rdyq_insert(rq0, t, p)
           n == task_change_pri(k, t, p)
<1>1. /\ n.state = k.state
      /\ n.tskpri = [k.tskpri EXCEPT ![t] = p]
      /\ n.rdyq = rq
      /\ n.schedtsk = IF p < rq0.top_priority THEN t ELSE rdyq_top(rq0)
  BY DEF task_change_pri, SchedFields, rdyq_insert_tops
<1>2. p0 \in Line /\ t \in ToSet(k.rdyq.priq[p0]) /\ RdyqInv(k.rdyq)
  BY DEF SchedFields, SchedInv, ReadyLinks
<1> HIDE DEF n, p0, rq0, rq
<1>3. /\ RdyqInv(rq0)
      /\ \A q \in Line : ToSet(rq0.priq[q]) =
           IF q = p0 THEN ToSet(k.rdyq.priq[q]) \ {t} ELSE ToSet(k.rdyq.priq[q])
      /\ rq0.priq = [k.rdyq.priq EXCEPT ![p0] = kqueue_remove(@, t)]
  BY <1>2, RdyqRemove DEF rq0
<1>4. ASSUME NEW q \in Line PROVE t \notin ToSet(rq0.priq[q])
  <2>1. CASE q = p0
    BY <2>1, <1>3
  <2>2. CASE q # p0
    <3>1. t \notin ToSet(k.rdyq.priq[q])
      BY <2>2 DEF p0, SchedInv, ReadyLinks
    <3> QED BY <3>1, <2>2, <1>3
  <2> QED BY <2>1, <2>2
<1>5. /\ RdyqInv(rq)
      /\ \A q \in Line : ToSet(rq.priq[q]) =
           IF q = p THEN ToSet(rq0.priq[q]) \union {t} ELSE ToSet(rq0.priq[q])
  <2>1. RdyqInv(rq0) /\ LinkedNowhere(rq0, t)
    BY <1>3, <1>4 DEF LinkedNowhere
  <2> QED BY <2>1, RdyqInsert DEF rq
<1>6. n.schedtsk = rdyq_top(n.rdyq)
  <2>1. rdyq_top(rq) = IF p < rq0.top_priority THEN t ELSE rdyq_top(rq0)
    BY <1>3, <1>4, InsertTop DEF rq, LinkedNowhere
  <2> QED BY <2>1, <1>1
<1>7. ReadyLinks(n)
  <2> SUFFICES ASSUME NEW u \in Task, NEW q \in Line
               PROVE  u \in ToSet(rq.priq[q]) <=> k.state[u] = "RDY" /\ n.tskpri[u] = q
    BY <1>1 DEF ReadyLinks
  <2>1. u \in ToSet(k.rdyq.priq[q]) <=> k.state[u] = "RDY" /\ k.tskpri[u] = q
    BY DEF SchedInv, ReadyLinks
  <2>2. n.tskpri[u] = IF u = t THEN p ELSE k.tskpri[u]
    BY <1>1 DEF SchedFields
  <2>3. CASE u = t
    BY <2>1, <2>2, <2>3, <1>4, <1>5
  <2>4. CASE u # t
    BY <2>1, <2>2, <2>4, <1>3, <1>5
  <2> QED BY <2>3, <2>4
<1> QED BY <1>1, <1>5, <1>6, <1>7 DEF SchedInv, n

(* rdyq_rotate_at, and rdyq_rotate_current, which rotates the top line.    *)
LEMMA RotateInv ==
  ASSUME NEW k, SchedFields(k), SchedInv(k)
  PROVE  /\ \A p \in Line : SchedInv(rdyq_rotate_at(k, p))
         /\ SchedInv(rdyq_rotate_current(k))
<1>1. ASSUME NEW p \in Line PROVE SchedInv(rdyq_rotate_at(k, p))
  <2> DEFINE n == rdyq_rotate_at(k, p)
             rq == rdyq_rotate(k.rdyq, p)
  <2>1. /\ n.state = k.state /\ n.tskpri = k.tskpri
        /\ n.rdyq = rq /\ n.schedtsk = rdyq_top(rq)
    BY DEF rdyq_rotate_at, SchedFields
  <2>2. /\ RdyqInv(rq)
        /\ \A q \in Line : ToSet(rq.priq[q]) = ToSet(k.rdyq.priq[q])
    BY RdyqRotate DEF SchedInv
  <2> HIDE DEF n, rq
  <2>3. ReadyLinks(n)
    BY <2>1, <2>2 DEF SchedInv, ReadyLinks
  <2> QED BY <2>1, <2>2, <2>3 DEF SchedInv, n
<1>2. CASE k.schedtsk = NoTask
  BY <1>1, <1>2 DEF rdyq_rotate_current
<1>3. CASE k.schedtsk # NoTask
  <2>1. k.rdyq.top_priority \in Line
    BY <1>3, RdyqTop DEF SchedInv
  <2> QED BY <2>1, <1>1, <1>3 DEF rdyq_rotate_current
<1> QED BY <1>1, <1>2, <1>3
-----------------------------------------------------------------------------
(* What task.c does to the lines of the ready queue: the steps of a        *)
(* policy that knows of nothing else, from the lines l to the lines m.     *)

Arrives(l, m, t, p) ==
  /\ \A q \in Line : t \notin ToSet(l[q])
  /\ m = [l EXCEPT ![p] = Append(@, t)]

Leaves(l, m, t) ==
  \E p \in Line : \E i \in 1..Len(l[p]) :
    l[p][i] = t /\ m = [l EXCEPT ![p] = RemoveAt(@, i)]

Moves(l, m, t, q) ==
  \E p \in Line : \E i \in 1..Len(l[p]) :
    /\ l[p][i] = t
    /\ m = [[l EXCEPT ![p] = RemoveAt(@, i)] EXCEPT ![q] = Append(@, t)]

GivesWay(l, m, p) == l[p] # <<>> /\ m = [l EXCEPT ![p] = Append(Tail(@), Head(@))]

PolicyStep(l, m) ==
  \/ m = l
  \/ \E t \in Task, p \in Line : Arrives(l, m, t, p) \/ Moves(l, m, t, p)
  \/ \E t \in Task : Leaves(l, m, t)
  \/ \E p \in Line : GivesWay(l, m, p)

(* The top of the ready queue is the first task of the first line that     *)
(* has one: the only such line is the one top_priority names.              *)
LEMMA TopIsFirst ==
  ASSUME NEW rq, RdyqInv(rq)
  PROVE  LET some == {p \in Line : rq.priq[p] # <<>>}
         IN  rdyq_top(rq) =
               IF some = {} THEN NoTask
               ELSE Head(rq.priq[CHOOSE p \in some : \A q \in some : p <= q])
<1> DEFINE some == {p \in Line : rq.priq[p] # <<>>}
<1>1. CASE some = {}
  BY <1>1, RdyqTop
<1>2. CASE some # {}
  <2> DEFINE top == rq.top_priority
  <2>1. /\ top \in some /\ rdyq_top(rq) = Head(rq.priq[top])
        /\ \A q \in some : top <= q
    BY <1>2, RdyqTop DEF RdyqInv, TopExact
  <2>2. some \subseteq Int /\ top \in Int
    BY <2>1, ReadyQueueAssumption DEF Line
  <2> HIDE DEF some, top
  <2>3. \A p \in some : (\A q \in some : p <= q) => p = top
    BY <2>1, <2>2
  <2>4. (CHOOSE p \in some : \A q \in some : p <= q) = top
    BY <2>1, <2>3
  <2> QED BY <1>2, <2>1, <2>4 DEF some
<1> QED BY <1>1, <1>2

(* A task leaves its line where it is linked, and no other.                *)
LEMMA LeavesLine ==
  ASSUME NEW rq, RdyqInv(rq), NEW t \in Task, NEW p \in Line,
         t \in ToSet(rq.priq[p])
  PROVE  \E i \in 1..Len(rq.priq[p]) :
           /\ rq.priq[p][i] = t
           /\ rdyq_remove(rq, t, p).priq = [rq.priq EXCEPT ![p] = RemoveAt(@, i)]
<1> DEFINE i == Position(rq.priq[p], t)
<1>1. rq.priq \in [Line -> Seq(Task)]
  BY DEF RdyqInv, RdyqType
<1>2. i \in 1..Len(rq.priq[p]) /\ rq.priq[p][i] = t
  BY <1>1 DEF Position, ToSet
<1>3. rdyq_remove(rq, t, p).priq = [rq.priq EXCEPT ![p] = kqueue_remove(@, t)]
  BY RdyqRemove
<1>4. kqueue_remove(rq.priq[p], t) = RemoveAt(rq.priq[p], i)
  BY DEF kqueue_remove
<1> HIDE DEF i
<1> QED BY <1>2, <1>3, <1>4

(* task_make_ready: the task arrives behind the others of its priority.    *)
LEMMA ReadyLines ==
  ASSUME NEW k, SchedFields(k), SchedInv(k), NEW t \in Task, k.state[t] # "RDY"
  PROVE  Arrives(k.rdyq.priq, task_make_ready(k, t).rdyq.priq, t, k.tskpri[t])
<1>1. task_make_ready(k, t).rdyq = rdyq_insert(k.rdyq, t, k.tskpri[t])
  BY DEF task_make_ready, SchedFields
<1>2. task_make_ready(k, t).rdyq.priq =
        [k.rdyq.priq EXCEPT ![k.tskpri[t]] = Append(@, t)]
  BY <1>1 DEF rdyq_insert, kqueue_insert
<1> QED BY <1>2 DEF Arrives, SchedInv, ReadyLinks

(* A READY task is linked in its line.                                     *)
LEMMA ReadyLinked ==
  ASSUME NEW k, SchedFields(k), SchedInv(k), NEW t \in Task, k.state[t] = "RDY"
  PROVE  /\ k.tskpri[t] \in Line /\ t \in ToSet(k.rdyq.priq[k.tskpri[t]])
         /\ RdyqInv(k.rdyq)
BY DEF SchedFields, SchedInv, ReadyLinks

(* task_make_unready: the task leaves, the order of the others stays.      *)
LEMMA UnreadyLines ==
  ASSUME NEW k, SchedFields(k), SchedInv(k), NEW t \in Task, k.state[t] = "RDY"
  PROVE  Leaves(k.rdyq.priq, task_make_unready(k, t).rdyq.priq, t)
<1> DEFINE p == k.tskpri[t]
<1>1. task_make_unready(k, t).rdyq = rdyq_remove(k.rdyq, t, p)
  BY DEF task_make_unready, SchedFields
<1>2. p \in Line /\ t \in ToSet(k.rdyq.priq[p]) /\ RdyqInv(k.rdyq)
  BY ReadyLinked
<1> HIDE DEF p
<1>3. PICK i \in 1..Len(k.rdyq.priq[p]) :
        /\ k.rdyq.priq[p][i] = t
        /\ rdyq_remove(k.rdyq, t, p).priq =
             [k.rdyq.priq EXCEPT ![p] = RemoveAt(@, i)]
  BY <1>2, LeavesLine
<1> QED BY <1>1, <1>2, <1>3 DEF Leaves

(* task_change_pri: the task leaves its line and arrives in another.       *)
LEMMA ChangePriLines ==
  ASSUME NEW k, SchedFields(k), SchedInv(k), NEW t \in Task, k.state[t] = "RDY",
         NEW q \in Line
  PROVE  Moves(k.rdyq.priq, task_change_pri(k, t, q).rdyq.priq, t, q)
<1> DEFINE p == k.tskpri[t]
           rq == rdyq_remove(k.rdyq, t, p)
<1>1. task_change_pri(k, t, q).rdyq = rdyq_insert(rq, t, q)
  BY DEF task_change_pri, SchedFields
<1>2. p \in Line /\ t \in ToSet(k.rdyq.priq[p]) /\ RdyqInv(k.rdyq)
  BY ReadyLinked
<1> HIDE DEF p
<1>3. PICK i \in 1..Len(k.rdyq.priq[p]) :
        /\ k.rdyq.priq[p][i] = t
        /\ rq.priq = [k.rdyq.priq EXCEPT ![p] = RemoveAt(@, i)]
  BY <1>2, LeavesLine
<1> HIDE DEF rq
<1>4. task_change_pri(k, t, q).rdyq.priq =
        [[k.rdyq.priq EXCEPT ![p] = RemoveAt(@, i)] EXCEPT ![q] = Append(@, t)]
  BY <1>1, <1>3 DEF rdyq_insert, kqueue_insert
<1> QED BY <1>2, <1>3, <1>4 DEF Moves

(* rdyq_rotate_at: the first of the line gives way, if there is one.       *)
LEMMA RotateLines ==
  ASSUME NEW k, SchedFields(k), SchedInv(k), NEW p \in Line
  PROVE  PolicyStep(k.rdyq.priq, rdyq_rotate_at(k, p).rdyq.priq)
<1> DEFINE line == k.rdyq.priq
           new == rdyq_rotate_at(k, p).rdyq
<1>1. new = rdyq_rotate(k.rdyq, p)
  BY DEF rdyq_rotate_at, SchedFields
<1> HIDE DEF new
<1>2. CASE line[p] = <<>>
  BY <1>1, <1>2 DEF rdyq_rotate, kqueue_empty, PolicyStep, new
<1>3. CASE line[p] # <<>>
  <2>1. k.rdyq \in RdyqType
    BY DEF SchedInv, RdyqInv
  <2>2. new = [k.rdyq EXCEPT !.priq[p] = Append(Tail(@), Head(@))]
    BY <1>1, <1>3 DEF rdyq_rotate, kqueue_empty, kqueue_insert
  <2>3. new.priq = [line EXCEPT ![p] = Append(Tail(@), Head(@))]
    BY <2>1, <2>2 DEF RdyqType
  <2>4. GivesWay(line, new.priq, p)
    BY <1>3, <2>3 DEF GivesWay
  <2> QED BY <2>4 DEF PolicyStep, new
<1> QED BY <1>2, <1>3

-----------------------------------------------------------------------------
(* The scheduler: its invariants hold in every reachable state. *)

(* The inductive invariant.  None of the four properties is inductive by    *)
(* itself: schedtsk is right after a removal only because the scan of the   *)
(* bitmap is, the scan because the bits agree with the lists, and those     *)
(* because tskpri names the line a READY task is in.                        *)
SchedIInv == SchedTypeOK /\ SchedInv(sched)

(* task_initialize leaves a sound and empty scheduler.                      *)
LEMMA SchedInitIInv == SchedInit => SchedIInv
<1> SUFFICES ASSUME SchedInit PROVE SchedIInv
  OBVIOUS
<1>1. PICK pri \in [Task -> Line] :
        sched = [state    |-> [t \in Task |-> "WAI"],
                 tskpri   |-> pri,
                 rdyq     |-> rdyq_init,
                 schedtsk |-> NoTask]
  BY DEF SchedInit
<1>2. RdyqInv(rdyq_init)
  BY RdyqInit
<1>3. SchedTypeOK
  BY <1>1, <1>2 DEF SchedTypeOK, SchedType, RdyqInv
<1>4. rdyq_top(rdyq_init) = NoTask
  BY DEF rdyq_top, rdyq_init
<1>5. ReadyLinks(sched)
  BY <1>1 DEF ReadyLinks, rdyq_init, ToSet
<1> QED BY <1>1, <1>2, <1>3, <1>4, <1>5 DEF SchedIInv, SchedInv

(* Every entry point of task.c keeps the scheduler sound.                   *)
LEMMA SchedStepIInv == SchedIInv /\ [SchedNext]_schedvars => SchedIInv'
<1> SUFFICES ASSUME SchedIInv, [SchedNext]_schedvars PROVE SchedIInv'
  OBVIOUS
<1>1. /\ sched \in SchedType /\ SchedFields(sched) /\ SchedInv(sched)
      /\ DOMAIN sched = {"state", "tskpri", "rdyq", "schedtsk"}
  BY DEF SchedIInv, SchedTypeOK, SchedType, SchedFields, States
(* The new state is a record of the right shape when its parts are typed.  *)
<1>2. ASSUME sched' = [state    |-> sched'.state,
                       tskpri   |-> sched'.tskpri,
                       rdyq     |-> sched'.rdyq,
                       schedtsk |-> sched'.schedtsk],
             sched'.state \in [Task -> {"RDY", "WAI"}],
             sched'.tskpri \in [Task -> Line],
             SchedInv(sched')
      PROVE  SchedIInv'
  <2>1. sched'.rdyq \in RdyqType /\ sched'.schedtsk \in Task \union {NoTask}
    BY <1>2, RdyqTop DEF SchedInv, RdyqInv
  <2>2. sched' \in SchedType
    BY <1>2, <2>1 DEF SchedType
  <2> QED BY <1>2, <2>2 DEF SchedIInv, SchedTypeOK
<1>3. ASSUME NEW t \in Task, MakeReady(t) PROVE SchedIInv'
  <2>1. SchedInv(sched')
    BY <1>1, <1>3, MakeReadyInv DEF MakeReady
  <2>2. /\ sched' = [state    |-> sched'.state,
                     tskpri   |-> sched'.tskpri,
                     rdyq     |-> sched'.rdyq,
                     schedtsk |-> sched'.schedtsk]
        /\ sched'.state \in [Task -> {"RDY", "WAI"}]
        /\ sched'.tskpri \in [Task -> Line]
    BY <1>1, <1>3 DEF MakeReady, task_make_ready, SchedType
  <2> QED BY <1>2, <2>1, <2>2
<1>4. ASSUME NEW t \in Task, MakeUnready(t) PROVE SchedIInv'
  <2>1. SchedInv(sched')
    BY <1>1, <1>4, MakeUnreadyInv DEF MakeUnready
  <2>2. /\ sched' = [state    |-> sched'.state,
                     tskpri   |-> sched'.tskpri,
                     rdyq     |-> sched'.rdyq,
                     schedtsk |-> sched'.schedtsk]
        /\ sched'.state \in [Task -> {"RDY", "WAI"}]
        /\ sched'.tskpri \in [Task -> Line]
    BY <1>1, <1>4 DEF MakeUnready, task_make_unready, SchedType
  <2> QED BY <1>2, <2>1, <2>2
<1>5. ASSUME NEW t \in Task, NEW p \in Line, ChangePri(t, p) PROVE SchedIInv'
  <2>1. SchedInv(sched')
    BY <1>1, <1>5, ChangePriInv DEF ChangePri
  <2>2. /\ sched' = [state    |-> sched'.state,
                     tskpri   |-> sched'.tskpri,
                     rdyq     |-> sched'.rdyq,
                     schedtsk |-> sched'.schedtsk]
        /\ sched'.state \in [Task -> {"RDY", "WAI"}]
        /\ sched'.tskpri \in [Task -> Line]
    BY <1>1, <1>5 DEF ChangePri, task_change_pri, SchedType
  <2> QED BY <1>2, <2>1, <2>2
<1>6. ASSUME NEW p \in Line, RotateAt(p) PROVE SchedIInv'
  <2>1. SchedInv(sched')
    BY <1>1, <1>6, RotateInv DEF RotateAt
  <2>2. /\ sched' = [state    |-> sched'.state,
                     tskpri   |-> sched'.tskpri,
                     rdyq     |-> sched'.rdyq,
                     schedtsk |-> sched'.schedtsk]
        /\ sched'.state = sched.state /\ sched'.tskpri = sched.tskpri
    BY <1>1, <1>6 DEF RotateAt, rdyq_rotate_at, SchedType
  <2> QED BY <1>1, <1>2, <2>1, <2>2 DEF SchedType
<1>7. ASSUME RotateCurrent PROVE SchedIInv'
  <2>1. SchedInv(sched')
    BY <1>1, <1>7, RotateInv DEF RotateCurrent
  <2>2. /\ sched' = [state    |-> sched'.state,
                     tskpri   |-> sched'.tskpri,
                     rdyq     |-> sched'.rdyq,
                     schedtsk |-> sched'.schedtsk]
        /\ sched'.state = sched.state /\ sched'.tskpri = sched.tskpri
    BY <1>1, <1>7 DEF RotateCurrent, rdyq_rotate_current, rdyq_rotate_at, SchedType
  <2> QED BY <1>1, <1>2, <2>1, <2>2 DEF SchedType
<1>8. CASE UNCHANGED schedvars
  BY <1>8 DEF schedvars, SchedIInv, SchedTypeOK
<1> QED BY <1>3, <1>4, <1>5, <1>6, <1>7, <1>8 DEF SchedNext

(* The inductive invariant holds in every state the scheduler reaches.      *)
LEMMA SchedInvariance == SchedSpec => []SchedIInv
BY SchedInitIInv, SchedStepIInv, PTL DEF SchedSpec

(* The fields stay in their types: schedtsk is a task or null, and          *)
(* top_priority is a line or one past the last (rdyq.h, task.c).            *)
THEOREM SchedTypeCorrect == SchedSpec => []SchedTypeOK
<1>1. SchedIInv => SchedTypeOK
  BY DEF SchedIInv
<1> QED BY <1>1, SchedInvariance, PTL

(* The bitmap and top_priority never disagree with the lists.              *)
THEOREM ReadyQueueCorrect == SchedSpec => []ReadyQueueOK
<1>1. SchedIInv => ReadyQueueOK
  BY DEF SchedIInv, SchedInv, ReadyQueueOK
<1> QED BY <1>1, SchedInvariance, PTL

(* A task is linked in the line of its priority exactly while READY.       *)
THEOREM LinksCorrect == SchedSpec => []ReadyIffLinked
<1>1. SchedIInv => ReadyIffLinked
  BY DEF SchedIInv, SchedInv, ReadyIffLinked
<1> QED BY <1>1, SchedInvariance, PTL

(* schedtsk is the first task of the highest line with a ready task.       *)
THEOREM SchedCorrect == SchedSpec => []SchedIsTop
<1>1. SchedIInv => SchedIsTop
  <2> SUFFICES ASSUME SchedIInv PROVE SchedIsTop
    OBVIOUS
  <2>1. /\ sched.schedtsk = rdyq_top(sched.rdyq) /\ RdyqInv(sched.rdyq)
        /\ sched.state \in [Task -> {"RDY", "WAI"}] /\ sched.tskpri \in [Task -> Line]
    BY DEF SchedIInv, SchedInv, SchedTypeOK, SchedType
  <2>2. \A t \in Task : sched.state[t] = "RDY" =>
          t \in ToSet(sched.rdyq.priq[sched.tskpri[t]]) /\ sched.tskpri[t] \in Line
    BY <2>1 DEF SchedIInv, SchedInv, ReadyLinks
  <2>3. \A t \in Task : sched.state[t] = "RDY" =>
          /\ sched.rdyq.priq[sched.tskpri[t]] # <<>>
          /\ sched.rdyq.top_priority <= sched.tskpri[t]
    BY <2>1, <2>2 DEF ToSet, RdyqInv, TopExact
  <2>4. sched.schedtsk = NoTask => \A t \in Task : sched.state[t] # "RDY"
    BY <2>1, <2>2, <2>3, RdyqTop
  <2>5. ASSUME sched.schedtsk # NoTask
        PROVE  /\ sched.schedtsk \in Task /\ sched.state[sched.schedtsk] = "RDY"
               /\ sched.tskpri[sched.schedtsk] = sched.rdyq.top_priority
               /\ sched.schedtsk = Head(sched.rdyq.priq[sched.rdyq.top_priority])
    <3>1. /\ sched.schedtsk \in Task /\ sched.rdyq.top_priority \in Line
          /\ sched.schedtsk \in ToSet(sched.rdyq.priq[sched.rdyq.top_priority])
          /\ sched.schedtsk = Head(sched.rdyq.priq[sched.rdyq.top_priority])
      BY <2>1, <2>5, RdyqTop
    <3> QED BY <3>1 DEF SchedIInv, SchedInv, ReadyLinks
  <2>6. sched.schedtsk # NoTask => ~ \A t \in Task : sched.state[t] # "RDY"
    BY <2>5
  <2> QED BY <2>3, <2>4, <2>5, <2>6 DEF SchedIsTop
<1> QED BY <1>1, SchedInvariance, PTL

-----------------------------------------------------------------------------
(* The scheduler implements PriorityFifo. *)

(* The entry points of task.c do to the lines what the policy does, and    *)
(* schedtsk, which the invariant ties to the lines, is its choice.         *)
LEMMA SchedStepImplements ==
  ASSUME SchedIInv, SchedIInv', [SchedNext]_schedvars PROVE [SchedFifo!Next]_(SchedFifo!vars)
<1> DEFINE l == sched.rdyq.priq
           m == sched'.rdyq.priq
<1>1. /\ sched \in SchedType /\ SchedFields(sched) /\ SchedInv(sched)
      /\ \A t \in Task : sched.tskpri[t] \in Line
  BY DEF SchedIInv, SchedTypeOK, SchedType, SchedFields, States
<1>2. sched.schedtsk = SchedFifo!Choice(l) /\ sched'.schedtsk = SchedFifo!Choice(m)
  BY TopIsFirst DEF SchedIInv, SchedInv, SchedFifo!Choice
<1>3. PolicyStep(l, m)
  <2>1. ASSUME NEW t \in Task, MakeReady(t) PROVE PolicyStep(l, m)
    <3>1. sched.state[t] # "RDY" /\ sched' = task_make_ready(sched, t) /\ sched.tskpri[t] \in Line
      BY <1>1, <2>1 DEF MakeReady
    <3>2. Arrives(l, m, t, sched.tskpri[t])
      BY <1>1, <3>1, ReadyLines
    <3> QED BY <3>1, <3>2 DEF PolicyStep
  <2>2. ASSUME NEW t \in Task, MakeUnready(t) PROVE PolicyStep(l, m)
    <3>1. sched.state[t] = "RDY" /\ m = task_make_unready(sched, t).rdyq.priq
      BY <1>1, <2>2 DEF MakeUnready, task_make_unready, SchedType
    <3>2. Leaves(l, m, t)
      BY <1>1, <3>1, UnreadyLines
    <3> QED BY <3>2 DEF PolicyStep
  <2>3. ASSUME NEW t \in Task, NEW q \in Line, ChangePri(t, q) PROVE PolicyStep(l, m)
    <3>1. sched.state[t] = "RDY" /\ sched' = task_change_pri(sched, t, q)
      BY <2>3 DEF ChangePri
    <3>2. Moves(l, m, t, q)
      BY <1>1, <3>1, ChangePriLines
    <3> QED BY <3>2 DEF PolicyStep
  <2>4. ASSUME NEW p \in Line, sched' = rdyq_rotate_at(sched, p) PROVE PolicyStep(l, m)
    BY <1>1, <2>4, RotateLines
  <2>5. ASSUME NEW p \in Line, RotateAt(p) PROVE PolicyStep(l, m)
    BY <2>4, <2>5 DEF RotateAt
  <2>6. CASE RotateCurrent
    <3>1. sched' = sched \/ \E p \in Line : sched' = rdyq_rotate_at(sched, p)
      BY <1>1, <2>6, RdyqTop DEF RotateCurrent, rdyq_rotate_current, SchedInv
    <3> QED BY <3>1, <2>4 DEF PolicyStep
  <2>7. CASE UNCHANGED schedvars
    BY <2>7 DEF schedvars, PolicyStep
  <2> QED BY <2>1, <2>2, <2>3, <2>5, <2>6, <2>7 DEF SchedNext
<1> HIDE DEF l, m
<1>4. CASE m = l
  BY <1>2, <1>4 DEF SchedFifo!vars, l, m
<1>5. ASSUME NEW t \in Task, NEW p \in Line, Arrives(l, m, t, p) PROVE SchedFifo!Next
  BY <1>2, <1>5 DEF Arrives, SchedFifo!Next, SchedFifo!Arrive, SchedFifo!Ready, SchedFifo!ToSet, ToSet, l, m
<1>6. ASSUME NEW t \in Task, NEW p \in Line, Moves(l, m, t, p) PROVE SchedFifo!Next
  <2>1. SchedFifo!Move(t, p)
    BY <1>6 DEF Moves, SchedFifo!Move, SchedFifo!RemoveAt, RemoveAt, l, m
  <2> QED BY <1>2, <2>1 DEF SchedFifo!Next, l, m
<1>7. ASSUME NEW t \in Task, Leaves(l, m, t) PROVE SchedFifo!Next
  <2>1. SchedFifo!Leave(t)
    BY <1>7 DEF Leaves, SchedFifo!Leave, SchedFifo!RemoveAt, RemoveAt, l, m
  <2> QED BY <1>2, <2>1 DEF SchedFifo!Next, l, m
<1>8. ASSUME NEW p \in Line, GivesWay(l, m, p) PROVE SchedFifo!Next
  BY <1>2, <1>8 DEF GivesWay, SchedFifo!Next, SchedFifo!GiveWay, l, m
<1> QED BY <1>3, <1>4, <1>5, <1>6, <1>7, <1>8 DEF PolicyStep

(* Tasks of one priority take the processor in the order they became       *)
(* ready, whatever task.c and rdyq.h do with bitmap and cached top: the    *)
(* scheduler's lists and schedtsk implement the policy.                    *)
THEOREM SchedImplementsFifo == SchedSpec => SchedFifoSpec
<1>1. SchedInit => SchedFifo!Init
  BY DEF SchedInit, SchedFifo!Init, rdyq_init
<1>2. SchedIInv /\ SchedIInv' /\ [SchedNext]_schedvars => [SchedFifo!Next]_(SchedFifo!vars)
  BY SchedStepImplements
<1> QED BY <1>1, <1>2, SchedInvariance, PTL DEF SchedSpec, SchedFifoSpec, SchedFifo!Spec
=============================================================================
