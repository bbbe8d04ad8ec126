---------------------------- MODULE MailboxProofs ----------------------------
(***************************************************************************)
(* The mailboxes of src/kernel/mailbox.c, for any number of them, of tasks *)
(* and of messages: every message is in one place, none is kept from a     *)
(* task that waits, and the linked messages are the queue that the         *)
(* attributes name.                                                        *)
(***************************************************************************)
EXTENDS Mailbox, KernelProofs

-----------------------------------------------------------------------------
(* Linked lists of messages. *)

(* The messages of c, each once, are those linked from head on by nx.      *)
IsList(head, nx, c) ==
  /\ c \in Seq(Msg) /\ IsInjective(c)
  /\ head = IF c = <<>> THEN NIL ELSE c[1]
  /\ \A i \in 1..Len(c) : nx[c[i]] = IF i = Len(c) THEN NIL ELSE c[i + 1]

(* A list has no more messages than there are.                             *)
LEMMA ListLength ==
  ASSUME NEW c \in Seq(Msg), IsInjective(c)
  PROVE  Cardinality(Msg) \in Nat /\ Len(c) <= Cardinality(Msg)
<1>1. IsFiniteSet(Msg) /\ Cardinality(Msg) \in Nat
  BY MailboxAssumption, FS_CardinalityType
<1>2. Len(c) \in Nat /\ IsFiniteSet(1..Len(c)) /\ Cardinality(1..Len(c)) = Len(c)
  <2>1. PICK n \in Nat : n = Len(c)
    BY LenProperties
  <2>2. IsFiniteSet(1..n) /\ Cardinality(1..n) = n
    <3>1. /\ IsFiniteSet(1..n)
          /\ Cardinality(1..n) = IF 1 > n THEN 0 ELSE n - 1 + 1
      BY FS_Interval
    <3> QED BY <3>1
  <2> QED BY <2>1, <2>2
<1>3. c \in Injection(1..Len(c), Msg)
  <2>1. c \in [1..Len(c) -> Msg] /\ DOMAIN c = 1..Len(c)
    BY ElementOfSeq, LenProperties
  <2> QED BY <2>1 DEF Injection, IsInjective
<1> QED BY <1>1, <1>2, <1>3, FS_Injection

(* The first n messages of c, or all.                                      *)
First(c, n) == SubSeq(c, 1, IF n <= Len(c) THEN n ELSE Len(c))

(* What those are.                                                         *)
LEMMA FirstIs ==
  ASSUME NEW c \in Seq(Msg), NEW n \in Nat
  PROVE  /\ First(c, n) \in Seq(Msg)
         /\ Len(First(c, n)) = IF n <= Len(c) THEN n ELSE Len(c)
         /\ \A i \in 1..Len(First(c, n)) : First(c, n)[i] = c[i]
         /\ n >= Len(c) => First(c, n) = c
<1>1. PICK l : l = IF n <= Len(c) THEN n ELSE Len(c)
  OBVIOUS
<1>2. l \in 0..Len(c)
  BY <1>1
<1>3. PICK d : d = SubSeq(c, 1, l)
  OBVIOUS
<1>4. d \in Seq(Msg) /\ Len(d) = l /\ \A i \in 1..l : d[i] = c[i]
  BY <1>2, <1>3, SubSeqProperties
<1>5. n >= Len(c) => d = c
  <2> SUFFICES ASSUME n >= Len(c) PROVE d = c
    OBVIOUS
  <2>1. Len(d) = Len(c) /\ \A i \in 1..Len(d) : d[i] = c[i]
    BY <1>1, <1>4
  <2> QED BY <1>4, <2>1, SeqEqual
<1> QED BY <1>1, <1>3, <1>4, <1>5 DEF First

(* A step of the walk along the links is a step in c.                      *)
LEMMA OneMore ==
  ASSUME NEW head, NEW nx, NEW c, IsList(head, nx, c), NEW n \in Nat
  PROVE  one_more(head, nx, First(c, n)) = First(c, n + 1)
<1>1. c \in Seq(Msg) /\ Len(c) \in Nat
  BY DEF IsList
<1>2. PICK d, e : d = First(c, n) /\ e = First(c, n + 1)
  OBVIOUS
<1>3. PICK m : m = IF d = <<>> THEN head ELSE nx[Last(d)]
  OBVIOUS
<1>4. one_more(head, nx, d) = IF m = NIL THEN d ELSE Append(d, m)
  BY <1>3 DEF one_more
<1>5. CASE n >= Len(c)
  <2>1. d = c /\ e = c
    BY <1>1, <1>2, <1>5, FirstIs
  <2>2. m = NIL
    <3>1. CASE c = <<>>
      BY <1>3, <2>1, <3>1 DEF IsList
    <3>2. CASE c # <<>>
      <4>1. Len(c) \in 1..Len(c) /\ Last(c) = c[Len(c)]
        BY <1>1, <3>2 DEF Last
      <4> QED BY <1>3, <2>1, <3>2, <4>1 DEF IsList
    <3> QED BY <3>1, <3>2
  <2> QED BY <1>2, <1>4, <2>1, <2>2
<1>6. CASE n < Len(c)
  <2>1. /\ d \in Seq(Msg) /\ Len(d) = n /\ \A i \in 1..n : d[i] = c[i]
        /\ e \in Seq(Msg) /\ Len(e) = n + 1 /\ \A i \in 1..(n + 1) : e[i] = c[i]
    <3>1. PICK x : x = n + 1
      OBVIOUS
    <3>2. x \in Nat /\ n <= Len(c) /\ x <= Len(c)
      BY <1>1, <1>6, <3>1
    <3>3. d \in Seq(Msg) /\ Len(d) = n /\ \A i \in 1..n : d[i] = c[i]
      BY <1>1, <1>2, <3>2, FirstIs
    <3>4. e \in Seq(Msg) /\ Len(e) = x /\ \A i \in 1..x : e[i] = c[i]
      <4>1. e = First(c, x)
        BY <1>2, <3>1
      <4> QED BY <1>1, <3>2, <4>1, FirstIs
    <3> QED BY <3>1, <3>3, <3>4
  <2>2. m = c[n + 1]
    <3>1. CASE n = 0
      BY <1>1, <1>3, <1>6, <2>1, <3>1 DEF IsList
    <3>2. CASE n # 0
      <4>1. n \in 1..Len(c) /\ n # Len(c) /\ d # <<>> /\ Last(d) = c[n]
        BY <1>1, <1>6, <2>1, <3>2 DEF Last
      <4> QED BY <1>3, <4>1 DEF IsList
    <3> QED BY <3>1, <3>2
  <2>3. m \in Msg /\ m # NIL
    <3>1. n + 1 \in 1..Len(c)
      BY <1>1, <1>6
    <3> QED BY <1>1, <2>2, <3>1, MailboxAssumption
  <2>4. Append(d, m) = e
    <3>1. /\ Append(d, m) \in Seq(Msg) /\ Len(Append(d, m)) = n + 1
          /\ \A i \in 1..(n + 1) : Append(d, m)[i] = IF i <= n THEN d[i] ELSE m
      BY <2>1, <2>3, AppendProperties
    <3>2. \A i \in 1..(n + 1) : Append(d, m)[i] = e[i]
      BY <2>1, <2>2, <3>1
    <3> HIDE DEF First
    <3> QED BY <2>1, <3>1, <3>2, SeqEqual
  <2> QED BY <1>2, <1>4, <2>3, <2>4
<1> QED BY <1>1, <1>5, <1>6

(* One function satisfies the recursive definition, so what is linked is c.*)
LEMMA LinkedIs ==
  ASSUME NEW head, NEW nx, NEW c, IsList(head, nx, c)
  PROVE  linked(head, nx) = c
<1>1. PICK N : N = Cardinality(Msg)
  OBVIOUS
<1>2. c \in Seq(Msg) /\ N \in Nat /\ Len(c) <= N
  BY <1>1, ListLength DEF IsList
<1> DEFINE IsFirst(f) ==
             f = [n \in 0..N |-> IF n = 0 THEN <<>> ELSE one_more(head, nx, f[n - 1])]
<1>3. \E f : IsFirst(f)
  <2>1. PICK g : g = [n \in 0..N |-> First(c, n)]
    OBVIOUS
  <2>2. First(c, 0) = <<>>
    <3>1. First(c, 0) \in Seq(Msg) /\ Len(First(c, 0)) = 0
      BY <1>2, FirstIs
    <3> HIDE DEF First
    <3> QED BY <3>1, EmptySeq
  <2>3. ASSUME NEW n \in 0..N
        PROVE  g[n] = IF n = 0 THEN <<>> ELSE one_more(head, nx, g[n - 1])
    <3>1. CASE n = 0
      BY <2>1, <2>2, <3>1
    <3>2. CASE n # 0
      <4>1. n - 1 \in Nat /\ n - 1 \in 0..N /\ (n - 1) + 1 = n
        BY <1>2, <3>2
      <4>2. one_more(head, nx, First(c, n - 1)) = First(c, (n - 1) + 1)
        BY <4>1, OneMore
      <4>3. g[n] = First(c, n) /\ g[n - 1] = First(c, n - 1)
        BY <2>1, <4>1
      <4> QED BY <3>2, <4>1, <4>2, <4>3
    <3> QED BY <3>1, <3>2
  <2>4. g = [n \in 0..N |-> g[n]]
    BY <2>1
  <2>5. IsFirst(g)
    BY <2>3, <2>4
  <2> QED BY <2>5
<1>4. PICK f : IsFirst(f) /\ linked(head, nx) = f[N]
  BY <1>1, <1>3 DEF linked
<1> DEFINE S == {n \in Nat : n <= N => f[n] = First(c, n)}
<1>5. 0 \in S
  <2>1. First(c, 0) = <<>>
    <3>1. First(c, 0) \in Seq(Msg) /\ Len(First(c, 0)) = 0
      BY <1>2, FirstIs
    <3> HIDE DEF First
    <3> QED BY <3>1, EmptySeq
  <2>2. f[0] = <<>>
    BY <1>2, <1>4
  <2> QED BY <2>1, <2>2
<1>6. ASSUME NEW n \in Nat, n \in S PROVE n + 1 \in S
  <2> SUFFICES ASSUME n + 1 <= N PROVE f[n + 1] = First(c, n + 1)
    OBVIOUS
  <2>1. n + 1 \in 0..N /\ n + 1 # 0 /\ (n + 1) - 1 = n /\ n <= N
    BY <1>2
  <2>2. f[n + 1] = one_more(head, nx, f[(n + 1) - 1])
    BY <1>4, <2>1
  <2>3. f[n] = First(c, n)
    BY <1>6, <2>1
  <2> QED BY <2>1, <2>2, <2>3, OneMore
<1>7. \A n \in Nat : n \in S
  <2> HIDE DEF S
  <2> QED BY <1>5, <1>6, NumberInduction
<1>8. First(c, N) = c
  BY <1>2, FirstIs
<1> QED BY <1>2, <1>4, <1>7, <1>8

(* A list is the same when its own links are.                              *)
LEMMA ListSame ==
  ASSUME NEW head, NEW nx, NEW ny, NEW c, IsList(head, nx, c),
         \A m \in ToSet(c) : ny[m] = nx[m]
  PROVE  IsList(head, ny, c)
<1>1. \A i \in 1..Len(c) : c[i] \in ToSet(c)
  BY DEF ToSet, IsList
<1> QED BY <1>1 DEF IsList

(* Without its first message.                                              *)
LEMMA ListTail ==
  ASSUME NEW head, NEW nx, NEW c, IsList(head, nx, c), head # NIL
  PROVE  /\ c # <<>> /\ head = c[1] /\ head \in ToSet(c) /\ head \in Msg
         /\ IsList(nx[head], nx, Tail(c)) /\ ToSet(Tail(c)) = ToSet(c) \ {head}
         /\ Len(Tail(c)) = Len(c) - 1 /\ \A i \in 1..(Len(c) - 1) : Tail(c)[i] = c[i + 1]
<1>1. c \in Seq(Msg) /\ Len(c) \in Nat /\ c # <<>> /\ head = c[1] /\ Len(c) > 0
  BY DEF IsList
<1>2. PICK d : d = Tail(c)
  OBVIOUS
<1>3. /\ d \in Seq(Msg) /\ Len(d) = Len(c) - 1
      /\ \A i \in 1..(Len(c) - 1) : d[i] = c[i + 1]
  BY <1>1, <1>2, HeadTailProperties
<1>4. \A i, j \in 1..Len(c) : c[i] = c[j] => i = j
  BY <1>1 DEF IsList, IsInjective
<1>5. IsInjective(d)
  <2>1. ASSUME NEW i \in 1..(Len(c) - 1), NEW j \in 1..(Len(c) - 1), d[i] = d[j]
        PROVE  i = j
    <3>1. i + 1 \in 1..Len(c) /\ j + 1 \in 1..Len(c) /\ c[i + 1] = c[j + 1]
      BY <1>1, <1>3, <2>1
    <3> QED BY <1>4, <3>1
  <2> QED BY <1>3, <2>1 DEF IsInjective
<1>6. ToSet(d) = ToSet(c) \ {head}
  <2>1. DOMAIN c = 1..Len(c) /\ DOMAIN d = 1..(Len(c) - 1)
    BY <1>1, <1>3
  <2>2. ASSUME NEW m \in ToSet(d) PROVE m \in ToSet(c) \ {head}
    <3>1. PICK i \in 1..(Len(c) - 1) : m = d[i]
      BY <2>1 DEF ToSet
    <3>2. i + 1 \in 1..Len(c) /\ i + 1 # 1 /\ 1 \in 1..Len(c) /\ m = c[i + 1]
      BY <1>1, <1>3, <3>1
    <3> QED BY <1>1, <1>4, <2>1, <3>2 DEF ToSet
  <2>3. ASSUME NEW m \in ToSet(c), m # head PROVE m \in ToSet(d)
    <3>1. PICK i \in 1..Len(c) : m = c[i]
      BY <2>1 DEF ToSet
    <3>2. i # 1
      BY <1>1, <2>3, <3>1
    <3>3. i - 1 \in 1..(Len(c) - 1) /\ (i - 1) + 1 = i
      BY <1>1, <3>2
    <3>4. m = d[i - 1]
      BY <1>3, <3>1, <3>3
    <3> QED BY <2>1, <3>3, <3>4 DEF ToSet
  <2> QED BY <2>2, <2>3
<1>7. IsList(nx[head], nx, d)
  <2>1. nx[head] = IF d = <<>> THEN NIL ELSE d[1]
    <3>0. \A i \in 1..Len(c) : nx[c[i]] = IF i = Len(c) THEN NIL ELSE c[i + 1]
      BY DEF IsList
    <3>1. 1 \in 1..Len(c) /\ nx[c[1]] = IF 1 = Len(c) THEN NIL ELSE c[1 + 1]
      <4>1. 1 \in 1..Len(c)
        BY <1>1
      <4> QED BY <3>0, <4>1
    <3>2. d = <<>> <=> Len(c) = 1
      BY <1>1, <1>3, EmptySeq
    <3>3. Len(c) # 1 => d[1] = c[1 + 1]
      BY <1>1, <1>3
    <3> QED BY <1>1, <3>1, <3>2, <3>3
  <2>2. ASSUME NEW i \in 1..Len(d)
        PROVE  nx[d[i]] = IF i = Len(d) THEN NIL ELSE d[i + 1]
    <3>1. /\ i \in 1..(Len(c) - 1) /\ i + 1 \in 1..Len(c) /\ d[i] = c[i + 1]
          /\ i # Len(d) => i + 1 \in 1..(Len(c) - 1)
      BY <1>1, <1>3
    <3>2. nx[c[i + 1]] = IF i + 1 = Len(c) THEN NIL ELSE c[(i + 1) + 1]
      BY <3>1 DEF IsList
    <3> QED BY <1>1, <1>3, <3>1, <3>2
  <2> QED BY <1>3, <1>5, <2>1, <2>2 DEF IsList
<1>8. head \in ToSet(c) /\ head \in Msg
  BY <1>1 DEF ToSet
<1> QED BY <1>1, <1>2, <1>3, <1>6, <1>7, <1>8

(* d is c with m in front of its i-th message, or behind the last.         *)
Spliced(d, c, i, m) ==
  /\ d \in Seq(Msg) /\ Len(d) = Len(c) + 1
  /\ \A j \in 1..(Len(c) + 1) : d[j] = IF j < i THEN c[j] ELSE IF j = i THEN m ELSE c[j - 1]

(* InsertAt does that.                                                     *)
LEMMA InsertAtSplices ==
  ASSUME NEW c \in Seq(Msg), NEW m \in Msg, NEW i \in 1..(Len(c) + 1)
  PROVE  Spliced(InsertAt(c, i, m), c, i, m)
<1>1. InsertAt(c, i, m) \in Seq(Msg) /\ Len(InsertAt(c, i, m)) = Len(c) + 1
  BY InsertPlace, SMTT(60)
<1>2. ASSUME NEW j \in 1..(Len(c) + 1)
      PROVE  InsertAt(c, i, m)[j] = IF j < i THEN c[j] ELSE IF j = i THEN m ELSE c[j - 1]
  BY InsertPlace, SMTT(60)
<1> QED BY <1>1, <1>2 DEF Spliced

(* What was there once is there once.                                      *)
LEMMA StillOnce ==
  ASSUME NEW n \in Nat, NEW c, NEW m, NEW i \in 1..(n + 1), NEW d,
         \A v, w \in 1..n : c[v] = c[w] => v = w,
         \A v \in 1..n : c[v] # m,
         \A v \in 1..(n + 1) : d[v] = IF v < i THEN c[v] ELSE IF v = i THEN m ELSE c[v - 1]
  PROVE  \A j, h \in 1..(n + 1) : d[j] = d[h] => j = h
<1>1. ASSUME NEW j \in 1..(n + 1), NEW h \in 1..(n + 1), d[j] = d[h], j < h
      PROVE  FALSE
  <2>1. CASE h < i
    <3>1. j \in 1..n /\ h \in 1..n /\ j # h
      BY <1>1, <2>1
    <3>2. d[j] = c[j] /\ d[h] = c[h]
      BY <1>1, <2>1
    <3>3. c[j] = c[h]
      BY <1>1, <3>2
    <3> QED BY <3>1, <3>3
  <2>2. CASE h = i
    <3>1. j \in 1..n /\ d[j] = c[j] /\ d[h] = m
      BY <1>1, <2>2
    <3> QED BY <1>1, <3>1
  <2>3. CASE h > i /\ j < i
    <3>1. /\ j \in 1..n /\ h - 1 \in 1..n /\ j # h - 1
          /\ d[j] = c[j] /\ d[h] = c[h - 1]
      BY <1>1, <2>3
    <3> QED BY <1>1, <3>1
  <2>4. CASE h > i /\ j = i
    <3>1. h - 1 \in 1..n /\ d[j] = m /\ d[h] = c[h - 1]
      BY <1>1, <2>4
    <3> QED BY <1>1, <3>1
  <2>5. CASE h > i /\ j > i
    <3>1. PICK v, w : v = j - 1 /\ w = h - 1
      OBVIOUS
    <3>2. v \in 1..n /\ w \in 1..n /\ v # w
      BY <1>1, <2>5, <3>1
    <3>3. d[j] = c[v] /\ d[h] = c[w]
      BY <1>1, <2>5, <3>1
    <3>4. c[v] = c[w]
      BY <1>1, <3>3
    <3> QED BY <3>2, <3>4
  <2> QED BY <2>1, <2>2, <2>3, <2>4, <2>5
<1>2. ASSUME NEW j \in 1..(n + 1), NEW h \in 1..(n + 1), d[j] = d[h] PROVE j = h
  <2>1. j < h \/ h < j \/ j = h
    OBVIOUS
  <2> QED BY <1>1, <1>2, <2>1
<1> QED BY <1>2

(* With m put in front of its i-th message, or behind the last.            *)
LEMMA ListInsert ==
  ASSUME NEW head, NEW nx, NEW c, IsList(head, nx, c), NEW m \in Msg, m \notin ToSet(c),
         NEW i \in 1..(Len(c) + 1), NEW ny,
         ny[m] = IF i > Len(c) THEN NIL ELSE c[i],
         i > 1 => ny[c[i - 1]] = m,
         \A x \in Msg \ {m} : (i > 1 => x # c[i - 1]) => ny[x] = nx[x],
         NEW g, g = IF i = 1 THEN m ELSE head,
         NEW d \in Seq(Msg), Len(d) = Len(c) + 1,
         \A j \in 1..(Len(c) + 1) : d[j] = IF j < i THEN c[j] ELSE IF j = i THEN m ELSE c[j - 1]
  PROVE  IsList(g, ny, d) /\ ToSet(d) = ToSet(c) \union {m}
<1>1. c \in Seq(Msg) /\ Len(c) \in Nat /\ DOMAIN c = 1..Len(c)
  BY DEF IsList
<1>2. /\ d \in Seq(Msg) /\ Len(d) = Len(c) + 1
      /\ \A j \in 1..(Len(c) + 1) : d[j] = IF j < i THEN c[j] ELSE IF j = i THEN m ELSE c[j - 1]
  OBVIOUS
<1>0. /\ \A j \in 1..(Len(c) + 1) : j < i => j \in 1..Len(c) /\ d[j] = c[j]
      /\ \A j \in 1..(Len(c) + 1) : j > i => j - 1 \in 1..Len(c) /\ d[j] = c[j - 1]
      /\ d[i] = m
  BY <1>1, <1>2
<1>3. \A j, h \in 1..Len(c) : c[j] = c[h] => j = h
  BY <1>1 DEF IsList, IsInjective
<1>4. \A j \in 1..Len(c) : c[j] \in Msg /\ c[j] # m
  BY <1>1 DEF ToSet
<1>5. IsInjective(d)
  <2>1. ASSUME NEW j \in 1..(Len(c) + 1), NEW h \in 1..(Len(c) + 1), d[j] = d[h]
        PROVE  j = h
    <3>1. PICK n \in Nat : n = Len(c)
      BY <1>1
    <3>2. /\ i \in 1..(n + 1) /\ j \in 1..(n + 1) /\ h \in 1..(n + 1)
          /\ \A v, w \in 1..n : c[v] = c[w] => v = w
          /\ \A v \in 1..n : c[v] # m
          /\ \A v \in 1..(n + 1) : d[v] = IF v < i THEN c[v] ELSE IF v = i THEN m ELSE c[v - 1]
      BY <1>2, <1>3, <1>4, <3>1
    <3> QED BY <2>1, <3>2, StillOnce
  <2>2. DOMAIN d = 1..(Len(c) + 1)
    BY <1>2
  <2> QED BY <2>1, <2>2 DEF IsInjective
<1>6. ToSet(d) = ToSet(c) \union {m}
  <2>1. DOMAIN d = 1..(Len(c) + 1)
    BY <1>2
  <2>2. ASSUME NEW x \in ToSet(d) PROVE x \in ToSet(c) \union {m}
    <3>1. PICK j \in 1..(Len(c) + 1) : x = d[j]
      BY <2>1 DEF ToSet
    <3>2. j < i \/ j = i \/ j > i
      BY <3>1
    <3> QED BY <1>0, <1>1, <3>1, <3>2 DEF ToSet
  <2>3. ASSUME NEW x \in ToSet(c) PROVE x \in ToSet(d)
    <3>1. PICK j \in 1..Len(c) : x = c[j]
      BY <1>1 DEF ToSet
    <3>2. /\ j \in 1..(Len(c) + 1) /\ j + 1 \in 1..(Len(c) + 1)
          /\ x = d[j] \/ x = d[j + 1]
      BY <1>1, <1>2, <3>1
    <3> QED BY <2>1, <3>2 DEF ToSet
  <2>4. m \in ToSet(d)
    BY <1>2, <2>1 DEF ToSet
  <2> QED BY <2>2, <2>3, <2>4
<1>7. g = IF d = <<>> THEN NIL ELSE d[1]
  <2>1. d # <<>> /\ 1 \in 1..(Len(c) + 1)
    BY <1>1, <1>2
  <2>2. i # 1 => d[1] = c[1] /\ c # <<>>
    BY <1>1, <1>2, <2>1
  <2>3. i = 1 => d[1] = m
    BY <1>2, <2>1
  <2> QED BY <2>1, <2>2, <2>3 DEF IsList
<1>8. \A j \in 1..Len(c) : nx[c[j]] = IF j = Len(c) THEN NIL ELSE c[j + 1]
  BY DEF IsList
<1>9. ASSUME NEW j \in 1..Len(d)
      PROVE  ny[d[j]] = IF j = Len(d) THEN NIL ELSE d[j + 1]
  <2>0. /\ j \in 1..(Len(c) + 1) /\ j \in Nat /\ i \in Nat
        /\ j # Len(d) => j + 1 \in 1..(Len(c) + 1)
    BY <1>1, <1>2
  <2>1. CASE j = i
    <3>1. d[j] = m /\ (j = Len(d) <=> i > Len(c))
      BY <1>1, <1>2, <2>1
    <3>2. j # Len(d) => d[j + 1] = c[i]
      BY <1>1, <1>2, <2>1
    <3> QED BY <3>1, <3>2
  <2>2. CASE j = i - 1
    <3>1. i > 1 /\ d[j] = c[i - 1] /\ d[j + 1] = m /\ j # Len(d)
      BY <1>1, <1>2, <2>2
    <3> QED BY <3>1
  <2>3. CASE j < i - 1
    <3>1. /\ d[j] = c[j] /\ d[j + 1] = c[j + 1] /\ j # Len(d) /\ j \in 1..Len(c)
          /\ j # Len(c) /\ i - 1 \in 1..Len(c) /\ i - 1 # j
      <4>1. j + 1 < i /\ j + 1 \in 1..(Len(c) + 1) /\ j \in 1..(Len(c) + 1) /\ j < i
        <5>1. PICK n \in Nat : n = Len(c)
          BY <1>1
        <5>2. i \in 1..(n + 1) /\ j \in 1..(n + 1)
          BY <5>1, <2>0
        <5>3. j + 1 < i /\ j + 1 \in 1..(n + 1) /\ j \in 1..(n + 1) /\ j < i
          BY <5>2, <2>3
        <5> QED BY <5>1, <5>3
      <4>2. PICK n \in Nat : n = Len(c)
        BY <1>1
      <4>3. /\ j # n + 1 /\ j \in 1..n /\ j # n /\ i - 1 \in 1..n /\ i - 1 # j
        <5>1. i \in 1..(n + 1) /\ j \in 1..(n + 1)
          BY <4>2, <2>0
        <5> QED BY <5>1, <2>3
      <4> QED BY <1>0, <1>2, <4>1, <4>2, <4>3
    <3>2. c[j] \in Msg \ {m} /\ c[j] # c[i - 1]
      BY <1>3, <1>4, <3>1
    <3>3. ny[c[j]] = nx[c[j]]
      BY <3>2
    <3> QED BY <1>8, <3>1, <3>3
  <2>4. CASE j > i
    <3>1. /\ d[j] = c[j - 1] /\ j - 1 \in 1..Len(c)
          /\ i > 1 => i - 1 \in 1..Len(c) /\ i - 1 # j - 1
      BY <1>1, <1>2, <2>4
    <3>2. c[j - 1] \in Msg \ {m} /\ (i > 1 => c[j - 1] # c[i - 1])
      BY <1>3, <1>4, <3>1
    <3>3. ny[c[j - 1]] = nx[c[j - 1]]
      BY <3>2
    <3>4. nx[c[j - 1]] = IF j - 1 = Len(c) THEN NIL ELSE c[(j - 1) + 1]
      BY <1>8, <3>1
    <3>5. (j = Len(d) <=> j - 1 = Len(c)) /\ (j - 1) + 1 = j
      BY <1>1, <1>2
    <3>6. j # Len(d) => d[j + 1] = c[j]
      <4>1. j # Len(d) => j + 1 > i /\ j + 1 \in 1..(Len(c) + 1) /\ (j + 1) - 1 = j
        BY <1>1, <1>2, <2>0, <2>4
      <4> QED BY <1>0, <4>1
    <3> QED BY <3>1, <3>3, <3>4, <3>5, <3>6
  <2> QED BY <2>0, <2>1, <2>2, <2>3, <2>4
<1> QED BY <1>2, <1>5, <1>6, <1>7, <1>9 DEF IsList

-----------------------------------------------------------------------------
(* The invariant. *)

(* The kernel is used as its lemmas ask; a task that is deleted in rcv_mbx *)
(* takes the message it was handed along.                                  *)
MailboxUse == WellBehaved /\ "del_tsk" \notin Services

(* The tasks inside rcv_mbx for o, from its critical section on.           *)
Inside(o) == {t \in Task : call[t] = <<"ercd", o>>}

(* Those that may wait: the box is there, and empty.                       *)
MayWait(o) ==
  {t \in Inside(o) : mbx[o].exists /\ mbx[o].head = NIL /\ k.ercd[t] # "E_OK"}

(* What the kernel's lemmas leave open: a box's queue holds tasks inside   *)
(* rcv_mbx for it, in the order of its attribute; rcv_mbx sets no tskwait. *)
MbxCtx == [calls  |-> MbxCalls,
           member |-> [o \in Obj |-> MayWait(o)],
           sorted |-> {o \in Obj : mbx[o].objatr % 2 = TA_TPRI},
           caused |-> FALSE]

(* A task in rcv_mbx waits for no wakeup, and is not made to start afresh; *)
(* an answer of E_OK comes with a message.                                 *)
Answered(t) ==
  (\E o \in Obj : call[t] = <<"ercd", o>>) =>
    /\ k.tskwait[t] = "none" /\ k.state[t] \notin {"NOEXS", "DMT"}
    /\ k.ercd[t] = "E_OK" => ppk[t] \in Msg

MbxTables ==
  /\ mbx \in MbxType
  /\ next \in [Msg -> Msg \union {NIL}]
  /\ ppk \in [Task -> Msg \union {NIL}]
  /\ has \in [Task -> SUBSET Msg]

(* While wait_delete empties a queue, the task in del_mbx is past its      *)
(* critical section.                                                       *)
Deleting == event \in Obj => runtsk \in Task /\ call[runtsk] = Dispatch

(* A box is a list, which mq_tail ends unless it is by priority.           *)
BoxOK(o) ==
  /\ IsList(mbx[o].head, next, Chain(o))
  /\ ~mbx[o].exists => mbx[o].head = NIL
  /\ ~ByPriority(o) /\ Chain(o) # <<>> => mbx[o].tail = Chain(o)[Len(Chain(o))]
  /\ ByPriority(o) => InOrder(Chain(o), Msgpri)

(* Every message is in one place.                                          *)
Placed ==
  \A m \in Msg : \E p \in Place : \A q \in Place : m \in Messages(q) <=> q = p

MInv ==
  /\ IInv(MbxCtx) /\ MbxTables /\ Deleting
  /\ \A t \in Task : Answered(t)
  /\ \A o \in Obj : BoxOK(o)
  /\ Placed

(* What a step does to the boxes: nothing; a message goes, a box is made   *)
(* or emptied, a message comes.                                            *)
SameBox(o) == Chain(o)' = Chain(o) /\ mbx'[o].objatr = mbx[o].objatr

Others(o) == \A x \in Obj \ {o} : SameBox(x)

Took(o) ==
  /\ Chain(o) # <<>> /\ Chain(o)' = Tail(Chain(o))
  /\ mbx'[o].objatr = mbx[o].objatr /\ Others(o)

Emptied(o) == Chain(o)' = <<>> /\ Others(o)

Added(o, m) ==
  \E i \in 1..(Len(Chain(o)) + 1) :
    /\ Chain(o)' = InsertAt(Chain(o), i, m)
    /\ \A j \in 1..(i - 1) : ByPriority(o) => Msgpri[Chain(o)[j]] <= Msgpri[m]
    /\ \A j \in i..Len(Chain(o)) : ByPriority(o) /\ Msgpri[Chain(o)[j]] > Msgpri[m]
    /\ mbx'[o].objatr = mbx[o].objatr /\ Others(o)

QueueStep ==
  \/ \A o \in Obj : SameBox(o)
  \/ \E o \in Obj : Took(o) \/ Emptied(o) \/ \E m \in Msg : Added(o, m)

-----------------------------------------------------------------------------
(* Where the messages are. *)

(* The places, and what is there.                                          *)
LEMMA PlacesAre ==
  /\ \A u \in Task : /\ <<"task", u>> \in Place /\ Messages(<<"task", u>>) = has[u]
                     /\ <<"hand", u>> \in Place /\ Messages(<<"hand", u>>) = InHand(u)
  /\ \A o \in Obj : <<"box", o>> \in Place /\ Messages(<<"box", o>>) = ToSet(Chain(o))
  /\ \A p \in Place : \/ \E u \in Task : p = <<"task", u>> \/ p = <<"hand", u>>
                      \/ \E o \in Obj : p = <<"box", o>>
<1>1. \A u : <<"task", u>>[1] = "task" /\ <<"task", u>>[2] = u
  OBVIOUS
<1>2. \A u : <<"hand", u>>[1] = "hand" /\ <<"hand", u>>[2] = u
  OBVIOUS
<1>3. \A u : <<"box", u>>[1] = "box" /\ <<"box", u>>[2] = u
  OBVIOUS
<1>4. \A u : Messages(<<"task", u>>) = has[u]
  BY <1>1 DEF Messages
<1>5. \A u : Messages(<<"hand", u>>) = InHand(u)
  BY <1>2 DEF Messages
<1>6. \A u : Messages(<<"box", u>>) = ToSet(Chain(u))
  BY <1>3 DEF Messages
<1>7. /\ \A u \in Task : <<"task", u>> \in Place /\ <<"hand", u>> \in Place
      /\ \A o \in Obj : <<"box", o>> \in Place
      /\ \A p \in Place : \/ \E u \in Task : p = <<"task", u>> \/ p = <<"hand", u>>
                          \/ \E o \in Obj : p = <<"box", o>>
  BY DEF Place
<1> QED BY <1>4, <1>5, <1>6, <1>7

(* No message is in two places.                                            *)
LEMMA Apart ==
  ASSUME Placed, NEW m \in Msg, NEW p \in Place, NEW q \in Place,
         m \in Messages(p), m \in Messages(q)
  PROVE  p = q
BY DEF Placed

(* What is at q when S has moved from place a to place b.                  *)
Moved(X, q, S, a, b) == IF q = b THEN X \union S ELSE IF q = a THEN X \ S ELSE X

(* Every message is in one place again.                                    *)
LEMMA MovedPlaced ==
  ASSUME Placed, NEW a \in Place, NEW b \in Place, NEW S, S \subseteq Messages(a),
         \A u \in Task : /\ has'[u] = Moved(has[u], <<"task", u>>, S, a, b)
                         /\ InHand(u)' = Moved(InHand(u), <<"hand", u>>, S, a, b),
         \A o \in Obj : ToSet(Chain(o))' = Moved(ToSet(Chain(o)), <<"box", o>>, S, a, b)
  PROVE  Placed'
<1>1. ASSUME NEW q \in Place PROVE Messages(q)' = Moved(Messages(q), q, S, a, b)
  <2>1. CASE \E u \in Task : q = <<"task", u>>
    <3>1. PICK u \in Task : q = <<"task", u>>
      BY <2>1
    <3>2. Messages(q) = has[u] /\ Messages(q)' = has'[u]
      BY <3>1, PlacesAre DEF Messages
    <3> QED BY <3>1, <3>2
  <2>2. CASE \E u \in Task : q = <<"hand", u>>
    <3>1. PICK u \in Task : q = <<"hand", u>>
      BY <2>2
    <3>2. Messages(q) = InHand(u) /\ Messages(q)' = InHand(u)'
      BY <3>1, PlacesAre DEF Messages
    <3> QED BY <3>1, <3>2
  <2>3. CASE \E o \in Obj : q = <<"box", o>>
    <3>1. PICK o \in Obj : q = <<"box", o>>
      BY <2>3
    <3>2. Messages(q) = ToSet(Chain(o)) /\ Messages(q)' = ToSet(Chain(o))'
      BY <3>1, PlacesAre DEF Messages
    <3> QED BY <3>1, <3>2
  <2> QED BY <2>1, <2>2, <2>3, PlacesAre
<1>2. Place' = Place
  BY DEF Place
<1>3. ASSUME NEW m \in Msg
      PROVE  \E p \in Place : \A q \in Place : m \in Messages(q)' <=> q = p
  <2>1. PICK p \in Place : \A q \in Place : m \in Messages(q) <=> q = p
    BY DEF Placed
  <2>2. CASE m \in S
    <3>1. p = a
      BY <2>1, <2>2
    <3>2. \A q \in Place : m \in Messages(q)' <=> q = b
      BY <1>1, <2>1, <2>2, <3>1 DEF Moved
    <3> QED BY <3>2
  <2>3. CASE m \notin S
    <3>1. \A q \in Place : m \in Messages(q)' <=> q = p
      BY <1>1, <2>1, <2>3 DEF Moved
    <3> QED BY <3>1
  <2> QED BY <2>2, <2>3
<1> QED BY <1>2, <1>3 DEF Placed

-----------------------------------------------------------------------------
(* Where the tasks are: the calls of module Kernel, and those of this one. *)

(* A task inside rcv_mbx is in none of the kernel's calls.                 *)
LEMMA MbxCallsApart ==
  /\ Calls \subseteq MbxCalls /\ \A o \in Obj : <<"ercd", o>> \in MbxCalls
  /\ \A c \in MbxCalls : c \in Calls \/ \E o \in Obj : c = <<"ercd", o>>
  /\ \A o : <<"ercd", o>> \notin Calls /\ ~Leaving(<<"ercd", o>>)
  /\ \A o, x : <<"ercd", o>> = <<"ercd", x>> => o = x
<1>1. \A c \in Calls : c[1] # "ercd"
  BY DEF Calls, User, Dispatch, Boot
<1>2. \A c : Leaving(c) => c[1] = "dispatch"
  BY DEF Leaving, Dispatch
<1>3. \A o : <<"ercd", o>>[1] = "ercd"
  OBVIOUS
<1>4. \A o : <<"ercd", o>> \notin Calls /\ ~Leaving(<<"ercd", o>>)
  BY <1>1, <1>2, <1>3
<1> QED BY <1>4 DEF MbxCalls

(* A call that is not one of the kernel's unfinished ones.                 *)
OwnCall(d) ==
  /\ d \in MbxCalls /\ d # Boot
  /\ \A x : d # <<"cre_tsk", x>>
  /\ \A x, p : d # <<"chg_pri", x, p>>

(* Where the calls of this module lead.                                    *)
LEMMA OwnCalls == OwnCall(User) /\ \A o \in Obj : OwnCall(<<"ercd", o>>)
<1>1. /\ User \in Calls /\ User # Boot
      /\ \A x : User # <<"cre_tsk", x>>
      /\ \A x, p : User # <<"chg_pri", x, p>>
  BY DEF User, Boot, Calls
<1>2. \A o : /\ <<"ercd", o>> # Boot
             /\ \A x : <<"ercd", o>> # <<"cre_tsk", x>>
             /\ \A x, p : <<"ercd", o>> # <<"chg_pri", x, p>>
  BY DEF Boot
<1> QED BY <1>1, <1>2, MbxCallsApart DEF OwnCall

(* The invariant, with the value that MbxCtx has before a step.            *)
LEMMA Here ==
  ASSUME MInv
  PROVE  \E a : /\ a = MbxCtx /\ IInv(a) /\ Sound(k, a) /\ Flow(a) /\ k \in KernelType
                /\ a.calls = MbxCalls /\ ~a.caused
                /\ a.sorted = {o \in Obj : mbx[o].objatr % 2 = TA_TPRI}
                /\ \A o \in Obj : a.member[o] = MayWait(o)
<1>1. PICK a : a = MbxCtx
  OBVIOUS
<1>2. IInv(a) /\ Sound(k, a) /\ Flow(a) /\ k \in KernelType
  BY <1>1 DEF MInv, IInv, Flow, Typed, Sound
<1>3. /\ a.calls = MbxCalls /\ ~a.caused
      /\ a.sorted = {o \in Obj : mbx[o].objatr % 2 = TA_TPRI}
      /\ \A o \in Obj : a.member[o] = MayWait(o)
  BY <1>1 DEF MbxCtx
<1> QED BY <1>1, <1>2, <1>3

(* What is kept with that value is kept, when the tasks that still wait    *)
(* may wait.                                                               *)
LEMMA Carried ==
  ASSUME NEW a, a = MbxCtx, Sound(k', a), Flow(a)',
         \A o \in Obj : k'.waitq[o] # <<>> => mbx'[o] = mbx[o],
         \A o \in Obj : \A u \in ToSet(k'.waitq[o]) :
           u \in MayWait(o) /\ k'.state[u] \in Waiting =>
             call'[u] = call[u] /\ k'.ercd[u] # "E_OK"
  PROVE  IInv(MbxCtx)'
<1>1. PICK b : b = MbxCtx'
  OBVIOUS
<1>2. /\ a.calls = MbxCalls /\ ~a.caused
      /\ a.sorted = {o \in Obj : mbx[o].objatr % 2 = TA_TPRI}
      /\ \A o \in Obj : a.member[o] = MayWait(o)
  BY DEF MbxCtx
<1>3. /\ b.calls = MbxCalls /\ ~b.caused
      /\ b.sorted = {o \in Obj : mbx'[o].objatr % 2 = TA_TPRI}
      /\ \A o \in Obj : b.member[o] = MayWait(o)'
  BY <1>1 DEF MbxCtx
<1>4. \A o \in Obj : k'.waitq[o] # <<>> => (o \in b.sorted => o \in a.sorted)
  BY <1>2, <1>3
<1>5. ASSUME NEW o \in Obj, NEW u \in ToSet(k'.waitq[o]) PROVE u \in b.member[o]
  <2>1. k'.state[u] \in Waiting /\ u \in MayWait(o)
    BY <1>2 DEF Sound, WaitsInv, QueueOK
  <2>2. k'.waitq[o] # <<>>
    BY DEF ToSet
  <2>3. call'[u] = call[u] /\ k'.ercd[u] # "E_OK" /\ mbx'[o] = mbx[o]
    BY <2>1, <2>2
  <2>4. u \in MayWait(o)'
    BY <2>1, <2>3 DEF MayWait, Inside
  <2> QED BY <2>4, <1>3
<1>6. Sound(k', b)
  BY <1>2, <1>3, <1>4, <1>5, Recontext
<1>7. Sound(k', MbxCtx')
  BY <1>1, <1>6
<1>8. MbxCtx'.calls = a.calls
  BY <1>1, <1>2, <1>3
<1> QED BY <1>7, <1>8 DEF IInv, Flow, Typed

(* A task that is not in rcv_mbx and does not go there, or that is there   *)
(* and stays, with the answer it had.                                      *)
Untouched(u) ==
  \/ call[u] \in Calls /\ call'[u] \in Calls
  \/ /\ call'[u] = call[u] /\ ppk'[u] = ppk[u]
     /\ call[u] \notin Calls =>
          /\ k'.state[u] \notin {"NOEXS", "DMT"} /\ k'.tskwait[u] = "none"
          /\ k'.ercd[u] = k.ercd[u] \/ (k'.ercd[u] # "E_OK" /\ k.ercd[u] # "E_OK")

LEMMA UntouchedIs ==
  ASSUME NEW u \in Task, Answered(u), Untouched(u)
  PROVE  Answered(u)' /\ InHand(u)' = InHand(u)
<1>1. CASE call[u] \in Calls /\ call'[u] \in Calls
  <2>1. \A o \in Obj : call[u] # <<"ercd", o>> /\ call'[u] # <<"ercd", o>>
    BY <1>1, MbxCallsApart
  <2> QED BY <2>1 DEF Answered, InHand
<1>2. CASE ~(call[u] \in Calls /\ call'[u] \in Calls)
  <2>1. /\ call'[u] = call[u] /\ ppk'[u] = ppk[u]
        /\ call[u] \notin Calls =>
             /\ k'.state[u] \notin {"NOEXS", "DMT"} /\ k'.tskwait[u] = "none"
             /\ k'.ercd[u] = k.ercd[u] \/ (k'.ercd[u] # "E_OK" /\ k.ercd[u] # "E_OK")
    BY <1>2 DEF Untouched
  <2>2. call[u] \notin Calls
    BY <1>2, <2>1
  <2> QED BY <2>1, <2>2 DEF Answered, InHand
<1> QED BY <1>1, <1>2

(* A task that waits for a message has none in its hand.                   *)
LEMMA EmptyHand ==
  ASSUME NEW o \in Obj, NEW u \in MayWait(o) PROVE u \in Task /\ InHand(u) = {}
BY DEF MayWait, Inside, InHand

(* A task in its own code, or about to dispatch, has none there either.    *)
LEMMA NoHand ==
  ASSUME NEW u \in Task, call[u] \in Calls PROVE InHand(u) = {} /\ Answered(u)
BY MbxCallsApart DEF InHand, Answered

(* Boxes and links that stay as they are.                                  *)
LEMMA SameBoxes ==
  ASSUME mbx' = mbx, next' = next
  PROVE  \A o \in Obj : SameBox(o) /\ (BoxOK(o) => BoxOK(o)')
BY DEF SameBox, Chain, BoxOK, ByPriority, IsList

(* Nothing moves.                                                          *)
LEMMA StayPlaced ==
  ASSUME Placed, has' = has, \A u \in Task : InHand(u)' = InHand(u),
         \A o \in Obj : Chain(o)' = Chain(o)
  PROVE  Placed'
<1>1. \A q \in Place : Messages(q)' = Messages(q)
  <2>1. ASSUME NEW q \in Place PROVE Messages(q)' = Messages(q)
    <3>1. CASE \E u \in Task : q = <<"task", u>> \/ q = <<"hand", u>>
      BY <3>1 DEF Messages
    <3>2. CASE \E o \in Obj : q = <<"box", o>>
      BY <3>2 DEF Messages
    <3> QED BY <3>1, <3>2, PlacesAre
  <2> QED BY <2>1
<1>2. Place' = Place
  BY DEF Place
<1> QED BY <1>1, <1>2 DEF Placed

(* A step that touches no task and no box.                                 *)
LEMMA QuietStep ==
  ASSUME MInv, IInv(MbxCtx)', Deleting', mbx' = mbx, next' = next, has' = has,
         MbxTables', \A u \in Task : Untouched(u)
  PROVE  MInv' /\ QueueStep
<1>1. \A u \in Task : Answered(u)' /\ InHand(u)' = InHand(u)
  BY UntouchedIs DEF MInv
<1>2. \A o \in Obj : SameBox(o) /\ BoxOK(o)'
  BY SameBoxes DEF MInv
<1>3. Placed'
  BY <1>1, <1>2, StayPlaced DEF MInv, SameBox
<1> QED BY <1>1, <1>2, <1>3 DEF MInv, QueueStep

-----------------------------------------------------------------------------
(* The steps. *)

(* A step of module Kernel.                                                *)
LEMMA KernelStep ==
  ASSUME MInv, MailboxUse, Next, UNCHANGED <<mbx, next, ppk, has>>
  PROVE  MInv' /\ QueueStep
<1>1. PICK a : a = MbxCtx /\ IInv(a) /\ call \in [Task -> MbxCalls]
  BY Here DEF Flow, Typed
<1>2. IInv(a)' /\ event \notin Obj /\ event' \notin Obj /\ \A u \in Task : CallMoves(u)
  BY <1>1, StepIInv, NextMoves, MailboxAssumption DEF MailboxUse
<1>3. Sound(k', a) /\ Flow(a)'
  BY <1>2 DEF IInv
<1>4. ASSUME NEW u \in Task PROVE Untouched(u)
  <2>1. CASE call[u] \in Calls
    BY <1>2, <2>1 DEF Untouched, CallMoves
  <2>2. CASE call[u] \notin Calls
    <3>1. \E o \in Obj : call[u] = <<"ercd", o>>
      BY <1>1, <2>2, MbxCallsApart
    <3>2. k.tskwait[u] = "none" /\ k.state[u] \notin {"NOEXS", "DMT"}
      BY <3>1 DEF MInv, Answered
    <3>3. Kept(k, k', u) /\ Asks(k, k', u) /\ (k.state[u] # "DMT" => call'[u] = call[u])
      BY <1>1, <2>2, NextKept DEF MailboxUse
    <3> QED BY <3>2, <3>3 DEF Untouched, Kept, Asks
  <2> QED BY <2>1, <2>2
<1>5. ASSUME NEW o \in Obj, NEW u \in MayWait(o)
      PROVE  call'[u] = call[u] /\ k'.ercd[u] # "E_OK"
  <2>1. u \in Task /\ call[u] \notin Calls /\ k.ercd[u] # "E_OK"
    BY <1>5, MbxCallsApart DEF MayWait, Inside
  <2> QED BY <1>4, <2>1 DEF Untouched
<1>6. IInv(MbxCtx)'
  BY <1>1, <1>3, <1>5, Carried
<1>7. Deleting' /\ MbxTables'
  BY <1>2 DEF MInv, MbxTables, Deleting
<1> QED BY <1>4, <1>6, <1>7, QuietStep

(* The running task t goes on from c to d, and releases nobody: what       *)
(* follows of the kernel and of the other tasks.                           *)
LEMMA GoOn ==
  ASSUME MInv, NEW t \in Task, NEW c, ~Leaving(c), At(t, c),
         NEW d, OwnCall(d), Goto(t, d),
         \A a : a = MbxCtx /\ Sound(k, a) /\ ~a.caused => Sound(k', a),
         k'.state = k.state, k'.schedtsk = k.schedtsk, k'.tskwait = k.tskwait,
         \A u \in Task \ {t} : k'.ercd[u] = k.ercd[u] /\ ppk'[u] = ppk[u],
         \A o \in Obj : k'.waitq[o] # <<>> => mbx'[o] = mbx[o]
  PROVE  /\ IInv(MbxCtx)' /\ Deleting'
         /\ \A u \in Task \ {t} : Answered(u)' /\ InHand(u)' = InHand(u)
         /\ call[t] = c /\ call'[t] = d /\ k'.tskwait[t] = "none" /\ k'.state[t] = "RDY"
<1>1. PICK a : /\ a = MbxCtx /\ IInv(a) /\ Sound(k, a) /\ Flow(a)
               /\ a.calls = MbxCalls /\ ~a.caused
  BY Here
<1>2. /\ runtsk = t /\ event = NoTask /\ k.state[t] = "RDY" /\ call \in [Task -> MbxCalls]
      /\ event' = NoTask /\ call[t] = c
  BY <1>1, Running DEF Goto
<1>3. \A u \in Task : call'[u] = IF u = t THEN d ELSE call[u]
  BY <1>2 DEF Goto
<1>4. Flow(a)'
  <2>1. /\ d \in a.calls /\ d # Boot /\ (\A x : d # <<"cre_tsk", x>>)
        /\ \A x, p : d # <<"chg_pri", x, p>>
    BY <1>1 DEF OwnCall
  <2> QED BY <1>1, <2>1, GoOnFlow
<1>5. Sound(k', a)
  BY <1>1
<1>6. ASSUME NEW o \in Obj, NEW u \in ToSet(k'.waitq[o]), u \in MayWait(o),
             k'.state[u] \in Waiting
      PROVE  call'[u] = call[u] /\ k'.ercd[u] # "E_OK"
  <2>1. u \in Task /\ u # t /\ k.ercd[u] # "E_OK"
    BY <1>2, <1>6 DEF MayWait, Inside, Waiting
  <2> QED BY <1>3, <2>1
<1>7. IInv(MbxCtx)'
  BY <1>1, <1>4, <1>5, <1>6, Carried
<1>8. k.tskwait[t] = "none"
  BY <1>1, <1>2 DEF Sound, WaitsInv, WaitOK, Waiting
<1>9. ASSUME NEW u \in Task \ {t} PROVE Answered(u)' /\ InHand(u)' = InHand(u)
  <2>1. call[u] \in MbxCalls /\ call'[u] = call[u] /\ ppk'[u] = ppk[u]
    BY <1>2, <1>3
  <2>2. call[u] \notin Calls =>
          /\ k.tskwait[u] = "none" /\ k.state[u] \notin {"NOEXS", "DMT"}
    BY <2>1, MbxCallsApart DEF MInv, Answered
  <2>3. Untouched(u)
    BY <2>1, <2>2 DEF Untouched
  <2> QED BY <2>3, UntouchedIs DEF MInv
<1>10. Deleting'
  BY <1>2, MailboxAssumption DEF Deleting
<1> QED BY <1>2, <1>3, <1>7, <1>8, <1>9, <1>10

(* A step that changes the answer of one task, at most.                    *)
LEMMA AnswerSound ==
  ASSUME NEW a, Sound(k, a), NEW t \in Task, NEW e \in {"E_OK", "E_TMOUT", "E_DLT"},
         k' = [k EXCEPT !.ercd[t] = e]
  PROVE  /\ Sound(k', a) /\ k'.state = k.state /\ k'.schedtsk = k.schedtsk
         /\ k'.tskwait = k.tskwait /\ k'.waitq = k.waitq /\ k'.ercd[t] = e
         /\ \A u \in Task \ {t} : k'.ercd[u] = k.ercd[u]
<1>1. k \in KernelType
  BY DEF Sound
<1>2. /\ k' \in KernelType /\ k'.state = k.state /\ k'.tskpri = k.tskpri
      /\ k'.rdyq = k.rdyq /\ k'.schedtsk = k.schedtsk /\ k'.tskwait = k.tskwait
      /\ k'.wupcnt = k.wupcnt /\ k'.suscnt = k.suscnt /\ k'.waitq = k.waitq
      /\ k'.timerq = k.timerq /\ k'.ercd[t] = e
      /\ \A u \in Task \ {t} : k'.ercd[u] = k.ercd[u]
  BY <1>1 DEF KernelType
<1> QED BY <1>2, OtherFields

(* prcv_mbx finds the box empty.                                           *)
LEMMA PolFailsStep ==
  ASSUME MInv, NEW t \in Task, NEW o \in Obj, prcv_mbx_fails(t, o)
  PROVE  MInv' /\ QueueStep
<1>1. PICK d : d = <<"ercd", o>>
  OBVIOUS
<1>2. PICK c : c = User
  OBVIOUS
<1>3. /\ At(t, c) /\ ~Leaving(c) /\ Goto(t, d) /\ OwnCall(d)
      /\ k' = [k EXCEPT !.ercd[t] = "E_TMOUT"]
      /\ mbx' = mbx /\ next' = next /\ ppk' = ppk /\ has' = has
  BY <1>1, <1>2, CallsApart, OwnCalls DEF prcv_mbx_fails, Calls_
<1>4. PICK a : a = MbxCtx /\ Sound(k, a)
  BY Here
<1>5. /\ k'.state = k.state /\ k'.schedtsk = k.schedtsk /\ k'.tskwait = k.tskwait
      /\ \A u \in Task \ {t} : k'.ercd[u] = k.ercd[u]
      /\ \A b : Sound(k, b) => Sound(k', b)
      /\ k'.ercd[t] # "E_OK"
  BY <1>3, <1>4, AnswerSound
<1>6. /\ IInv(MbxCtx)' /\ Deleting'
      /\ \A u \in Task \ {t} : Answered(u)' /\ InHand(u)' = InHand(u)
      /\ call[t] = c /\ k'.tskwait[t] = "none" /\ k'.state[t] = "RDY"
  BY <1>3, <1>5, GoOn
<1>7. Answered(t)' /\ InHand(t)' = {} /\ InHand(t) = {}
  <2>1. call[t] \in Calls
    BY <1>2, <1>6 DEF Calls
  <2>2. Answered(t)' /\ InHand(t)' = {}
    BY <1>5, <1>6 DEF Answered, InHand
  <2> QED BY <2>1, <2>2, NoHand
<1>8. \A x \in Obj : SameBox(x) /\ BoxOK(x)'
  BY <1>3, SameBoxes DEF MInv
<1>9. Placed'
  <2>1. \A u \in Task : InHand(u)' = InHand(u)
    BY <1>6, <1>7
  <2> QED BY <1>3, <1>8, <2>1, StayPlaced DEF MInv, SameBox
<1>10. MbxTables' /\ \A u \in Task : Answered(u)'
  BY <1>3, <1>6, <1>7 DEF MInv, MbxTables
<1> QED BY <1>6, <1>8, <1>9, <1>10 DEF MInv, QueueStep

(* The boxes other than the one that a step is about.                      *)
LEMMA OtherBoxes ==
  ASSUME NEW o \in Obj, next' = next, \A x \in Obj \ {o} : mbx'[x] = mbx[x],
         \A x \in Obj : BoxOK(x)
  PROVE  Others(o) /\ \A x \in Obj \ {o} : BoxOK(x)'
BY DEF Others, SameBox, Chain, BoxOK, ByPriority, IsList

(* The first message of a box is taken: what remains.                      *)
LEMMA TakenBox ==
  ASSUME MbxTables, NEW o \in Obj, BoxOK(o), mbx[o].exists, mbx[o].head # NIL,
         mbx' = [mbx EXCEPT ![o].head = next[@]], next' = next
  PROVE  /\ mbx[o].head \in Msg /\ mbx[o].head \in ToSet(Chain(o)) /\ Chain(o) # <<>>
         /\ mbx' \in MbxType /\ BoxOK(o)'
         /\ Chain(o)' = Tail(Chain(o)) /\ mbx'[o].objatr = mbx[o].objatr
         /\ ToSet(Chain(o))' = ToSet(Chain(o)) \ {mbx[o].head}
         /\ \A x \in Obj \ {o} : mbx'[x] = mbx[x]
<1>1. PICK m : m = mbx[o].head
  OBVIOUS
<1>2. PICK c : c = Chain(o)
  OBVIOUS
<1>3. IsList(m, next, c) /\ m # NIL
  BY <1>1, <1>2 DEF BoxOK
<1>4. PICK d : d = Tail(c)
  OBVIOUS
<1>5. /\ c # <<>> /\ m \in ToSet(c) /\ m \in Msg
      /\ IsList(next[m], next, d) /\ ToSet(d) = ToSet(c) \ {m}
      /\ Len(d) = Len(c) - 1 /\ \A i \in 1..(Len(c) - 1) : d[i] = c[i + 1]
  BY <1>3, <1>4, ListTail
<1>6. /\ mbx'[o].head = next[m] /\ mbx'[o].exists = mbx[o].exists
      /\ mbx'[o].objatr = mbx[o].objatr /\ mbx'[o].tail = mbx[o].tail
      /\ \A x \in Obj \ {o} : mbx'[x] = mbx[x]
  BY <1>1 DEF MbxTables, MbxType
<1>7. mbx' \in MbxType
  <2>1. next[m] \in Msg \union {NIL}
    BY <1>5 DEF MbxTables
  <2> QED BY <1>1, <2>1 DEF MbxTables, MbxType
<1>8. Chain(o)' = d
  <2>1. Chain(o)' = linked(mbx'[o].head, next')
    BY DEF Chain
  <2> QED BY <1>5, <1>6, <2>1, LinkedIs
<1>9. BoxOK(o)'
  <2>1. c \in Seq(Msg) /\ Len(c) \in Nat /\ d \in Seq(Msg)
    BY <1>3, <1>5 DEF IsList
  <2>2. IsList(mbx'[o].head, next', d)
    BY <1>5, <1>6
  <2>3. mbx[o].objatr = 0 /\ d # <<>> => mbx'[o].tail = d[Len(d)]
    <3> SUFFICES ASSUME mbx[o].objatr = 0, d # <<>> PROVE mbx'[o].tail = d[Len(d)]
      OBVIOUS
    <3>1. mbx[o].tail = c[Len(c)]
      BY <1>2, <1>5 DEF BoxOK, ByPriority
    <3>2. PICK n \in Nat : n = Len(d)
      BY <2>1
    <3>3. n \in 1..(Len(c) - 1) /\ n + 1 = Len(c)
      BY <1>5, <2>1, <3>2
    <3> QED BY <1>5, <1>6, <3>1, <3>2, <3>3
  <2>4. mbx[o].objatr # 0 => InOrder(d, Msgpri)
    <3> SUFFICES ASSUME mbx[o].objatr # 0 PROVE InOrder(d, Msgpri)
      OBVIOUS
    <3>1. \A i, j \in 1..Len(c) : i < j => Msgpri[c[i]] <= Msgpri[c[j]]
      BY <1>2, <2>1 DEF BoxOK, ByPriority, InOrder
    <3>2. DOMAIN d = 1..(Len(c) - 1)
      BY <1>5, <2>1
    <3>3. ASSUME NEW i \in 1..(Len(c) - 1), NEW j \in 1..(Len(c) - 1), i < j
          PROVE  Msgpri[d[i]] <= Msgpri[d[j]]
      <4>1. i + 1 \in 1..Len(c) /\ j + 1 \in 1..Len(c) /\ i + 1 < j + 1
        BY <2>1, <3>3
      <4>2. d[i] = c[i + 1] /\ d[j] = c[j + 1]
        BY <1>5
      <4> QED BY <3>1, <4>1, <4>2
    <3> QED BY <3>2, <3>3 DEF InOrder
  <2> QED BY <1>6, <1>8, <2>2, <2>3, <2>4 DEF BoxOK, ByPriority
<1> QED BY <1>1, <1>2, <1>4, <1>5, <1>6, <1>7, <1>8, <1>9

(* No task waits at a box that has a message, or does not exist.           *)
LEMMA NobodyWaits ==
  ASSUME NEW a, \A x \in Obj : a.member[x] = MayWait(x), Sound(k, a), NEW o \in Obj,
         ~mbx[o].exists \/ mbx[o].head # NIL
  PROVE  k.waitq[o] = <<>>
<1> SUFFICES ASSUME k.waitq[o] # <<>> PROVE FALSE
  OBVIOUS
<1>1. k.waitq[o] \in Seq(Task)
  BY DEF Sound, KernelType
<1>2. k.waitq[o][1] \in ToSet(k.waitq[o])
  BY <1>1 DEF ToSet
<1>3. k.waitq[o][1] \in MayWait(o)
  BY <1>2 DEF Sound, WaitsInv, QueueOK
<1> QED BY <1>3 DEF MayWait

(* rcv_mbx finds a message.                                                *)
LEMMA AtOnceStep ==
  ASSUME MInv, NEW t \in Task, NEW o \in Obj, rcv_mbx_at_once(t, o)
  PROVE  MInv' /\ QueueStep
<1>1. PICK d : d = <<"ercd", o>>
  OBVIOUS
<1>2. PICK c : c = User
  OBVIOUS
<1>3. PICK m : m = mbx[o].head
  OBVIOUS
<1>4. /\ At(t, c) /\ ~Leaving(c) /\ Goto(t, d) /\ OwnCall(d)
      /\ k' = [k EXCEPT !.ercd[t] = "E_OK"] /\ mbx[o].exists /\ mbx[o].head # NIL
      /\ mbx' = [mbx EXCEPT ![o].head = next[@]] /\ next' = next
      /\ ppk' = [ppk EXCEPT ![t] = m] /\ has' = has
  BY <1>1, <1>2, <1>3, CallsApart, OwnCalls DEF rcv_mbx_at_once, Calls_
<1>5. PICK a : /\ a = MbxCtx /\ Sound(k, a) /\ \A x \in Obj : a.member[x] = MayWait(x)
  BY Here
<1>6. /\ k'.state = k.state /\ k'.schedtsk = k.schedtsk /\ k'.tskwait = k.tskwait
      /\ \A u \in Task \ {t} : k'.ercd[u] = k.ercd[u]
      /\ \A b : Sound(k, b) => Sound(k', b)
      /\ k'.ercd[t] = "E_OK" /\ k'.waitq = k.waitq
  BY <1>4, <1>5, AnswerSound
<1>7. /\ m \in Msg /\ m \in ToSet(Chain(o)) /\ Chain(o) # <<>>
      /\ mbx' \in MbxType /\ BoxOK(o)'
      /\ Chain(o)' = Tail(Chain(o)) /\ mbx'[o].objatr = mbx[o].objatr
      /\ ToSet(Chain(o))' = ToSet(Chain(o)) \ {m}
      /\ \A x \in Obj \ {o} : mbx'[x] = mbx[x]
  BY <1>3, <1>4, TakenBox DEF MInv
<1>8. Others(o) /\ \A x \in Obj \ {o} : BoxOK(x)'
  BY <1>4, <1>7, OtherBoxes DEF MInv
<1>9. /\ ppk' \in [Task -> Msg \union {NIL}] /\ ppk'[t] = m
      /\ \A u \in Task \ {t} : ppk'[u] = ppk[u]
  BY <1>4, <1>7 DEF MInv, MbxTables
<1>10. \A x \in Obj : k'.waitq[x] # <<>> => mbx'[x] = mbx[x]
  <2>1. k.waitq[o] = <<>>
    BY <1>4, <1>5, NobodyWaits
  <2> QED BY <1>6, <1>7, <2>1
<1>11. /\ IInv(MbxCtx)' /\ Deleting'
       /\ \A u \in Task \ {t} : Answered(u)' /\ InHand(u)' = InHand(u)
       /\ call[t] = c /\ call'[t] = d /\ k'.tskwait[t] = "none" /\ k'.state[t] = "RDY"
  BY <1>4, <1>6, <1>9, <1>10, GoOn
<1>12. Answered(t)' /\ InHand(t)' = {m} /\ InHand(t) = {}
  <2>1. call[t] \in Calls
    BY <1>2, <1>11 DEF Calls
  <2>2. Answered(t)'
    BY <1>7, <1>9, <1>11 DEF Answered
  <2>3. InHand(t)' = {m}
    BY <1>1, <1>6, <1>9, <1>11 DEF InHand
  <2> QED BY <2>1, <2>2, <2>3, NoHand
<1>13. Placed'
  <2>1. PICK p, q \in Place : p = <<"box", o>> /\ q = <<"hand", t>>
    BY PlacesAre
  <2>2. {m} \subseteq Messages(p)
    BY <1>7, <2>1, PlacesAre
  <2>3. ASSUME NEW u \in Task
        PROVE  /\ has'[u] = Moved(has[u], <<"task", u>>, {m}, p, q)
               /\ InHand(u)' = Moved(InHand(u), <<"hand", u>>, {m}, p, q)
    BY <1>4, <1>11, <1>12, <2>1 DEF Moved
  <2>4. ASSUME NEW x \in Obj
        PROVE  ToSet(Chain(x))' = Moved(ToSet(Chain(x)), <<"box", x>>, {m}, p, q)
    <3>1. CASE x = o
      BY <1>7, <2>1, <3>1 DEF Moved
    <3>2. CASE x # o
      <4>1. Chain(x)' = Chain(x)
        BY <1>8, <3>2 DEF Others, SameBox
      <4> QED BY <2>1, <3>2, <4>1 DEF Moved
    <3> QED BY <3>1, <3>2
  <2> QED BY <2>2, <2>3, <2>4, MovedPlaced DEF MInv
<1>14. MbxTables'
  BY <1>4, <1>7, <1>9 DEF MInv, MbxTables
<1>15. Took(o)
  BY <1>7, <1>8 DEF Took
<1>16. (\A u \in Task : Answered(u)') /\ (\A x \in Obj : BoxOK(x)')
  BY <1>7, <1>8, <1>11, <1>12
<1> QED BY <1>11, <1>13, <1>14, <1>15, <1>16 DEF MInv, QueueStep

(* The return from rcv_mbx: the message is the caller's.                   *)
LEMMA ReturnStep ==
  ASSUME MInv, NEW t \in Task, rcv_mbx_return(t) PROVE MInv' /\ QueueStep
<1>1. PICK o \in Obj : At(t, <<"ercd", o>>)
  BY DEF rcv_mbx_return
<1>2. PICK c : c = <<"ercd", o>>
  OBVIOUS
<1>3. PICK d : d = User
  OBVIOUS
<1>4. PICK S : S = InHand(t)
  OBVIOUS
<1>5. /\ At(t, c) /\ ~Leaving(c) /\ Goto(t, d) /\ OwnCall(d) /\ call[t] = c
      /\ k' = k /\ mbx' = mbx /\ next' = next /\ ppk' = [ppk EXCEPT ![t] = NIL]
  BY <1>1, <1>2, <1>3, MbxCallsApart, OwnCalls DEF rcv_mbx_return, At
<1>6. S = (IF k.ercd[t] = "E_OK" THEN {ppk[t]} ELSE {}) /\ S \subseteq Msg
  <2>1. \E x \in Obj : call[t] = <<"ercd", x>>
    BY <1>2, <1>5
  <2>2. k.ercd[t] = "E_OK" => ppk[t] \in Msg
    BY <2>1 DEF MInv, Answered
  <2> QED BY <1>4, <2>1, <2>2 DEF InHand
<1>7. /\ has' \in [Task -> SUBSET Msg] /\ has'[t] = has[t] \union S
      /\ \A u \in Task \ {t} : has'[u] = has[u]
  <2>1. has' = [has EXCEPT ![t] = IF k.ercd[t] = "E_OK" THEN @ \union {ppk[t]} ELSE @]
    BY DEF rcv_mbx_return
  <2>2. has \in [Task -> SUBSET Msg]
    BY DEF MInv, MbxTables
  <2> QED BY <1>6, <2>1, <2>2
<1>8. /\ ppk' \in [Task -> Msg \union {NIL}]
      /\ \A u \in Task \ {t} : ppk'[u] = ppk[u]
  BY <1>5 DEF MInv, MbxTables
<1>9. /\ \A u \in Task \ {t} : k'.ercd[u] = k.ercd[u] /\ ppk'[u] = ppk[u]
      /\ k'.state = k.state /\ k'.schedtsk = k.schedtsk /\ k'.tskwait = k.tskwait
      /\ \A x \in Obj : k'.waitq[x] # <<>> => mbx'[x] = mbx[x]
      /\ \A b : b = MbxCtx /\ Sound(k, b) /\ ~b.caused => Sound(k', b)
  BY <1>5, <1>8
<1>10. /\ IInv(MbxCtx)' /\ Deleting'
       /\ \A u \in Task \ {t} : Answered(u)' /\ InHand(u)' = InHand(u)
       /\ call'[t] = d
  BY <1>5, <1>9, GoOn
<1>11. Answered(t)' /\ InHand(t)' = {}
  <2>1. \A x \in Obj : call'[t] # <<"ercd", x>>
    BY <1>3, <1>10, MbxCallsApart DEF Calls
  <2> QED BY <2>1 DEF Answered, InHand
<1>12. \A x \in Obj : SameBox(x) /\ BoxOK(x)'
  BY <1>5, SameBoxes DEF MInv
<1>13. Placed'
  <2>1. PICK p, q \in Place : p = <<"hand", t>> /\ q = <<"task", t>>
    BY PlacesAre
  <2>2. S \subseteq Messages(p)
    BY <1>4, <2>1, PlacesAre
  <2>3. ASSUME NEW u \in Task
        PROVE  /\ has'[u] = Moved(has[u], <<"task", u>>, S, p, q)
               /\ InHand(u)' = Moved(InHand(u), <<"hand", u>>, S, p, q)
    <3>1. CASE u = t
      BY <1>4, <1>7, <1>11, <2>1, <3>1 DEF Moved
    <3>2. CASE u # t
      <4>1. has'[u] = has[u] /\ InHand(u)' = InHand(u)
        BY <1>7, <1>10, <3>2
      <4>2. <<"task", u>> # p /\ <<"task", u>> # q /\ <<"hand", u>> # p /\ <<"hand", u>> # q
        BY <2>1, <3>2
      <4> QED BY <4>1, <4>2 DEF Moved
    <3> QED BY <3>1, <3>2
  <2>4. ASSUME NEW x \in Obj
        PROVE  ToSet(Chain(x))' = Moved(ToSet(Chain(x)), <<"box", x>>, S, p, q)
    <3>1. Chain(x)' = Chain(x)
      BY <1>12 DEF SameBox
    <3> QED BY <2>1, <3>1 DEF Moved
  <2> QED BY <2>2, <2>3, <2>4, MovedPlaced DEF MInv
<1>14. MbxTables'
  BY <1>5, <1>7, <1>8 DEF MInv, MbxTables
<1>15. \A u \in Task : Answered(u)'
  BY <1>10, <1>11
<1> QED BY <1>10, <1>12, <1>13, <1>14, <1>15 DEF MInv, QueueStep

(* A box that is made, or deleted, is empty: its head is NIL.              *)
LEMMA EmptyBox ==
  ASSUME NEW o \in Obj, mbx'[o].head = NIL, next' = next
  PROVE  BoxOK(o)' /\ Chain(o)' = <<>> /\ ToSet(Chain(o))' = {}
<1>1. IsList(NIL, next', <<>>)
  BY DEF IsList, IsInjective
<1>2. Chain(o)' = linked(mbx'[o].head, next')
  BY DEF Chain
<1>3. Chain(o)' = <<>>
  BY <1>1, <1>2, LinkedIs
<1>4. ToSet(Chain(o))' = {}
  BY <1>3 DEF ToSet
<1>5. InOrder(<<>>, Msgpri)
  BY DEF InOrder
<1> QED BY <1>1, <1>3, <1>4, <1>5 DEF BoxOK, ByPriority

(* cre_mbx: a new box is empty, and so is its queue.                       *)
LEMMA CreateMbxStep ==
  ASSUME MInv, NEW t \in Task, NEW o \in Obj, NEW atr \in Mbxatr, _cre_mbx(t, o, atr)
  PROVE  MInv' /\ QueueStep
<1>1. PICK a : /\ a = MbxCtx /\ IInv(a) /\ Sound(k, a) /\ k \in KernelType
               /\ a.calls = MbxCalls
  BY Here
<1>2. PICK c : c = User
  OBVIOUS
<1>3. /\ At(t, c) /\ ~Leaving(c) /\ OwnCall(c) /\ k' = [k EXCEPT !.waitq[o] = <<>>]
      /\ ~mbx[o].exists
      /\ mbx' = [mbx EXCEPT ![o].exists = TRUE, ![o].objatr = atr, ![o].head = NIL]
      /\ runtsk' = runtsk /\ call' = call /\ event' = event
      /\ next' = next /\ ppk' = ppk /\ has' = has
  BY <1>2, CallsApart, OwnCalls DEF _cre_mbx, Calls_
<1>4. call \in [Task -> MbxCalls] /\ call[t] = c
  BY <1>1, <1>3, Running
<1>5. Goto(t, c)
  BY <1>3, <1>4 DEF Goto
<1>6. mbx' \in MbxType /\ mbx'[o].head = NIL /\ \A x \in Obj \ {o} : mbx'[x] = mbx[x]
  <2>1. mbx \in MbxType /\ atr \in 0..3
    BY MailboxAssumption DEF MInv, MbxTables
  <2>2. PICK r : r = [mbx[o] EXCEPT !.exists = TRUE, !.objatr = atr, !.head = NIL]
    OBVIOUS
  <2>3. /\ r \in [exists : BOOLEAN, objatr : 0..3, head : Msg \union {NIL},
                  tail : Msg \union {NIL}]
        /\ r.head = NIL
    BY <2>1, <2>2 DEF MbxType
  <2>4. mbx' = [mbx EXCEPT ![o] = r]
    BY <1>3, <2>1, <2>2 DEF MbxType
  <2> QED BY <2>1, <2>3, <2>4 DEF MbxType
<1>7. /\ k'.state = k.state /\ k'.schedtsk = k.schedtsk /\ k'.tskwait = k.tskwait
      /\ k'.ercd = k.ercd /\ k'.waitq = [k.waitq EXCEPT ![o] = <<>>]
      /\ k.waitq \in [Obj -> Seq(Task)]
  BY <1>1, <1>3 DEF KernelType
<1>8. \A x \in Obj : k'.waitq[x] # <<>> => mbx'[x] = mbx[x]
  BY <1>6, <1>7
<1>9. /\ \A b : b = MbxCtx /\ Sound(k, b) /\ ~b.caused => Sound(k', b)
      /\ \A u \in Task \ {t} : k'.ercd[u] = k.ercd[u] /\ ppk'[u] = ppk[u]
  <2>1. \A b : Sound(k, b) /\ ~b.caused => Sound(k', b)
    BY <1>3, EmptySound
  <2> QED BY <1>3, <1>7, <2>1
<1>10. /\ IInv(MbxCtx)' /\ Deleting'
       /\ \A u \in Task \ {t} : Answered(u)' /\ InHand(u)' = InHand(u)
       /\ call'[t] = c
  <2>1. /\ At(t, c) /\ ~Leaving(c) /\ OwnCall(c) /\ Goto(t, c)
        /\ k'.state = k.state /\ k'.schedtsk = k.schedtsk /\ k'.tskwait = k.tskwait
    BY <1>3, <1>5, <1>7
  <2> HIDE <1>1, <1>2, <1>3, <1>4, <1>5, <1>6, <1>7
  <2> QED BY <1>8, <1>9, <2>1, GoOn
<1>11. Answered(t)' /\ InHand(t)' = InHand(t)
  <2>1. \A x \in Obj : call'[t] # <<"ercd", x>> /\ call[t] # <<"ercd", x>>
    BY <1>2, <1>4, <1>10, MbxCallsApart DEF Calls
  <2> QED BY <2>1 DEF Answered, InHand
<1>12. BoxOK(o)' /\ Chain(o)' = <<>> /\ Others(o) /\ \A x \in Obj \ {o} : BoxOK(x)'
  BY <1>3, <1>6, EmptyBox, OtherBoxes DEF MInv
<1>13. Chain(o) = <<>>
  <2>1. IsList(NIL, next, Chain(o))
    BY <1>3 DEF MInv, BoxOK
  <2>2. IsList(NIL, next, <<>>)
    BY DEF IsList, IsInjective
  <2>3. Chain(o) = linked(NIL, next)
    BY <2>1, LinkedIs
  <2> QED BY <2>2, <2>3, LinkedIs
<1>14. Placed'
  <2>1. \A u \in Task : InHand(u)' = InHand(u)
    BY <1>10, <1>11
  <2>2. \A x \in Obj : Chain(x)' = Chain(x)
    BY <1>12, <1>13 DEF Others, SameBox
  <2> QED BY <1>3, <2>1, <2>2, StayPlaced DEF MInv
<1>15. Emptied(o) /\ MbxTables'
  BY <1>3, <1>6, <1>12 DEF Emptied, MInv, MbxTables
<1>16. (\A u \in Task : Answered(u)') /\ (\A x \in Obj : BoxOK(x)')
  BY <1>10, <1>11, <1>12
<1> QED BY <1>10, <1>14, <1>15, <1>16 DEF MInv, QueueStep

(* The running task t leaves its call for dispatch(): what follows of the  *)
(* kernel, whatever has been done to it.                                   *)
LEMMA LeaveStep ==
  ASSUME MInv, NEW t \in Task, At(t, User), call' = [call EXCEPT ![t] = Dispatch],
         runtsk' = runtsk, event' \in (Obj \union {NoTask}) \ Task,
         \A a : a = MbxCtx /\ Sound(k, a) => Sound(k', a),
         \A u \in Task : k.state[u] = "NOEXS" => k'.state[u] = "NOEXS",
         \A o \in Obj : k'.waitq[o] # <<>> => mbx'[o] = mbx[o],
         \A o \in Obj : \A u \in ToSet(k'.waitq[o]) : k'.ercd[u] = k.ercd[u]
  PROVE  /\ IInv(MbxCtx)' /\ Deleting' /\ event = NoTask
         /\ call[t] = User /\ call'[t] = Dispatch
         /\ \A u \in Task \ {t} : call'[u] = call[u]
<1>1. PICK a : a = MbxCtx /\ IInv(a) /\ Sound(k, a) /\ Flow(a) /\ a.calls = MbxCalls
  BY Here
<1>2. PICK c : c = User
  OBVIOUS
<1>3. At(t, c) /\ ~Leaving(c)
  BY <1>2, CallsApart
<1>4. /\ runtsk = t /\ event = NoTask /\ call[t] = c /\ call \in [Task -> MbxCalls]
      /\ k.state[t] = "RDY"
  BY <1>1, <1>3, Running
<1>5. PICK d : d = Dispatch
  OBVIOUS
<1>6. d \in Calls /\ d \in MbxCalls /\ Leaving(d)
  BY <1>5, MbxCallsApart, CallsApart DEF Calls
<1>7. /\ call' \in [Task -> MbxCalls] /\ Leaving(call'[t]) /\ call'[t] = d
      /\ \A u \in Task : call'[u] = IF u = t THEN d ELSE call[u]
  BY <1>4, <1>5, <1>6
<1>8. Flow(a)'
  BY <1>1, <1>4, <1>7, DispatchFlow
<1>9. ASSUME NEW o \in Obj, NEW u \in ToSet(k'.waitq[o]), u \in MayWait(o),
             k'.state[u] \in Waiting
      PROVE  call'[u] = call[u] /\ k'.ercd[u] # "E_OK"
  <2>1. u \in Task /\ call[u] \notin Calls /\ k.ercd[u] # "E_OK"
    BY <1>9, MbxCallsApart DEF MayWait, Inside
  <2>2. u # t
    BY <1>2, <1>4, <2>1 DEF Calls
  <2>3. k'.ercd[u] = k.ercd[u]
    BY <1>9
  <2> QED BY <1>7, <2>1, <2>2, <2>3
<1>10. IInv(MbxCtx)'
  <2>1. Sound(k', a)
    BY <1>1
  <2> QED BY <1>1, <1>8, <1>9, <2>1, Carried
<1>11. Deleting'
  BY <1>4, <1>5, <1>7 DEF Deleting
<1> QED BY <1>2, <1>4, <1>5, <1>7, <1>10, <1>11

(* del_mbx up to wait_delete, or a message that snd_mbx refuses: the task  *)
(* is about to dispatch, and nothing else has changed.                     *)
LEMMA LeaveQuietly ==
  ASSUME MInv, NEW t \in Task, At(t, User), call' = [call EXCEPT ![t] = Dispatch],
         runtsk' = runtsk, event' \in (Obj \union {NoTask}) \ Task,
         UNCHANGED <<k, mbx, next, ppk, has>>
  PROVE  MInv' /\ QueueStep
<1>1. /\ \A a : a = MbxCtx /\ Sound(k, a) => Sound(k', a)
      /\ \A u \in Task : k.state[u] = "NOEXS" => k'.state[u] = "NOEXS"
      /\ \A o \in Obj : k'.waitq[o] # <<>> => mbx'[o] = mbx[o]
      /\ \A o \in Obj : \A u \in ToSet(k'.waitq[o]) : k'.ercd[u] = k.ercd[u]
  OBVIOUS
<1>2. /\ IInv(MbxCtx)' /\ Deleting' /\ call[t] = User /\ call'[t] = Dispatch
      /\ \A u \in Task \ {t} : call'[u] = call[u]
  BY <1>1, LeaveStep
<1>3. ASSUME NEW u \in Task PROVE Untouched(u)
  <2>1. CASE u = t
    BY <1>2, <2>1 DEF Untouched, Calls
  <2>2. CASE u # t
    <3>1. call[u] \in MbxCalls
      BY Here DEF Flow, Typed
    <3>2. call[u] \notin Calls =>
            k.tskwait[u] = "none" /\ k.state[u] \notin {"NOEXS", "DMT"}
      BY <3>1, MbxCallsApart DEF MInv, Answered
    <3> QED BY <1>2, <2>2, <3>2 DEF Untouched
  <2> QED BY <2>1, <2>2
<1>4. MbxTables'
  BY DEF MInv, MbxTables
<1> QED BY <1>2, <1>3, <1>4, QuietStep

(* del_mbx up to wait_delete.                                              *)
LEMMA DelMbxStep ==
  ASSUME MInv, NEW t \in Task, NEW o \in Obj, del_mbx(t, o) PROVE MInv' /\ QueueStep
<1>1. /\ At(t, User) /\ call' = [call EXCEPT ![t] = Dispatch] /\ runtsk' = runtsk
      /\ event' = o /\ UNCHANGED <<k, mbx, next, ppk, has>>
  BY DEF del_mbx, Calls_
<1>2. event' \in (Obj \union {NoTask}) \ Task
  BY <1>1, MailboxAssumption
<1> QED BY <1>1, <1>2, LeaveQuietly

(* Between two turns of wait_delete, and at its end: what follows of the   *)
(* kernel.                                                                 *)
LEMMA DeletingStep ==
  ASSUME MInv, NEW a, a = MbxCtx, Sound(k', a), event \in Obj,
         runtsk' = runtsk, call' = call, event' \in {event, NoTask},
         \A u \in Task : k.state[u] = "NOEXS" => k'.state[u] = "NOEXS",
         \A o \in Obj : k'.waitq[o] # <<>> => mbx'[o] = mbx[o],
         \A u \in Task : k'.ercd[u] = k.ercd[u] \/ k'.ercd[u] # "E_OK"
  PROVE  IInv(MbxCtx)' /\ Deleting'
<1>1. Flow(a) /\ event' \in (Obj \union {NoTask}) \ Task
  BY Here, MailboxAssumption, ReadyQueueAssumption
<1>2. runtsk \in Task /\ Leaving(call[runtsk])
  BY CallsApart DEF MInv, Deleting
<1>3. Flow(a)'
  BY <1>1, <1>2, LoopFlow
<1>4. \A o \in Obj : \A u \in ToSet(k'.waitq[o]) :
        u \in MayWait(o) /\ k'.state[u] \in Waiting =>
          call'[u] = call[u] /\ k'.ercd[u] # "E_OK"
  BY DEF MayWait, Inside
<1>5. IInv(MbxCtx)'
  BY <1>3, <1>4, Carried
<1>6. Deleting'
  BY MailboxAssumption DEF Deleting, MInv
<1> QED BY <1>5, <1>6

(* A turn of wait_delete's loop.                                           *)
LEMMA WaitDeleteStep ==
  ASSUME MInv, wait_delete, UNCHANGED <<mbx, next, ppk, has>> PROVE MInv' /\ QueueStep
<1>1. PICK a : /\ a = MbxCtx /\ Sound(k, a) /\ k \in KernelType
               /\ \A x \in Obj : a.member[x] = MayWait(x)
               /\ call \in [Task -> MbxCalls]
  BY Here DEF Flow, Typed
<1>2. PICK o \in Obj : o = event
  BY DEF wait_delete
<1>3. PICK t : t = kqueue_next(k.waitq[o])
  OBVIOUS
<1>4. PICK l : l = [k EXCEPT !.ercd[t] = "E_DLT"]
  OBVIOUS
<1>5. PICK m : m = k'
  OBVIOUS
<1>6. /\ k.waitq[o] # <<>> /\ m = wait_release(l, t)
      /\ runtsk' = runtsk /\ call' = call /\ event' = event
  BY <1>2, <1>3, <1>4, <1>5 DEF wait_delete, kqueue_empty, wait_release_dlt
<1>7. PICK e \in {"E_OK", "E_TMOUT", "E_DLT"} : e = "E_DLT"
  OBVIOUS
<1>8. t \in Task /\ k.state[t] \in Waiting /\ Sound(m, a) /\ Released(l, m, t)
  BY <1>1, <1>3, <1>4, <1>6, <1>7, ReleaseFirst
<1>9. /\ l.ercd = [k.ercd EXCEPT ![t] = "E_DLT"] /\ l.state = k.state
      /\ l.tskwait = k.tskwait
      /\ DOMAIN k.ercd = Task /\ DOMAIN k.state = Task /\ DOMAIN k.tskwait = Task
  BY <1>1, <1>4 DEF KernelType
<1>10. t \in MayWait(o)
  <2>1. k.waitq[o] \in Seq(Task)
    BY <1>1 DEF KernelType
  <2>2. t \in ToSet(k.waitq[o])
    BY <1>3, <1>6, <2>1 DEF kqueue_next, ToSet
  <2> QED BY <1>1, <2>2 DEF Sound, WaitsInv, QueueOK
<1>11. /\ m.ercd[t] # "E_OK" /\ k.ercd[t] # "E_OK" /\ m.tskwait[t] = "none"
       /\ m.state[t] \in {"RDY", "SUS"}
       /\ \A u \in Task \ {t} : /\ m.ercd[u] = k.ercd[u] /\ m.state[u] = k.state[u]
                                /\ m.tskwait[u] = k.tskwait[u]
  <2>1. PICK s \in {"RDY", "SUS"} : m.state = [k.state EXCEPT ![t] = s]
    BY <1>8, <1>9 DEF Released
  <2>2. m.ercd = [k.ercd EXCEPT ![t] = "E_DLT"] /\ m.tskwait = [k.tskwait EXCEPT ![t] = "none"]
    BY <1>8, <1>9 DEF Released
  <2> QED BY <1>8, <1>9, <1>10, <2>1, <2>2 DEF MayWait
<1>12. IInv(MbxCtx)' /\ Deleting'
  <2>1. /\ \A u \in Task : k.state[u] = "NOEXS" => k'.state[u] = "NOEXS"
        /\ \A u \in Task : k'.ercd[u] = k.ercd[u] \/ k'.ercd[u] # "E_OK"
    BY <1>5, <1>8, <1>11 DEF Waiting
  <2>2. Sound(k', a) /\ event \in Obj /\ event' \in {event, NoTask}
    BY <1>2, <1>5, <1>6, <1>8
  <2> QED BY <1>1, <1>6, <2>1, <2>2, DeletingStep
<1>13. ASSUME NEW u \in Task PROVE Untouched(u)
  <2>1. call[u] \notin Calls => k.tskwait[u] = "none" /\ k.state[u] \notin {"NOEXS", "DMT"}
    BY <1>1, MbxCallsApart DEF MInv, Answered
  <2>2. CASE u = t
    BY <1>5, <1>6, <1>11, <2>2 DEF Untouched
  <2>3. CASE u # t
    BY <1>5, <1>6, <1>11, <2>1, <2>3 DEF Untouched
  <2> QED BY <2>2, <2>3
<1>14. MbxTables'
  BY DEF MInv, MbxTables
<1> QED BY <1>12, <1>13, <1>14, QuietStep

(* The end of del_mbx: the messages are whose task deleted the box.        *)
LEMMA DelMbxEndStep ==
  ASSUME MInv, del_mbx_end PROVE MInv' /\ QueueStep
<1>1. PICK a : a = MbxCtx /\ Sound(k, a) /\ call \in [Task -> MbxCalls]
  BY Here DEF Flow, Typed
<1>2. PICK o \in Obj : o = event
  BY DEF del_mbx_end
<1>3. PICK S : S = ToSet(Chain(o))
  OBVIOUS
<1>4. PICK t \in Task : t = runtsk
  BY <1>2 DEF MInv, Deleting
<1>5. /\ k.waitq[o] = <<>> /\ k' = k /\ runtsk' = runtsk /\ call' = call
      /\ ppk' = ppk /\ next' = next /\ event' = NoTask
      /\ mbx' = [mbx EXCEPT ![o].exists = FALSE, ![o].head = NIL]
      /\ has' = [has EXCEPT ![t] = @ \union S]
  BY <1>2, <1>3, <1>4 DEF del_mbx_end, kqueue_empty
<1>6. mbx' \in MbxType /\ mbx'[o].head = NIL /\ \A x \in Obj \ {o} : mbx'[x] = mbx[x]
  <2>1. mbx \in MbxType
    BY DEF MInv, MbxTables
  <2>2. PICK r : r = [mbx[o] EXCEPT !.exists = FALSE, !.head = NIL]
    OBVIOUS
  <2>3. /\ r \in [exists : BOOLEAN, objatr : 0..3, head : Msg \union {NIL},
                  tail : Msg \union {NIL}]
        /\ r.head = NIL
    BY <2>1, <2>2 DEF MbxType
  <2>4. mbx' = [mbx EXCEPT ![o] = r]
    BY <1>5, <2>1, <2>2 DEF MbxType
  <2> QED BY <2>1, <2>3, <2>4 DEF MbxType
<1>7. IInv(MbxCtx)' /\ Deleting'
  <2>1. /\ \A u \in Task : k.state[u] = "NOEXS" => k'.state[u] = "NOEXS"
        /\ \A x \in Obj : k'.waitq[x] # <<>> => mbx'[x] = mbx[x]
        /\ \A u \in Task : k'.ercd[u] = k.ercd[u] \/ k'.ercd[u] # "E_OK"
        /\ Sound(k', a) /\ event \in Obj /\ event' \in {event, NoTask}
    BY <1>1, <1>2, <1>5, <1>6
  <2> QED BY <1>1, <1>5, <2>1, DeletingStep
<1>8. ASSUME NEW u \in Task PROVE Answered(u)' /\ InHand(u)' = InHand(u)
  <2>1. call[u] \notin Calls => k.tskwait[u] = "none" /\ k.state[u] \notin {"NOEXS", "DMT"}
    BY <1>1, MbxCallsApart DEF MInv, Answered
  <2>2. Untouched(u)
    BY <1>5, <2>1 DEF Untouched
  <2> QED BY <2>2, UntouchedIs DEF MInv
<1>9. /\ BoxOK(o)' /\ Chain(o)' = <<>> /\ ToSet(Chain(o))' = {} /\ Others(o)
      /\ \A x \in Obj \ {o} : BoxOK(x)'
  BY <1>5, <1>6, EmptyBox, OtherBoxes DEF MInv
<1>10. S \subseteq Msg
  <2>1. IsList(mbx[o].head, next, Chain(o))
    BY DEF MInv, BoxOK
  <2> QED BY <1>3, <2>1 DEF IsList, ToSet
<1>11. /\ has' \in [Task -> SUBSET Msg] /\ has'[t] = has[t] \union S
       /\ \A u \in Task \ {t} : has'[u] = has[u]
  BY <1>5, <1>10 DEF MInv, MbxTables
<1>12. Placed'
  <2>1. PICK p, q \in Place : p = <<"box", o>> /\ q = <<"task", t>>
    BY PlacesAre
  <2>2. S \subseteq Messages(p)
    BY <1>3, <2>1, PlacesAre
  <2>3. ASSUME NEW u \in Task
        PROVE  /\ has'[u] = Moved(has[u], <<"task", u>>, S, p, q)
               /\ InHand(u)' = Moved(InHand(u), <<"hand", u>>, S, p, q)
    BY <1>8, <1>11, <2>1 DEF Moved
  <2>4. ASSUME NEW x \in Obj
        PROVE  ToSet(Chain(x))' = Moved(ToSet(Chain(x)), <<"box", x>>, S, p, q)
    <3>1. CASE x = o
      BY <1>3, <1>9, <2>1, <3>1 DEF Moved
    <3>2. CASE x # o
      <4>1. Chain(x)' = Chain(x)
        BY <1>9, <3>2 DEF Others, SameBox
      <4> QED BY <2>1, <3>2, <4>1 DEF Moved
    <3> QED BY <3>1, <3>2
  <2> QED BY <2>2, <2>3, <2>4, MovedPlaced DEF MInv
<1>13. Emptied(o) /\ MbxTables'
  BY <1>5, <1>6, <1>9, <1>11 DEF Emptied, MInv, MbxTables
<1>14. (\A u \in Task : Answered(u)') /\ (\A x \in Obj : BoxOK(x)')
  BY <1>8, <1>9
<1> QED BY <1>7, <1>12, <1>13, <1>14 DEF MInv, QueueStep

(* A task joins the queue of o and gives up the processor, both in the     *)
(* critical section in which it found the box empty.                       *)
LEMMA RcvStep ==
  ASSUME MInv, NEW t \in Task, NEW o \in Obj, NEW tmo \in Tmo, rcv_mbx(t, o, tmo)
  PROVE  MInv' /\ QueueStep
<1>1. PICK a : /\ a = MbxCtx /\ IInv(a) /\ Sound(k, a) /\ Flow(a) /\ k \in KernelType
               /\ a.calls = MbxCalls /\ ~a.caused
               /\ a.sorted = {x \in Obj : mbx[x].objatr % 2 = TA_TPRI}
               /\ \A x \in Obj : a.member[x] = MayWait(x)
  BY Here
<1>2. PICK b : b = MbxCtx'
  OBVIOUS
<1>3. PICK d : d = <<"ercd", o>>
  OBVIOUS
<1>4. PICK l : l = [k EXCEPT !.ercd[t] = "E_TMOUT"]
  OBVIOUS
<1>5. PICK z : z = k'
  OBVIOUS
<1>6. PICK p : p = (mbx[o].objatr % 2 = TA_TPRI)
  OBVIOUS
<1>7. /\ At(t, User) /\ ~Leaving(User) /\ OwnCall(d)
      /\ mbx[o].exists /\ mbx[o].head = NIL
      /\ z = obj_make_wait(l, t, o, tmo, p)
      /\ runtsk' = z.schedtsk /\ call' = [call EXCEPT ![t] = d]
      /\ event' = event /\ mbx' = mbx /\ next' = next /\ ppk' = ppk /\ has' = has
  BY <1>3, <1>4, <1>5, <1>6, CallsApart, OwnCalls DEF rcv_mbx, Calls_
<1>8. /\ runtsk = t /\ event = NoTask /\ k.state[t] = "RDY"
      /\ call \in [Task -> MbxCalls] /\ call[t] = User
  BY <1>1, <1>7, Running
<1>9. \A u \in Task : call'[u] = IF u = t THEN d ELSE call[u]
  BY <1>7, <1>8
<1>10. PICK w : w = (o \in a.sorted) /\ (w <=> p) /\ z = obj_make_wait(l, t, o, tmo, w)
  <2>1. PICK w : w = (o \in a.sorted)
    OBVIOUS
  <2>2. w <=> p
    BY <1>1, <1>6, <2>1
  <2> QED BY <1>7, <2>1, <2>2 DEF obj_make_wait
<1>11. PICK e \in {"E_OK", "E_TMOUT", "E_DLT"} : l = [k EXCEPT !.ercd[t] = e]
  BY <1>4
<1>12. Joined(z, l, t) /\ l.state = k.state /\ l.tskwait = k.tskwait
  <2>1. PICK f : f = [calls |-> MbxCalls, member |-> [x \in Obj |-> Task],
                      sorted |-> a.sorted, caused |-> FALSE]
    OBVIOUS
  <2>2. /\ Sound(k, a) /\ ~a.caused /\ ~f.caused /\ f.sorted = a.sorted
        /\ k.state[t] = "RDY" /\ tmo \in Int /\ t \in f.member[o]
    BY <1>1, <1>8, <2>1, KernelAssumption
  <2>3. \A x \in Obj : \A u \in ToSet(k.waitq[x]) : u \in f.member[x]
    <3>1. \A x \in Obj : ToSet(k.waitq[x]) \subseteq Task
      BY <1>1 DEF KernelType, ToSet
    <3> QED BY <2>1, <3>1
  <2> QED BY <1>10, <1>11, <2>2, <2>3, JoinsQueue
<1>13. /\ z.state = [k.state EXCEPT ![t] = "WAI"] /\ z.tskwait = k.tskwait
       /\ z.ercd = [k.ercd EXCEPT ![t] = "E_TMOUT"]
       /\ DOMAIN k.state = Task /\ DOMAIN k.ercd = Task
  BY <1>1, <1>4, <1>12 DEF Joined, KernelType
<1>14. /\ z.state[t] = "WAI" /\ z.ercd[t] = "E_TMOUT" /\ z.tskwait[t] = k.tskwait[t]
       /\ \A u \in Task \ {t} : /\ z.state[u] = k.state[u] /\ z.ercd[u] = k.ercd[u]
                                /\ z.tskwait[u] = k.tskwait[u]
  BY <1>13
<1>15. ASSUME NEW x \in Obj, NEW u \in ToSet(k.waitq[x]) PROVE u \in MayWait(x)'
  <2>1. u \in MayWait(x) /\ k.state[u] \in Waiting
    BY <1>1 DEF Sound, WaitsInv, QueueOK
  <2>2. u \in Task /\ u # t
    BY <1>8, <2>1 DEF MayWait, Inside, Waiting
  <2>3. call'[u] = call[u] /\ k'.ercd[u] = k.ercd[u]
    BY <1>5, <1>9, <1>14, <2>2
  <2> QED BY <1>7, <2>1, <2>2, <2>3 DEF MayWait, Inside
<1>16. t \in MayWait(o)'
  <2>1. call'[t] = <<"ercd", o>> /\ k'.ercd[t] # "E_OK"
    BY <1>3, <1>5, <1>9, <1>14
  <2> QED BY <1>7, <2>1 DEF MayWait, Inside
<1>17. /\ ~b.caused /\ b.sorted = a.sorted /\ b.calls = MbxCalls
       /\ \A x \in Obj : b.member[x] = MayWait(x)'
  BY <1>1, <1>2, <1>7 DEF MbxCtx
<1>18. Sound(z, b)
  <2>1. /\ t \in b.member[o]
        /\ \A x \in Obj : \A u \in ToSet(k.waitq[x]) : u \in b.member[x]
    BY <1>15, <1>16, <1>17
  <2>2. /\ Sound(k, a) /\ ~a.caused /\ ~b.caused /\ b.sorted = a.sorted
        /\ k.state[t] = "RDY" /\ tmo \in Int
    BY <1>1, <1>8, <1>17, KernelAssumption
  <2> QED BY <1>10, <1>11, <2>1, <2>2, JoinsQueue
<1>19. Flow(a)'
  <2>1. /\ d \in a.calls /\ d # Boot /\ (\A x : d # <<"cre_tsk", x>>)
        /\ \A x, v : d # <<"chg_pri", x, v>>
    BY <1>1, <1>7 DEF OwnCall
  <2>2. /\ \A u \in Task : k.state[u] = "NOEXS" => k'.state[u] = "NOEXS"
        /\ SchedInv(k') /\ runtsk' = k'.schedtsk
    BY <1>5, <1>7, <1>8, <1>14, <1>18 DEF Sound
  <2> QED BY <1>1, <1>7, <1>8, <2>1, <2>2, SwitchFlow
<1>20. IInv(MbxCtx)'
  <2>1. Sound(k', MbxCtx') /\ MbxCtx'.calls = a.calls
    BY <1>1, <1>2, <1>5, <1>17, <1>18
  <2> QED BY <1>19, <2>1 DEF IInv, Flow, Typed
<1>21. ASSUME NEW u \in Task PROVE Answered(u)' /\ InHand(u)' = InHand(u)
  <2>1. CASE u = t
    <3>1. k.tskwait[t] = "none"
      BY <1>1, <1>8 DEF Sound, WaitsInv, WaitOK, Waiting
    <3>2. k'.tskwait[t] = "none" /\ k'.ercd[t] # "E_OK" /\ k'.state[t] = "WAI"
      BY <1>5, <1>14, <3>1
    <3>3. InHand(t) = {}
      BY <1>8, NoHand DEF Calls
    <3> QED BY <2>1, <3>2, <3>3 DEF Answered, InHand
  <2>2. CASE u # t
    <3>1. call[u] \notin Calls => k.tskwait[u] = "none" /\ k.state[u] \notin {"NOEXS", "DMT"}
      BY <1>8, MbxCallsApart DEF MInv, Answered
    <3>2. Untouched(u)
      BY <1>5, <1>7, <1>9, <1>14, <2>2, <3>1 DEF Untouched
    <3> QED BY <3>2, UntouchedIs DEF MInv
  <2> QED BY <2>1, <2>2
<1>22. \A x \in Obj : SameBox(x) /\ BoxOK(x)'
  BY <1>7, SameBoxes DEF MInv
<1>23. Placed'
  BY <1>7, <1>21, <1>22, StayPlaced DEF MInv, SameBox
<1>24. Deleting' /\ MbxTables'
  BY <1>7, <1>8, MailboxAssumption DEF Deleting, MInv, MbxTables
<1> QED BY <1>20, <1>21, <1>22, <1>23, <1>24 DEF MInv, QueueStep

-----------------------------------------------------------------------------
(* snd_mbx. *)

(* A step that links m into the list of o, in front of its i-th message or *)
(* behind the last: by priority, or at the tail.                           *)
Inserts(o, m, i) ==
  /\ i \in 1..(Len(Chain(o)) + 1)
  /\ next' \in [Msg -> Msg \union {NIL}] /\ mbx' \in MbxType
  /\ next'[m] = IF i > Len(Chain(o)) THEN NIL ELSE Chain(o)[i]
  /\ i > 1 => next'[Chain(o)[i - 1]] = m
  /\ \A x \in Msg \ {m} : (i > 1 => x # Chain(o)[i - 1]) => next'[x] = next[x]
  /\ mbx'[o].head = IF i = 1 THEN m ELSE mbx[o].head
  /\ mbx'[o].exists = mbx[o].exists /\ mbx'[o].objatr = mbx[o].objatr
  /\ ~ByPriority(o) => i = Len(Chain(o)) + 1 /\ mbx'[o].tail = m
  /\ ByPriority(o) =>
       /\ i <= Len(Chain(o)) => Msgpri[Chain(o)[i]] > Msgpri[m]
       /\ \A h \in 1..(i - 1) : Msgpri[Chain(o)[h]] <= Msgpri[m]
  /\ \A x \in Obj \ {o} : mbx'[x] = mbx[x]

(* The walk of kqueue_insert_mpri finds a place.                           *)
LEMMA MpriInserts ==
  ASSUME MbxTables, NEW o \in Obj, BoxOK(o), NEW m \in Msg, m \notin ToSet(Chain(o)),
         ByPriority(o), kqueue_insert_mpri(o, m)
  PROVE  \E i : Inserts(o, m, i)
<1>1. PICK c : c = Chain(o)
  OBVIOUS
<1>2. c \in Seq(Msg) /\ Len(c) \in Nat
  BY <1>1 DEF BoxOK, IsList
<1> DEFINE P(j) == /\ j <= Len(c) => Msgpri[c[j]] > Msgpri[m]
                   /\ \A h \in 1..(j - 1) : Msgpri[c[h]] <= Msgpri[m]
<1>3. PICK i : i = CHOOSE j \in 1..Len(c) + 1 : P(j)
  OBVIOUS
<1>4. i \in 1..(Len(c) + 1) /\ P(i)
  <2>1. \E j \in 1..Len(c) + 1 : P(j)
    <3>1. PICK j : j = kqueue_find_pri(c, Msgpri, Msgpri[m])
      OBVIOUS
    <3>2. Msgpri \in [Msg -> Int] /\ Msgpri[m] \in Int
      BY MailboxAssumption
    <3>3. /\ j \in 1..(Len(c) + 1)
          /\ j <= Len(c) => Msgpri[c[j]] > Msgpri[m]
          /\ \A h \in 1..(j - 1) : Msgpri[c[h]] <= Msgpri[m]
      BY <1>2, <3>1, <3>2, FindPri
    <3> QED BY <3>3
  <2> HIDE DEF P
  <2> QED BY <1>3, <2>1
<1>5. PICK b : b = IF i > Len(c) THEN NIL ELSE c[i]
  OBVIOUS
<1>6. IF i = 1 THEN /\ mbx' = [mbx EXCEPT ![o].head = m]
                    /\ next' = [next EXCEPT ![m] = b]
      ELSE /\ next' = [next EXCEPT ![m] = b, ![c[i - 1]] = m]
           /\ mbx' = mbx
  BY <1>1, <1>3, <1>5 DEF kqueue_insert_mpri
<1>7. b \in Msg \union {NIL} /\ \A j \in 1..Len(c) : c[j] \in Msg /\ c[j] # m
  <2>1. \A j \in 1..Len(c) : c[j] \in Msg /\ c[j] \in ToSet(c)
    BY <1>2 DEF ToSet
  <2>2. i <= Len(c) => i \in 1..Len(c)
    BY <1>2, <1>4
  <2> QED BY <1>1, <1>2, <1>4, <1>5, <2>1, <2>2
<1> HIDE DEF P
<1>8. next \in [Msg -> Msg \union {NIL}] /\ mbx \in MbxType
  BY DEF MbxTables
<1>9. /\ mbx' \in MbxType /\ mbx'[o].head = IF i = 1 THEN m ELSE mbx[o].head
      /\ mbx'[o].exists = mbx[o].exists /\ mbx'[o].objatr = mbx[o].objatr
      /\ \A x \in Obj \ {o} : mbx'[x] = mbx[x]
  BY <1>6, <1>8 DEF MbxType
<1>10. /\ next' \in [Msg -> Msg \union {NIL}] /\ next'[m] = b
       /\ i > 1 => next'[c[i - 1]] = m
       /\ \A x \in Msg \ {m} : (i > 1 => x # c[i - 1]) => next'[x] = next[x]
  <2>1. CASE i = 1
    BY <1>6, <1>7, <1>8, <2>1
  <2>2. CASE i # 1
    <3>1. i > 1 /\ i - 1 \in 1..Len(c)
      BY <1>2, <1>4, <2>2
    <3>2. PICK y : y = c[i - 1]
      OBVIOUS
    <3>3. y \in Msg /\ y # m /\ next' = [next EXCEPT ![m] = b, ![y] = m]
      BY <1>6, <1>7, <2>2, <3>1, <3>2
    <3>4. /\ next' \in [Msg -> Msg \union {NIL}] /\ next'[m] = b /\ next'[y] = m
          /\ \A x \in Msg \ {m} : x # y => next'[x] = next[x]
      BY <1>7, <1>8, <3>3
    <3> QED BY <3>1, <3>2, <3>4
  <2> QED BY <2>1, <2>2
<1>11. /\ i <= Len(c) => Msgpri[c[i]] > Msgpri[m]
       /\ \A h \in 1..(i - 1) : Msgpri[c[h]] <= Msgpri[m]
  BY <1>4 DEF P
<1> QED BY <1>1, <1>4, <1>5, <1>9, <1>10, <1>11 DEF Inserts

(* mq_tail is the last message.                                            *)
LEMMA LastInserts ==
  ASSUME MbxTables, NEW o \in Obj, BoxOK(o), NEW m \in Msg, m \notin ToSet(Chain(o)),
         ~ByPriority(o), insert_last(o, m)
  PROVE  \E i : Inserts(o, m, i)
<1>1. PICK c : c = Chain(o)
  OBVIOUS
<1>2. /\ c \in Seq(Msg) /\ Len(c) \in Nat
      /\ mbx[o].head = IF c = <<>> THEN NIL ELSE c[1]
      /\ c # <<>> => mbx[o].tail = c[Len(c)]
  BY <1>1 DEF BoxOK, IsList
<1>3. PICK i : i = Len(c) + 1
  OBVIOUS
<1>4. i \in 1..(Len(c) + 1) /\ i > Len(c) /\ i - 1 = Len(c) /\ i \in Nat
  BY <1>2, <1>3
<1>5. \A j \in 1..Len(c) : c[j] \in Msg /\ c[j] # m
  <2>1. \A j \in 1..Len(c) : c[j] \in Msg /\ c[j] \in ToSet(c)
    BY <1>2 DEF ToSet
  <2> QED BY <1>1, <2>1
<1>6. next \in [Msg -> Msg \union {NIL}] /\ mbx \in MbxType
  BY DEF MbxTables
<1>7. (mbx[o].head = NIL <=> c = <<>>) /\ (c = <<>> <=> i = 1)
  <2>1. c = <<>> <=> Len(c) = 0
    BY <1>2, EmptySeq
  <2>2. c # <<>> => 1 \in 1..Len(c)
    BY <1>2, <2>1
  <2>3. c # <<>> => mbx[o].head # NIL
    BY <1>2, <1>5, <2>2, MailboxAssumption
  <2> QED BY <1>2, <1>3, <2>1, <2>3
<1>8. /\ mbx' \in MbxType /\ mbx'[o].head = IF i = 1 THEN m ELSE mbx[o].head
      /\ mbx'[o].exists = mbx[o].exists /\ mbx'[o].objatr = mbx[o].objatr
      /\ mbx'[o].tail = m
      /\ \A x \in Obj \ {o} : mbx'[x] = mbx[x]
  <2>1. PICK h : h = IF i = 1 THEN m ELSE mbx[o].head
    OBVIOUS
  <2>2. h \in Msg \union {NIL}
    BY <1>6, <2>1 DEF MbxType
  <2>3. mbx' = [mbx EXCEPT ![o].head = h, ![o].tail = m]
    BY <1>6, <1>7, <2>1 DEF insert_last, MbxType
  <2> QED BY <1>6, <2>1, <2>2, <2>3 DEF MbxType
<1>9. /\ next' \in [Msg -> Msg \union {NIL}] /\ next'[m] = NIL
      /\ i > 1 => next'[c[i - 1]] = m
      /\ \A x \in Msg \ {m} : (i > 1 => x # c[i - 1]) => next'[x] = next[x]
  <2>1. CASE i = 1
    <3>1. next' = [next EXCEPT ![m] = NIL]
      BY <1>7, <2>1 DEF insert_last
    <3> QED BY <1>6, <2>1, <3>1
  <2>2. CASE i # 1
    <3>1. PICK y : y = c[Len(c)]
      OBVIOUS
    <3>2. Len(c) \in 1..Len(c)
      BY <1>2, <1>4, <2>2
    <3>3. y \in Msg /\ y # m /\ next' = [next EXCEPT ![m] = NIL, ![y] = m]
      BY <1>2, <1>5, <1>7, <2>2, <3>1, <3>2 DEF insert_last
    <3>4. /\ next' \in [Msg -> Msg \union {NIL}] /\ next'[m] = NIL /\ next'[y] = m
          /\ \A x \in Msg \ {m} : x # y => next'[x] = next[x]
      BY <1>6, <3>3
    <3> QED BY <1>4, <2>2, <3>1, <3>4
  <2> QED BY <2>1, <2>2
<1> QED BY <1>1, <1>3, <1>4, <1>8, <1>9 DEF Inserts

(* A message that a task has is in no box.                                 *)
LEMMA NotInBox ==
  ASSUME MInv, NEW t \in Task, NEW m \in has[t]
  PROVE  m \in Msg /\ \A x \in Obj : m \notin ToSet(Chain(x))
<1>1. m \in Msg
  BY DEF MInv, MbxTables
<1>2. ASSUME NEW x \in Obj, m \in ToSet(Chain(x)) PROVE FALSE
  <2>1. PICK p, q \in Place : p = <<"task", t>> /\ q = <<"box", x>>
    BY PlacesAre
  <2>2. m \in Messages(p) /\ m \in Messages(q)
    BY <1>2, <2>1, PlacesAre
  <2>3. p = q
    BY <1>1, <2>2, Apart DEF MInv
  <2> QED BY <2>1, <2>3
<1> QED BY <1>1, <1>2

(* The order of the priorities, with a message at its place.               *)
LEMMA OrderInsert ==
  ASSUME NEW c \in Seq(Msg), InOrder(c, Msgpri), NEW m \in Msg, NEW i \in 1..(Len(c) + 1),
         i <= Len(c) => Msgpri[c[i]] > Msgpri[m],
         \A h \in 1..(i - 1) : Msgpri[c[h]] <= Msgpri[m],
         NEW d \in Seq(Msg), Len(d) = Len(c) + 1,
         \A j \in 1..(Len(c) + 1) : d[j] = IF j < i THEN c[j] ELSE IF j = i THEN m ELSE c[j - 1]
  PROVE  /\ \A j \in i..Len(c) : Msgpri[c[j]] > Msgpri[m]
         /\ InOrder(d, Msgpri)
<1>1. PICK n \in Nat : n = Len(c)
  OBVIOUS
<1>2. DOMAIN c = 1..n /\ DOMAIN d = 1..(n + 1)
  BY <1>1
<1>3. \A j, h \in 1..n : j < h => Msgpri[c[j]] <= Msgpri[c[h]]
  BY <1>2 DEF InOrder
<1>4. \A x \in Msg : Msgpri[x] \in Int
  BY MailboxAssumption
<1>5. \A j \in 1..n : c[j] \in Msg
  BY <1>1
<1>6. ASSUME NEW j \in i..n PROVE Msgpri[c[j]] > Msgpri[m]
  <2>1. i \in 1..n /\ j \in 1..n /\ (i = j \/ i < j)
    BY <1>1
  <2>2. /\ Msgpri[c[i]] \in Int /\ Msgpri[c[j]] \in Int /\ Msgpri[m] \in Int
        /\ Msgpri[c[i]] > Msgpri[m]
    BY <1>1, <1>4, <1>5, <2>1
  <2>3. Msgpri[c[i]] <= Msgpri[c[j]]
    BY <1>3, <2>1, <2>2
  <2> QED BY <2>2, <2>3
<1>7. ASSUME NEW j \in 1..(n + 1), NEW h \in 1..(n + 1), j < h
      PROVE  Msgpri[d[j]] <= Msgpri[d[h]]
  <2>1. \A v \in 1..(n + 1) : d[v] = IF v < i THEN c[v] ELSE IF v = i THEN m ELSE c[v - 1]
    BY <1>1
  <2>2. i \in 1..(n + 1)
    BY <1>1
  <2>3. CASE h < i
    <3>1. j \in 1..n /\ h \in 1..n /\ d[j] = c[j] /\ d[h] = c[h]
      BY <1>7, <2>1, <2>2, <2>3
    <3> QED BY <1>3, <1>7, <3>1
  <2>4. CASE h = i
    <3>1. j \in 1..(i - 1) /\ d[j] = c[j] /\ d[h] = m
      BY <1>7, <2>1, <2>2, <2>4
    <3> QED BY <3>1
  <2>5. CASE h > i /\ j < i
    <3>1. /\ j \in 1..n /\ h - 1 \in 1..n /\ j < h - 1 /\ d[j] = c[j] /\ d[h] = c[h - 1]
      BY <1>7, <2>1, <2>2, <2>5
    <3> QED BY <1>3, <3>1
  <2>6. CASE h > i /\ j = i
    <3>1. h - 1 \in i..n /\ h - 1 \in 1..n /\ d[j] = m /\ d[h] = c[h - 1]
      BY <1>7, <2>1, <2>2, <2>6
    <3>2. Msgpri[c[h - 1]] > Msgpri[m] /\ Msgpri[c[h - 1]] \in Int /\ Msgpri[m] \in Int
      BY <1>4, <1>5, <1>6, <3>1
    <3> QED BY <3>1, <3>2
  <2>7. CASE h > i /\ j > i
    <3>1. /\ j - 1 \in 1..n /\ h - 1 \in 1..n /\ j - 1 < h - 1
          /\ d[j] = c[j - 1] /\ d[h] = c[h - 1]
      BY <1>7, <2>1, <2>2, <2>7
    <3> QED BY <1>3, <3>1
  <2> QED BY <2>2, <2>3, <2>4, <2>5, <2>6, <2>7
<1>8. InOrder(d, Msgpri)
  BY <1>2, <1>7 DEF InOrder
<1> QED BY <1>1, <1>6, <1>8

(* The message is linked in at its place, and the other boxes are as they  *)
(* were: no message of theirs is one whose link changes.                   *)
LEMMA Inserted ==
  ASSUME MInv, NEW t \in Task, NEW m \in has[t], NEW o \in Obj, mbx[o].exists,
         NEW i, Inserts(o, m, i)
  PROVE  /\ Added(o, m) /\ BoxOK(o)' /\ Others(o)
         /\ ToSet(Chain(o))' = ToSet(Chain(o)) \union {m}
         /\ \A x \in Obj \ {o} : BoxOK(x)'
<1>1. m \in Msg /\ \A x \in Obj : m \notin ToSet(Chain(x))
  BY NotInBox
<1>2. PICK c : c = Chain(o)
  OBVIOUS
<1>3. PICK g : g = mbx'[o].head
  OBVIOUS
<1>4. PICK ny : ny = next'
  OBVIOUS
<1>5. /\ IsList(mbx[o].head, next, c) /\ c \in Seq(Msg) /\ Len(c) \in Nat
      /\ m \notin ToSet(c) /\ (ByPriority(o) => InOrder(c, Msgpri))
  BY <1>1, <1>2 DEF MInv, BoxOK, IsList
<1>6. /\ i \in 1..(Len(c) + 1)
      /\ ny[m] = IF i > Len(c) THEN NIL ELSE c[i]
      /\ i > 1 => ny[c[i - 1]] = m
      /\ \A x \in Msg \ {m} : (i > 1 => x # c[i - 1]) => ny[x] = next[x]
      /\ g = IF i = 1 THEN m ELSE mbx[o].head
      /\ mbx'[o].exists = mbx[o].exists /\ mbx'[o].objatr = mbx[o].objatr
      /\ ~ByPriority(o) => i = Len(c) + 1 /\ mbx'[o].tail = m
      /\ ByPriority(o) =>
           /\ i <= Len(c) => Msgpri[c[i]] > Msgpri[m]
           /\ \A h \in 1..(i - 1) : Msgpri[c[h]] <= Msgpri[m]
      /\ \A x \in Obj \ {o} : mbx'[x] = mbx[x]
  BY <1>2, <1>3, <1>4 DEF Inserts
<1>7. PICK d : d = InsertAt(c, i, m)
  OBVIOUS
<1>8. /\ d \in Seq(Msg) /\ Len(d) = Len(c) + 1
      /\ \A j \in 1..(Len(c) + 1) : d[j] = IF j < i THEN c[j] ELSE IF j = i THEN m ELSE c[j - 1]
  <2>1. /\ c \in Seq(Msg) /\ m \in Msg /\ i \in 1..(Len(c) + 1)
        /\ d = InsertAt(c, i, m)
    BY <1>1, <1>5, <1>6, <1>7
  <2>2. Spliced(InsertAt(c, i, m), c, i, m)
    BY <2>1, InsertAtSplices
  <2> QED BY <2>1, <2>2 DEF Spliced
<1>9. IsList(g, ny, d) /\ ToSet(d) = ToSet(c) \union {m}
  BY <1>1, <1>5, <1>6, <1>8, ListInsert
<1>10. Chain(o)' = d
  <2>1. Chain(o)' = linked(g, ny)
    BY <1>3, <1>4 DEF Chain
  <2> QED BY <1>9, <2>1, LinkedIs
<1>11. ByPriority(o) => /\ \A j \in i..Len(c) : Msgpri[c[j]] > Msgpri[m]
                        /\ InOrder(d, Msgpri)
  BY <1>1, <1>5, <1>6, <1>8, OrderInsert
<1>12. ASSUME NEW x \in Obj \ {o} PROVE SameBox(x) /\ BoxOK(x)'
  <2>1. PICK e : e = Chain(x)
    OBVIOUS
  <2>2. IsList(mbx[x].head, next, e) /\ m \notin ToSet(e) /\ ToSet(e) \subseteq Msg
    BY <1>1, <2>1 DEF MInv, BoxOK, IsList, ToSet
  <2>3. i > 1 => c[i - 1] \notin ToSet(e)
    <3> SUFFICES ASSUME i > 1, c[i - 1] \in ToSet(e) PROVE FALSE
      OBVIOUS
    <3>1. i - 1 \in 1..Len(c)
      BY <1>5, <1>6
    <3>2. c[i - 1] \in ToSet(c) /\ c[i - 1] \in Msg
      BY <1>5, <3>1 DEF ToSet
    <3>3. PICK p, q \in Place : p = <<"box", o>> /\ q = <<"box", x>>
      BY PlacesAre
    <3>4. Messages(p) = ToSet(c) /\ Messages(q) = ToSet(e)
      BY <1>2, <2>1, <3>3, PlacesAre
    <3>5. p = q
      BY <3>2, <3>4, Apart DEF MInv
    <3> QED BY <3>3, <3>5
  <2>4. \A y \in ToSet(e) : ny[y] = next[y]
    BY <1>6, <2>2, <2>3
  <2>5. IsList(mbx[x].head, ny, e)
    BY <2>2, <2>4, ListSame
  <2>6. mbx'[x] = mbx[x]
    BY <1>6
  <2>7. Chain(x)' = e
    <3>1. Chain(x)' = linked(mbx[x].head, ny)
      BY <1>4, <2>6 DEF Chain
    <3> QED BY <2>5, <3>1, LinkedIs
  <2>8. BoxOK(x)
    BY DEF MInv
  <2> QED BY <1>4, <2>1, <2>5, <2>6, <2>7, <2>8 DEF SameBox, BoxOK, ByPriority
<1>13. BoxOK(o)'
  <2>1. ~ByPriority(o) => mbx'[o].tail = d[Len(d)]
    <3> SUFFICES ASSUME ~ByPriority(o) PROVE mbx'[o].tail = d[Len(d)]
      OBVIOUS
    <3>1. i = Len(d) /\ i \in 1..(Len(c) + 1) /\ mbx'[o].tail = m
      BY <1>6, <1>8
    <3> QED BY <1>5, <1>8, <3>1
  <2>2. IsList(mbx'[o].head, next', d)
    BY <1>3, <1>4, <1>9
  <2>3. mbx'[o].exists /\ mbx'[o].objatr = mbx[o].objatr
    BY <1>6
  <2> QED BY <1>10, <1>11, <2>1, <2>2, <2>3 DEF BoxOK, ByPriority
<1>14. Others(o)
  BY <1>12 DEF Others
<1>15. Added(o, m)
  <2>1. /\ \A j \in 1..(i - 1) : ByPriority(o) => Msgpri[c[j]] <= Msgpri[m]
        /\ \A j \in i..Len(c) : ByPriority(o) /\ Msgpri[c[j]] > Msgpri[m]
    BY <1>5, <1>6, <1>11
  <2>2. Chain(o)' = InsertAt(c, i, m)
    BY <1>7, <1>10
  <2> QED BY <1>2, <1>6, <1>14, <2>1, <2>2 DEF Added
<1> QED BY <1>2, <1>9, <1>10, <1>12, <1>13, <1>14, <1>15

(* A task that calls a service runs, and no event is being handled.        *)
LEMMA CallerRuns ==
  ASSUME MInv, NEW t \in Task, At(t, User)
  PROVE  runtsk = t /\ event = NoTask /\ k.state[t] = "RDY"
<1>1. PICK a : IInv(a)
  BY Here
<1>2. PICK c : c = User
  OBVIOUS
<1>3. At(t, c) /\ ~Leaving(c)
  BY <1>2, CallsApart
<1> QED BY <1>1, <1>3, Running

(* Of the queues a task leaves, the other members remain.                  *)
LEMMA LeftQueues ==
  ASSUME NEW a, NEW n, Sound(n, a), NEW r
  PROVE  \A x \in Obj : ToSet(Without(n.waitq, r)[x]) = ToSet(n.waitq[x]) \ {r}
<1>1. n \in KernelType /\ WaitsInv(n, a)
  BY DEF Sound
<1>2. \A x \in Obj : /\ IsInjective(Without(n.waitq, r)[x])
                    /\ ToSet(Without(n.waitq, r)[x]) = ToSet(n.waitq[x]) \ {r}
  BY <1>1, WithoutMembers
<1> QED BY <1>2

(* The message goes to the first task that waits.                          *)
LEMMA SndWaiterStep ==
  ASSUME MInv, NEW t \in Task, NEW m \in has[t], NEW o \in Obj, At(t, User),
         k.waitq[o] # <<>>,
         NEW r, r = kqueue_next(k.waitq[o]),
         ppk' = [ppk EXCEPT ![r] = m], k' = wait_release_ok(k, r),
         mbx' = mbx, next' = next, has' = [has EXCEPT ![t] = @ \ {m}],
         call' = [call EXCEPT ![t] = Dispatch], runtsk' = runtsk, event' = event
  PROVE  MInv' /\ QueueStep
<1>1. PICK a : /\ a = MbxCtx /\ Sound(k, a) /\ k \in KernelType
               /\ \A x \in Obj : a.member[x] = MayWait(x)
               /\ call \in [Task -> MbxCalls] /\ Flow(a)
  BY Here DEF Flow, Typed
<1>2. m \in Msg
  BY NotInBox
<1>3. PICK l : l = [k EXCEPT !.ercd[r] = "E_OK"]
  OBVIOUS
<1>4. PICK n : n = k'
  OBVIOUS
<1>5. n = wait_release(l, r)
  BY <1>3, <1>4 DEF wait_release_ok
<1>6. PICK e \in {"E_OK", "E_TMOUT", "E_DLT"} : e = "E_OK"
  OBVIOUS
<1>7. r \in Task /\ k.state[r] \in Waiting /\ Sound(n, a) /\ Released(l, n, r)
  BY <1>1, <1>3, <1>5, <1>6, ReleaseFirst
<1>8. /\ l.ercd = [k.ercd EXCEPT ![r] = "E_OK"] /\ l.state = k.state
      /\ l.tskwait = k.tskwait /\ l.waitq = k.waitq
      /\ DOMAIN k.ercd = Task /\ DOMAIN k.state = Task /\ DOMAIN k.tskwait = Task
  BY <1>1, <1>3 DEF KernelType
<1>9. r \in MayWait(o)
  <2>1. k.waitq[o] \in Seq(Task)
    BY <1>1 DEF KernelType
  <2>2. r \in ToSet(k.waitq[o])
    BY <2>1 DEF kqueue_next, ToSet
  <2> QED BY <1>1, <2>2 DEF Sound, WaitsInv, QueueOK
<1>10. /\ n.ercd[r] = "E_OK" /\ n.tskwait[r] = "none" /\ n.state[r] \in {"RDY", "SUS"}
       /\ \A u \in Task \ {r} : /\ n.ercd[u] = k.ercd[u] /\ n.state[u] = k.state[u]
                                /\ n.tskwait[u] = k.tskwait[u]
  <2>1. PICK s \in {"RDY", "SUS"} : n.state = [k.state EXCEPT ![r] = s]
    BY <1>7, <1>8 DEF Released
  <2>2. n.ercd = [k.ercd EXCEPT ![r] = "E_OK"] /\ n.tskwait = [k.tskwait EXCEPT ![r] = "none"]
    BY <1>7, <1>8 DEF Released
  <2> QED BY <1>7, <1>8, <2>1, <2>2
<1>11. \A x \in Obj : ToSet(n.waitq[x]) = ToSet(k.waitq[x]) \ {r} /\ ToSet(k.waitq[x]) \subseteq Task
  <2>1. n.waitq = Without(k.waitq, r)
    BY <1>7, <1>8 DEF Released
  <2>2. \A x \in Obj : ToSet(k.waitq[x]) \subseteq Task
    BY <1>1 DEF KernelType, ToSet
  <2>3. \A x \in Obj : ToSet(Without(k.waitq, r)[x]) = ToSet(k.waitq[x]) \ {r}
    <3>1. PICK y : y = k
      OBVIOUS
    <3>2. Sound(y, a)
      BY <1>1, <3>1
    <3>3. \A x \in Obj : ToSet(Without(y.waitq, r)[x]) = ToSet(y.waitq[x]) \ {r}
      BY <3>2, LeftQueues
    <3> QED BY <3>1, <3>3
  <2> QED BY <2>1, <2>2, <2>3
<1>12. runtsk = t /\ k.state[t] = "RDY" /\ event = NoTask /\ r # t
  <2>1. runtsk = t /\ k.state[t] = "RDY" /\ event = NoTask
    BY CallerRuns
  <2> QED BY <1>7, <2>1 DEF Waiting
<1>13. /\ IInv(MbxCtx)' /\ Deleting' /\ call[t] = User /\ call'[t] = Dispatch
       /\ \A u \in Task \ {t} : call'[u] = call[u]
  <2>1. event' \in (Obj \union {NoTask}) \ Task
    BY <1>12, ReadyQueueAssumption
  <2>2. /\ \A b : b = MbxCtx /\ Sound(k, b) => Sound(k', b)
        /\ \A u \in Task : k.state[u] = "NOEXS" => k'.state[u] = "NOEXS"
        /\ \A x \in Obj : k'.waitq[x] # <<>> => mbx'[x] = mbx[x]
        /\ \A x \in Obj : \A u \in ToSet(k'.waitq[x]) : k'.ercd[u] = k.ercd[u]
    BY <1>1, <1>4, <1>7, <1>10, <1>11 DEF Waiting
  <2> QED BY <2>1, <2>2, LeaveStep
<1>14. /\ ppk' \in [Task -> Msg \union {NIL}] /\ ppk'[r] = m
       /\ \A u \in Task \ {r} : ppk'[u] = ppk[u]
  BY <1>2, <1>7 DEF MInv, MbxTables
<1>15. Answered(r)' /\ InHand(r)' = {m} /\ InHand(r) = {}
  <2>1. call'[r] = <<"ercd", o>>
    BY <1>9, <1>12, <1>13 DEF MayWait, Inside
  <2> QED BY <1>2, <1>4, <1>9, <1>10, <1>14, <2>1, EmptyHand DEF Answered, InHand
<1>16. ASSUME NEW u \in Task \ {r} PROVE Answered(u)' /\ InHand(u)' = InHand(u)
  <2>1. CASE u = t
    <3>1. Untouched(u)
      BY <1>13, <2>1 DEF Untouched, Calls
    <3> QED BY <3>1, UntouchedIs DEF MInv
  <2>2. CASE u # t
    <3>1. call[u] \notin Calls => k.tskwait[u] = "none" /\ k.state[u] \notin {"NOEXS", "DMT"}
      BY <1>1, MbxCallsApart DEF MInv, Answered
    <3>2. Untouched(u)
      BY <1>4, <1>10, <1>13, <1>14, <2>2, <3>1 DEF Untouched
    <3> QED BY <3>2, UntouchedIs DEF MInv
  <2> QED BY <2>1, <2>2
<1>17. \A x \in Obj : SameBox(x) /\ BoxOK(x)'
  BY SameBoxes DEF MInv
<1>18. /\ has' \in [Task -> SUBSET Msg] /\ has'[t] = has[t] \ {m}
       /\ \A u \in Task \ {t} : has'[u] = has[u]
  BY DEF MInv, MbxTables
<1>19. Placed'
  <2>1. PICK p, q \in Place : p = <<"task", t>> /\ q = <<"hand", r>>
    BY <1>7, PlacesAre
  <2>2. {m} \subseteq Messages(p)
    BY <2>1, PlacesAre
  <2>3. ASSUME NEW u \in Task
        PROVE  /\ has'[u] = Moved(has[u], <<"task", u>>, {m}, p, q)
               /\ InHand(u)' = Moved(InHand(u), <<"hand", u>>, {m}, p, q)
    <3>1. has'[u] = Moved(has[u], <<"task", u>>, {m}, p, q)
      BY <1>18, <2>1 DEF Moved
    <3>2. InHand(u)' = Moved(InHand(u), <<"hand", u>>, {m}, p, q)
      BY <1>15, <1>16, <2>1 DEF Moved
    <3> QED BY <3>1, <3>2
  <2>4. ASSUME NEW x \in Obj
        PROVE  ToSet(Chain(x))' = Moved(ToSet(Chain(x)), <<"box", x>>, {m}, p, q)
    <3>1. Chain(x)' = Chain(x)
      BY <1>17 DEF SameBox
    <3> QED BY <2>1, <3>1 DEF Moved
  <2> QED BY <2>2, <2>3, <2>4, MovedPlaced DEF MInv
<1>20. MbxTables'
  BY <1>14, <1>18 DEF MInv, MbxTables
<1>21. \A u \in Task : Answered(u)'
  BY <1>15, <1>16
<1> QED BY <1>13, <1>17, <1>19, <1>20, <1>21 DEF MInv, QueueStep

(* Nobody waits: the message goes into the box.                            *)
LEMMA SndBoxStep ==
  ASSUME MInv, NEW t \in Task, NEW m \in has[t], NEW o \in Obj, At(t, User),
         mbx[o].exists, k.waitq[o] = <<>>,
         IF ByPriority(o) THEN kqueue_insert_mpri(o, m) ELSE insert_last(o, m),
         ppk' = ppk, k' = k, has' = [has EXCEPT ![t] = @ \ {m}],
         call' = [call EXCEPT ![t] = Dispatch], runtsk' = runtsk, event' = event
  PROVE  MInv' /\ QueueStep
<1>1. PICK a : a = MbxCtx /\ Sound(k, a) /\ call \in [Task -> MbxCalls] /\ IInv(a)
  BY Here DEF Flow, Typed
<1>2. m \in Msg /\ m \notin ToSet(Chain(o))
  BY NotInBox
<1>3. PICK i : Inserts(o, m, i)
  <2>1. MbxTables /\ BoxOK(o)
    BY DEF MInv
  <2>2. CASE ByPriority(o)
    <3>1. kqueue_insert_mpri(o, m)
      BY <2>2
    <3> QED BY <1>2, <2>1, <2>2, <3>1, MpriInserts
  <2>3. CASE ~ByPriority(o)
    <3>1. insert_last(o, m)
      BY <2>3
    <3> QED BY <1>2, <2>1, <2>3, <3>1, LastInserts
  <2> QED BY <2>2, <2>3
<1>4. /\ Added(o, m) /\ BoxOK(o)' /\ Others(o)
      /\ ToSet(Chain(o))' = ToSet(Chain(o)) \union {m}
      /\ \A x \in Obj \ {o} : BoxOK(x)'
  BY <1>3, Inserted
<1>5. /\ next' \in [Msg -> Msg \union {NIL}] /\ mbx' \in MbxType
      /\ \A x \in Obj \ {o} : mbx'[x] = mbx[x]
  BY <1>3 DEF Inserts
<1>6. event = NoTask
  BY CallerRuns
<1>7. /\ IInv(MbxCtx)' /\ Deleting' /\ call[t] = User /\ call'[t] = Dispatch
      /\ \A u \in Task \ {t} : call'[u] = call[u]
  <2>1. event' \in (Obj \union {NoTask}) \ Task
    BY <1>6, ReadyQueueAssumption
  <2>2. /\ \A b : b = MbxCtx /\ Sound(k, b) => Sound(k', b)
        /\ \A u \in Task : k.state[u] = "NOEXS" => k'.state[u] = "NOEXS"
        /\ \A x \in Obj : k'.waitq[x] # <<>> => mbx'[x] = mbx[x]
        /\ \A x \in Obj : \A u \in ToSet(k'.waitq[x]) : k'.ercd[u] = k.ercd[u]
    BY <1>5
  <2> QED BY <2>1, <2>2, LeaveStep
<1>8. ASSUME NEW u \in Task PROVE Answered(u)' /\ InHand(u)' = InHand(u)
  <2>1. CASE u = t
    <3>1. Untouched(u)
      BY <1>7, <2>1 DEF Untouched, Calls
    <3> QED BY <3>1, UntouchedIs DEF MInv
  <2>2. CASE u # t
    <3>1. call[u] \notin Calls => k.tskwait[u] = "none" /\ k.state[u] \notin {"NOEXS", "DMT"}
      BY <1>1, MbxCallsApart DEF MInv, Answered
    <3>2. Untouched(u)
      BY <1>7, <2>2, <3>1 DEF Untouched
    <3> QED BY <3>2, UntouchedIs DEF MInv
  <2> QED BY <2>1, <2>2
<1>9. /\ has' \in [Task -> SUBSET Msg] /\ has'[t] = has[t] \ {m}
      /\ \A u \in Task \ {t} : has'[u] = has[u]
  BY DEF MInv, MbxTables
<1>10. Placed'
  <2>1. PICK p, q \in Place : p = <<"task", t>> /\ q = <<"box", o>>
    BY PlacesAre
  <2>2. {m} \subseteq Messages(p)
    BY <2>1, PlacesAre
  <2>3. ASSUME NEW u \in Task
        PROVE  /\ has'[u] = Moved(has[u], <<"task", u>>, {m}, p, q)
               /\ InHand(u)' = Moved(InHand(u), <<"hand", u>>, {m}, p, q)
    BY <1>8, <1>9, <2>1 DEF Moved
  <2>4. ASSUME NEW x \in Obj
        PROVE  ToSet(Chain(x))' = Moved(ToSet(Chain(x)), <<"box", x>>, {m}, p, q)
    <3>1. CASE x = o
      BY <1>4, <2>1, <3>1 DEF Moved
    <3>2. CASE x # o
      <4>1. Chain(x)' = Chain(x)
        BY <1>4, <3>2 DEF Others, SameBox
      <4> QED BY <2>1, <3>2, <4>1 DEF Moved
    <3> QED BY <3>1, <3>2
  <2> QED BY <2>2, <2>3, <2>4, MovedPlaced DEF MInv
<1>11. MbxTables'
  BY <1>5, <1>9 DEF MInv, MbxTables
<1>12. (\A u \in Task : Answered(u)') /\ (\A x \in Obj : BoxOK(x)')
  BY <1>4, <1>8
<1> QED BY <1>2, <1>4, <1>7, <1>10, <1>11, <1>12 DEF MInv, QueueStep

(* A message goes to a task, into the box, or back to its sender.          *)
LEMMA SndStep ==
  ASSUME MInv, NEW t \in Task, NEW o \in Obj, NEW m \in Msg, snd_mbx(t, o, m)
  PROVE  MInv' /\ QueueStep
<1>1. /\ At(t, User) /\ m \in has[t] /\ call' = [call EXCEPT ![t] = Dispatch]
      /\ runtsk' = runtsk /\ event' = event
  BY DEF snd_mbx, Calls_, Goto
<1>2. CASE __snd_mbx(o, m) /\ has' = [has EXCEPT ![t] = @ \ {m}]
  <2>1. CASE k.waitq[o] # <<>>
    <3>1. PICK r : r = kqueue_next(k.waitq[o])
      OBVIOUS
    <3>2. /\ ppk' = [ppk EXCEPT ![r] = m] /\ k' = wait_release_ok(k, r)
          /\ mbx' = mbx /\ next' = next
      BY <1>2, <2>1, <3>1 DEF __snd_mbx, kqueue_empty
    <3> QED BY <1>1, <1>2, <2>1, <3>1, <3>2, SndWaiterStep
  <2>2. CASE k.waitq[o] = <<>>
    <3>1. /\ mbx[o].exists /\ ppk' = ppk /\ k' = k
          /\ IF ByPriority(o) THEN kqueue_insert_mpri(o, m) ELSE insert_last(o, m)
      BY <1>2, <2>2 DEF __snd_mbx, kqueue_empty
    <3> QED BY <1>1, <1>2, <2>2, <3>1, SndBoxStep
  <2> QED BY <2>1, <2>2
<1>3. CASE UNCHANGED <<k, mbx, next, ppk, has>>
  <2>1. event = NoTask
    BY <1>1, CallerRuns
  <2>2. event' \in (Obj \union {NoTask}) \ Task
    BY <1>1, <2>1, ReadyQueueAssumption
  <2> QED BY <1>1, <1>3, <2>2, LeaveQuietly
<1> QED BY <1>2, <1>3 DEF snd_mbx

-----------------------------------------------------------------------------
(* The theorems. *)

(* Every step of the boxes and of the kernel under them.                   *)
LEMMA MbxStep ==
  MInv /\ MailboxUse /\ [MbxNext]_mbxvars => MInv' /\ QueueStep
<1> SUFFICES ASSUME MInv, MailboxUse, [MbxNext]_mbxvars PROVE MInv' /\ QueueStep
  OBVIOUS
<1>1. CASE UNCHANGED mbxvars
  <2>1. /\ k' = k /\ runtsk' = runtsk /\ call' = call /\ event' = event
        /\ mbx' = mbx /\ next' = next /\ ppk' = ppk /\ has' = has
    BY <1>1 DEF mbxvars
  <2>2. PICK a : /\ a = MbxCtx /\ Sound(k, a) /\ Flow(a)
                 /\ \A x \in Obj : a.member[x] = MayWait(x)
                 /\ call \in [Task -> MbxCalls]
    BY Here DEF Flow, Typed
  <2>3. Flow(a)' /\ Sound(k', a)
    BY <2>1, <2>2 DEF Flow, Typed, RunInv, CallInv
  <2>4. ASSUME NEW x \in Obj, NEW u \in MayWait(x)
        PROVE  call'[u] = call[u] /\ k'.ercd[u] # "E_OK"
    BY <2>1 DEF MayWait
  <2>5. IInv(MbxCtx)'
    BY <2>1, <2>2, <2>3, <2>4, Carried
  <2>6. ASSUME NEW u \in Task PROVE Untouched(u)
    <3>1. call[u] \notin Calls => k.tskwait[u] = "none" /\ k.state[u] \notin {"NOEXS", "DMT"}
      BY <2>2, MbxCallsApart DEF MInv, Answered
    <3> QED BY <2>1, <3>1 DEF Untouched
  <2>7. MbxTables' /\ Deleting'
    BY <2>1 DEF MInv, MbxTables, Deleting
  <2> QED BY <2>1, <2>5, <2>6, <2>7, QuietStep
<1>2. CASE Next /\ UNCHANGED <<mbx, next, ppk, has>>
  BY <1>2, KernelStep
<1>3. CASE wait_delete /\ UNCHANGED <<mbx, next, ppk, has>>
  BY <1>3, WaitDeleteStep
<1>4. ASSUME NEW t \in Task, MbxTaskStep(t) PROVE MInv' /\ QueueStep
  BY <1>4, ReturnStep, DelMbxStep, CreateMbxStep, SndStep, AtOnceStep, PolFailsStep,
     RcvStep DEF MbxTaskStep
<1>5. CASE del_mbx_end
  BY <1>5, DelMbxEndStep
<1> QED BY <1>1, <1>2, <1>3, <1>4, <1>5 DEF MbxNext

(* At first there is no box, and INIT_TASK has every message.              *)
LEMMA MbxInitInv == MbxInit => MInv /\ \A o \in Obj : Chain(o) = <<>>
<1> SUFFICES ASSUME MbxInit PROVE MInv /\ \A o \in Obj : Chain(o) = <<>>
  OBVIOUS
<1>1. /\ Init /\ mbx = mailbox_initialize /\ next = [m \in Msg |-> NIL]
      /\ ppk = [t \in Task |-> NIL]
      /\ has = [t \in Task |-> IF t = INIT_TASK THEN Msg ELSE {}]
  BY DEF MbxInit
<1>2. /\ call = [t \in Task |-> IF t = INIT_TASK THEN Boot ELSE User]
      /\ event = NoTask
  BY <1>1 DEF Init
<1>3. IInv(MbxCtx)
  <2>1. PICK a : a = MbxCtx
    OBVIOUS
  <2>2. Calls \subseteq a.calls
    BY <2>1, MbxCallsApart DEF MbxCtx
  <2>3. IInv(a)
    BY <1>1, <2>2, InitIInv
  <2> QED BY <2>1, <2>3
<1>4. ASSUME NEW t \in Task PROVE Answered(t) /\ InHand(t) = {}
  <2>1. call[t] \in Calls
    BY <1>2 DEF Calls
  <2> QED BY <2>1, NoHand
<1>5. MbxTables
  BY <1>1 DEF MbxTables, MbxType, mailbox_initialize
<1>6. Deleting
  BY <1>2, MailboxAssumption DEF Deleting
<1>7. ASSUME NEW o \in Obj PROVE BoxOK(o) /\ Chain(o) = <<>>
  <2>1. mbx[o].head = NIL
    BY <1>1 DEF mailbox_initialize
  <2>2. IsList(NIL, next, <<>>)
    BY DEF IsList, IsInjective
  <2>3. Chain(o) = <<>>
    <3>1. Chain(o) = linked(NIL, next)
      BY <2>1 DEF Chain
    <3> QED BY <2>2, <3>1, LinkedIs
  <2>4. InOrder(<<>>, Msgpri)
    BY DEF InOrder
  <2> QED BY <2>1, <2>2, <2>3, <2>4 DEF BoxOK
<1>8. Placed
  <2>1. PICK p \in Place : p = <<"task", INIT_TASK>>
    BY PlacesAre, KernelAssumption
  <2>2. ASSUME NEW m \in Msg, NEW q \in Place PROVE m \in Messages(q) <=> q = p
    <3>1. CASE \E u \in Task : q = <<"task", u>>
      <4>1. PICK u \in Task : q = <<"task", u>>
        BY <3>1
      <4>2. Messages(q) = IF u = INIT_TASK THEN Msg ELSE {}
        BY <1>1, <4>1, PlacesAre
      <4> QED BY <2>1, <4>1, <4>2
    <3>2. CASE \E u \in Task : q = <<"hand", u>>
      <4>1. PICK u \in Task : q = <<"hand", u>>
        BY <3>2
      <4>2. Messages(q) = {}
        BY <1>4, <4>1, PlacesAre
      <4> QED BY <2>1, <4>1, <4>2
    <3>3. CASE \E o \in Obj : q = <<"box", o>>
      <4>1. PICK o \in Obj : q = <<"box", o>>
        BY <3>3
      <4>2. Messages(q) = ToSet(<<>>)
        BY <1>7, <4>1, PlacesAre
      <4>3. Messages(q) = {}
        BY <4>2 DEF ToSet
      <4> QED BY <2>1, <4>1, <4>3
    <3> QED BY <3>1, <3>2, <3>3, PlacesAre
  <2> QED BY <2>1, <2>2 DEF Placed
<1> QED BY <1>3, <1>4, <1>5, <1>6, <1>7, <1>8 DEF MInv

(* What snd_mbx, rcv_mbx and del_mbx of mailbox.c promise together, over   *)
(* links that run through the messages themselves, receives that time out  *)
(* and boxes that are deleted: every message is with a task, in the hand   *)
(* of one or once in a box, and none lies in a box while a task waits for  *)
(* one there.                                                              *)
THEOREM MailboxMessagesExact == ASSUME MailboxUse PROVE MbxSpec => []MessagesExact
<1>1. MInv => MessagesExact
  <2> SUFFICES ASSUME MInv PROVE MessagesExact
    OBVIOUS
  <2>1. PICK a : /\ a = MbxCtx /\ Sound(k, a) /\ Flow(a) /\ k \in KernelType
                 /\ a.calls = MbxCalls /\ \A o \in Obj : a.member[o] = MayWait(o)
    BY Here
  <2>2. MbxTypeOK
    BY <2>1 DEF MbxTypeOK, MInv, MbxTables, Flow, Typed
  <2>3. NoIdleMessage
    <3>1. ASSUME NEW o \in Obj, k.waitq[o] # <<>>
          PROVE  mbx[o].exists /\ mbx[o].head = NIL
      BY <2>1, <3>1, NobodyWaits
    <3> QED BY <3>1 DEF NoIdleMessage
  <2>4. MessageConserved
    <3>1. \A o \in Obj : IsInjective(Chain(o))
      BY DEF MInv, BoxOK, IsList
    <3> QED BY <3>1 DEF MessageConserved, MInv, Placed
  <2> QED BY <2>2, <2>3, <2>4 DEF MessagesExact
<1>2. MInv /\ [MbxNext]_mbxvars => MInv'
  BY MbxStep
<1>3. MbxInit => MInv
  BY MbxInitInv
<1> QED BY <1>1, <1>2, <1>3, PTL DEF MbxSpec

(* The attributes that ittrium.h describes for mailboxes: none, or the     *)
(* order of the messages.                                                  *)
AtrOK == \A o \in Obj : mbx[o].objatr \in {0, TA_MPRI}

(* Only cre_mbx sets an attribute.                                         *)
LEMMA AtrStep ==
  ASSUME MbxTables, AtrOK, Mbxatr \subseteq {0, TA_MPRI}, [MbxNext]_mbxvars
  PROVE  AtrOK'
<1>1. mbx \in MbxType
  BY DEF MbxTables
<1>2. CASE mbx' = mbx
  BY <1>2 DEF AtrOK
<1>3. ASSUME NEW o \in Obj, NEW m, kqueue_insert_mpri(o, m) PROVE AtrOK'
  <2>1. mbx' = mbx \/ mbx' = [mbx EXCEPT ![o].head = m]
    BY <1>3 DEF kqueue_insert_mpri
  <2> QED BY <1>1, <2>1 DEF AtrOK, MbxType
<1>4. ASSUME NEW o \in Obj, NEW m, insert_last(o, m) PROVE AtrOK'
  <2>1. PICK h : mbx' = [mbx EXCEPT ![o].head = h, ![o].tail = m]
    <3>1. PICK h : h = IF mbx[o].head = NIL THEN m ELSE mbx[o].head
      OBVIOUS
    <3>2. mbx' = [mbx EXCEPT ![o].head = h, ![o].tail = m]
      BY <1>1, <1>4, <3>1 DEF insert_last, MbxType
    <3> QED BY <3>2
  <2> QED BY <1>1, <2>1 DEF AtrOK, MbxType
<1>5. ASSUME NEW t \in Task, NEW o \in Obj, NEW atr \in Mbxatr, _cre_mbx(t, o, atr)
      PROVE  AtrOK'
  <2>1. mbx' = [mbx EXCEPT ![o].exists = TRUE, ![o].objatr = atr, ![o].head = NIL]
    BY <1>5 DEF _cre_mbx
  <2> QED BY <1>1, <2>1 DEF AtrOK, MbxType
<1>6. ASSUME NEW t \in Task, NEW o \in Obj, rcv_mbx_at_once(t, o) PROVE AtrOK'
  <2>1. mbx' = [mbx EXCEPT ![o].head = next[@]]
    BY <1>6 DEF rcv_mbx_at_once
  <2> QED BY <1>1, <2>1 DEF AtrOK, MbxType
<1>7. CASE del_mbx_end
  <2>1. PICK o \in Obj : mbx' = [mbx EXCEPT ![o].exists = FALSE, ![o].head = NIL]
    BY <1>7 DEF del_mbx_end
  <2> QED BY <1>1, <2>1 DEF AtrOK, MbxType
<1>8. ASSUME NEW t \in Task, NEW o \in Obj, NEW m \in Msg, snd_mbx(t, o, m) PROVE AtrOK'
  BY <1>2, <1>3, <1>4, <1>8 DEF snd_mbx, __snd_mbx
<1>9. ASSUME NEW t \in Task, MbxTaskStep(t) PROVE AtrOK'
  BY <1>2, <1>5, <1>6, <1>8, <1>9
  DEF MbxTaskStep, rcv_mbx_return, del_mbx, prcv_mbx_fails, rcv_mbx
<1> QED BY <1>2, <1>7, <1>9 DEF MbxNext, mbxvars

(* A step of the boxes is one of MessageQueue, or none.                    *)
LEMMA QueueStepImplements ==
  ASSUME AtrOK, QueueStep PROVE [Queue!Next]_(Queue!vars)
<1> DEFINE q == [o \in Obj |-> Chain(o)]
           b == {o \in Obj : mbx[o].objatr = TA_MPRI}
<1>1. \A o \in Obj : o \in b <=> ByPriority(o)
  BY DEF AtrOK, ByPriority, TA_MPRI
<1>2. CASE \A o \in Obj : SameBox(o)
  <2>1. q' = q /\ b' = b
    BY <1>2 DEF SameBox
  <2> QED BY <2>1 DEF Queue!vars
<1>3. ASSUME NEW o \in Obj, Took(o) PROVE [Queue!Next]_(Queue!vars)
  <2>1. q[o] # <<>> /\ q' = [q EXCEPT ![o] = Tail(@)] /\ b' = b
    BY <1>3 DEF Took, Others, SameBox
  <2> QED BY <2>1 DEF Queue!Next, Queue!Get
<1>4. ASSUME NEW o \in Obj, Emptied(o) PROVE [Queue!Next]_(Queue!vars)
  <2>1. q' = [q EXCEPT ![o] = <<>>] /\ b' \in {b, b \union {o}, b \ {o}}
    <3>1. q' = [q EXCEPT ![o] = <<>>]
      BY <1>4 DEF Emptied, Others, SameBox
    <3>2. b' = b \union {o} \/ b' = b \ {o}
      BY <1>4 DEF Emptied, Others, SameBox
    <3> QED BY <3>1, <3>2
  <2> QED BY <2>1 DEF Queue!Next, Queue!Make
<1>5. ASSUME NEW o \in Obj, NEW m \in Msg, Added(o, m) PROVE [Queue!Next]_(Queue!vars)
  <2>1. PICK i \in 1..(Len(Chain(o)) + 1) :
          /\ Chain(o)' = InsertAt(Chain(o), i, m)
          /\ \A j \in 1..(i - 1) : ByPriority(o) => Msgpri[Chain(o)[j]] <= Msgpri[m]
          /\ \A j \in i..Len(Chain(o)) : ByPriority(o) /\ Msgpri[Chain(o)[j]] > Msgpri[m]
          /\ mbx'[o].objatr = mbx[o].objatr /\ Others(o)
    BY <1>5 DEF Added
  <2>2. q[o] = Chain(o)
    OBVIOUS
  <2>3. q' = [q EXCEPT ![o] = InsertAt(@, i, m)] /\ b' = b
    BY <2>1 DEF Others, SameBox
  <2>4. \A c : Queue!InsertAt(c, i, m) = InsertAt(c, i, m)
    BY DEF Queue!InsertAt, InsertAt
  <2>5. q' = [q EXCEPT ![o] = Queue!InsertAt(@, i, m)]
    BY <2>3, <2>4
  <2>6. i \in 1..(Len(q[o]) + 1)
    BY <2>1, <2>2
  <2>7. /\ \A j \in 1..(i - 1) : o \in b => Msgpri[q[o][j]] <= Msgpri[m]
        /\ \A j \in i..Len(q[o]) : o \in b /\ Msgpri[q[o][j]] > Msgpri[m]
    BY <1>1, <2>1, <2>2
  <2>8. Queue!Put(o, m)
    <3> HIDE DEF q, b
    <3>1. \E h \in 1..Len(q[o]) + 1 :
            /\ q' = [q EXCEPT ![o] = Queue!InsertAt(@, h, m)]
            /\ \A j \in 1..(h - 1) : o \in b => Msgpri[q[o][j]] <= Msgpri[m]
            /\ \A j \in h..Len(q[o]) : o \in b /\ Msgpri[q[o][j]] > Msgpri[m]
            /\ UNCHANGED b
      BY <2>3, <2>5, <2>6, <2>7
    <3> QED BY <3>1 DEF q, b, Queue!Put
  <2> QED BY <2>8 DEF Queue!Next
<1> QED BY <1>2, <1>3, <1>4, <1>5 DEF QueueStep

(* The messages linked through their own first words, from mq_head to      *)
(* mq_tail, are the queue that the attributes name (mailbox.c): each call  *)
(* is one step of MessageQueue or none.                                    *)
THEOREM MailboxImplementsQueue ==
  ASSUME MailboxUse, Mbxatr \subseteq {0, TA_MPRI} PROVE MbxSpec => QueueSpec
<1>1. MbxInit => MInv /\ AtrOK /\ Queue!Init
  <2> SUFFICES ASSUME MbxInit PROVE MInv /\ AtrOK /\ Queue!Init
    OBVIOUS
  <2>1. MInv /\ \A o \in Obj : Chain(o) = <<>>
    BY MbxInitInv
  <2>2. \A o \in Obj : mbx[o].objatr = 0
    BY DEF MbxInit, mailbox_initialize
  <2>3. AtrOK
    BY <2>2 DEF AtrOK
  <2>4. Queue!Init
    BY <2>1, <2>2 DEF Queue!Init, TA_MPRI
  <2> QED BY <2>1, <2>3, <2>4
<1>2. MInv /\ AtrOK /\ [MbxNext]_mbxvars =>
        MInv' /\ AtrOK' /\ [Queue!Next]_(Queue!vars)
  <2> SUFFICES ASSUME MInv, AtrOK, [MbxNext]_mbxvars
               PROVE  MInv' /\ AtrOK' /\ [Queue!Next]_(Queue!vars)
    OBVIOUS
  <2>1. MInv' /\ QueueStep
    BY MbxStep
  <2>2. AtrOK'
    BY AtrStep DEF MInv
  <2> QED BY <2>1, <2>2, QueueStepImplements
<1> QED BY <1>1, <1>2, PTL DEF MbxSpec, QueueSpec, Queue!Spec
=============================================================================
