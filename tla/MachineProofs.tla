---------------------------- MODULE MachineProofs ----------------------------
(***************************************************************************)
(* Machine: what the ports promise the kernel, and the rings of the uart.  *)
(***************************************************************************)
EXTENDS Machine, TLAPS, SequenceTheorems, FiniteSetTheorems, WellFoundedInduction

------------------------------------------------------------------------------
(* The port.  What is not masked above the timer's interrupt would break   *)
(* into its walk through the queue, see README.                            *)
TickAlone == \A v \in Vec : <<"tick", v>> \notin Nest

Node == Task \union {QHead}
Place == {"user", "cs", "in", "out", "back", "ret"}
Away == {"user", "in", "out", "back", "ret"}       \* where a task can lose the processor
Context == [at : Away \union {"popped", "handler"}, mask : BOOLEAN]
FrameType == [vec : Vec, at : {"run", "done", "read", "enter", "walk"}, event : Node]

PortTypes ==
  /\ port \in Ports \union {NoPort}
  /\ state \in [Task -> {"none", "ready", "wait"}]
  /\ runtsk \in Task \union {NoTask}
  /\ ctx \in [Task -> Context]
  /\ run \in [who : Task \union {IdleLoop, Nobody},
              at  : Place \union {"returned", "test", "loop", "sleep", "lock", "spin"}]
  /\ mask \in BOOLEAN /\ pendsv \in BOOLEAN
  /\ irq \in Seq(FrameType)
  /\ int_nesting \in Nat /\ timer_nesting \in Nat
  /\ queue \in [next : [Node -> Node], prev : [Node -> Node]]
  /\ DOMAIN count = Task

(* Who has the processor, and what may have become of its state.  On       *)
(* cortex-m3 a task that waits goes on until PendSV takes the processor.   *)
Running ==
  /\ runtsk \in Task => run.who = runtsk
  /\ run.who = Nobody => run.at \in {"out", "returned"}
  /\ run.who \in Task =>
       /\ runtsk = run.who
       /\ run.at \in Place
       /\ \/ state[run.who] = "ready"
          \/ /\ state[run.who] = "wait"
             /\ \/ run.at \in {"in", "out"}
                \/ run.at \in {"back", "ret"} /\ pendsv

(* Interrupts and the masks.                                               *)
Masked ==
  /\ run.at = "cs" => mask /\ irq = <<>> /\ run.who \in Task
  /\ ~Nests /\ irq /= <<>> => mask /\ Len(irq) = 1
  /\ pendsv => Is("cortex-m3")
  /\ Is("cortex-m3") /\ irq = <<>> /\ mask => run.at \in {"cs", "in", "back"}
  /\ Is("cortex-m3") /\ run.who = IdleLoop => run.at \in {"loop", "sleep"}
  /\ Is("cortex-m3") => \A t \in Task : ~ctx[t].mask

(* int_nesting counts the handlers; on tms320c54x one more may stay from   *)
(* the idle loop.                                                          *)
Nesting ==
  \/ int_nesting = Len(irq)
  \/ Is("tms320c54x") /\ int_nesting = Len(irq) + 1

(* What the end of the outermost handler may resume is what it came upon.  *)
Saved ==
  /\ (Is("cortex-a53") \/ Nests) /\ irq /= <<>> /\ runtsk \in Task /\ int_nesting = Len(irq)
       => ctx[runtsk].at = run.at
  /\ \A t \in Task \ {run.who} : state[t] /= "none" => ctx[t].at \in Away
  /\ \A t \in Task \ {run.who} : state[t] /= "none" /\ ctx[t].at = "user" => state[t] = "ready"

(* The dispatch() after a task's end leads to another, or to the idle loop.*)
LeftForGood ==
  /\ run.who = Nobody /\ run.at = "returned" =>
       Is("cortex-m3") /\ pendsv /\ (irq = <<>> => ~mask)
  /\ run.who = Nobody /\ port \in {"linux-user", "tms320c54x"} => Ready /= {}
NoneLeft == ~LoneExit => LeftForGood

(* The timer's queue: the nodes of the tasks that wait with a timeout, on  *)
(* one ring through the head, and the handler's place in it.               *)
Timed == {t \in Task : state[t] = "wait" /\ queue.next[t] /= t}
Linked == Timed \union {QHead}
Ring ==
  /\ \A n \in Linked : /\ queue.next[n] \in Linked /\ queue.prev[n] \in Linked
                       /\ queue.prev[queue.next[n]] = n /\ queue.next[queue.prev[n]] = n
  /\ \E f \in [Node -> Nat] :
       \A n \in Linked : queue.next[n] /= QHead => f[n] < f[queue.next[n]]
Walk ==
  /\ \A i \in 1..(Len(irq) - 1) : irq[i].at \in {"run", "done"} /\ irq[i].vec = "uart"
  /\ irq /= <<>> /\ Last(irq).vec = "uart" => Last(irq).at \in {"run", "done"}
  /\ irq /= <<>> /\ Last(irq).at = "enter" => Event = queue.next[QHead]
  /\ irq /= <<>> /\ Last(irq).at = "walk" => Event \in Linked /\ mask
  /\ timer_nesting \in {0, 1}
  /\ timer_nesting /= 0 => irq /= <<>> /\ Last(irq).at = "walk"

PortInv ==
  /\ PortTypes /\ Running /\ Masked /\ Nesting /\ Saved /\ NoneLeft
  /\ Ring /\ Walk

(* Where each task is, as the abstract threads see it.                     *)
Pc == [t \in Task |-> IF run.who = t THEN run.at
                      ELSE IF state[t] = "none" THEN "none" ELSE ctx[t].at]
Step == [Promise!Next]_(Promise!vars)

------------------------------------------------------------------------------
LEMMA LeastNumber ==
  ASSUME NEW S \in SUBSET Nat, S # {}
  PROVE  \E m \in S : \A x \in S : m <= x
<1> DEFINE T == {0..x : x \in S}
           R == StrictSubsetOrdering(Nat)
           F == FiniteSubsetsOf(Nat)
<1>1. T \subseteq F /\ T # {}
  <2>1. \A x \in S : 0..x \in SUBSET Nat /\ IsFiniteSet(0..x)
    BY FS_Interval
  <2> QED BY <2>1 DEF FiniteSubsetsOf
<1>2. IsWellFoundedOn(R, F)
  BY FS_StrictSubsetOrderingWellFounded
<1> HIDE DEF T, R, F
<1>3. PICK t \in T : \A u \in T : <<u, t>> \notin R
  BY <1>1, <1>2, WFMin
<1>4. PICK m \in S : t = 0..m
  BY DEF T
<1>5. ASSUME NEW x \in S, x < m PROVE FALSE
  <2>1. 0..x \in SUBSET Nat /\ 0..m \in SUBSET Nat /\ 0..x \subseteq 0..m
    BY <1>5
  <2>2. 0..x # 0..m
    <3>1. m \in 0..m /\ m \notin 0..x
      BY <1>5
    <3> QED BY <3>1
  <2>3. <<0..x, 0..m>> \in R
    BY <2>1, <2>2 DEF R, StrictSubsetOrdering
  <2>4. 0..x \in T
    BY DEF T
  <2> QED BY <1>3, <1>4, <2>3, <2>4
<1> QED BY <1>5

(* Of ready tasks there is a highest.                                      *)
LEMMA Chosen ==
  ASSUME PortTypes
  PROVE  /\ schedtsk \in Ready \union {NoTask}
         /\ schedtsk = NoTask <=> Ready = {}
         /\ NoTask \notin Ready
<1>1. Ready \subseteq Task /\ NoTask \notin Task /\ Ready \in SUBSET Nat
  BY PortAssumption DEF Ready
<1>2. CASE Ready = {}
  BY <1>1, <1>2 DEF schedtsk
<1>3. CASE Ready /= {}
  <2>1. \E t \in Ready : \A u \in Ready : t <= u
    BY <1>1, <1>3, LeastNumber
  <2> QED BY <1>1, <1>3, <2>1 DEF schedtsk
<1> QED BY <1>2, <1>3

(* The stack of handlers.                                                  *)
LEMMA TopOf ==
  ASSUME NEW S, NEW s \in Seq(S), s /= <<>>
  PROVE  /\ Len(s) \in Nat \ {0} /\ Last(s) \in S
         /\ Front(s) \in Seq(S) /\ Len(Front(s)) = Len(s) - 1
         /\ \A i \in 1..(Len(s) - 1) : Front(s)[i] = s[i]
         /\ Last(s) = s[Len(s)]
<1>1. Len(s) \in Nat \ {0} /\ s[Len(s)] \in S
  OBVIOUS
<1>2. PICK d : d = SubSeq(s, 1, Len(s) - 1)
  OBVIOUS
<1>3. \A i \in 1..(Len(s) - 1) : s[i] \in S
  OBVIOUS
<1>4. /\ d \in Seq(S) /\ Len(d) = IF 1 <= Len(s) - 1 THEN Len(s) - 1 - 1 + 1 ELSE 0
      /\ \A i \in 1..(Len(s) - 1 - 1 + 1) : d[i] = s[1 + i - 1]
  BY <1>1, <1>2, <1>3, SubSeqProperties
<1>5. Len(d) = Len(s) - 1 /\ \A i \in 1..(Len(s) - 1) : d[i] = s[i]
  <2>1. \A n \in Nat \ {0} : /\ (IF 1 <= n - 1 THEN n - 1 - 1 + 1 ELSE 0) = n - 1
                             /\ 1..(n - 1 - 1 + 1) = 1..(n - 1)
    OBVIOUS
  <2>2. \A i \in 1..(Len(s) - 1) : 1 + i - 1 = i
    OBVIOUS
  <2> QED BY <1>1, <1>4, <2>1, <2>2
<1>6. Front(s) = d /\ Last(s) = s[Len(s)]
  BY <1>2 DEF Front, Last
<1>7. Last(s) \in S /\ Last(s) = s[Len(s)]
  BY <1>1, <1>6
<1>8. Front(s) \in Seq(S) /\ Len(Front(s)) = Len(s) - 1
  BY <1>4, <1>5, <1>6
<1>9. \A i \in 1..(Len(s) - 1) : Front(s)[i] = s[i]
  BY <1>5, <1>6
<1> QED BY <1>1, <1>7, <1>8, <1>9

LEMMA NewTop ==
  ASSUME NEW S, NEW s \in Seq(S), s /= <<>>, NEW e \in S
  PROVE  LET n == Append(Front(s), e)
         IN  /\ n \in Seq(S) /\ n /= <<>> /\ Len(n) = Len(s) /\ Last(n) = e
             /\ \A i \in 1..(Len(s) - 1) : n[i] = s[i]
<1> DEFINE n == Append(Front(s), e)
<1>1. /\ Len(s) \in Nat \ {0} /\ Front(s) \in Seq(S) /\ Len(Front(s)) = Len(s) - 1
      /\ \A i \in 1..(Len(s) - 1) : Front(s)[i] = s[i]
  BY TopOf
<1> HIDE DEF n
<1>2. n \in Seq(S) /\ Len(n) = Len(s) /\ n[Len(s)] = e
  BY <1>1 DEF n
<1>3. \A i \in 1..(Len(s) - 1) : n[i] = s[i]
  BY <1>1 DEF n
<1>4. n /= <<>>
  BY <1>1, <1>2
<1> QED BY <1>2, <1>3, <1>4 DEF n, Last

LEMMA MoreTop ==
  ASSUME NEW S, NEW s \in Seq(S), NEW e \in S
  PROVE  LET n == Append(s, e)
         IN  /\ n \in Seq(S) /\ n /= <<>> /\ Len(n) = Len(s) + 1 /\ Last(n) = e
             /\ \A i \in 1..Len(s) : n[i] = s[i]
<1> DEFINE n == Append(s, e)
<1>1. n \in Seq(S) /\ Len(n) = Len(s) + 1 /\ n[Len(s) + 1] = e /\ \A i \in 1..Len(s) : n[i] = s[i]
  OBVIOUS
<1>2. Len(s) \in Nat /\ n /= <<>>
  OBVIOUS
<1> HIDE DEF n
<1> QED BY <1>1, <1>2 DEF n, Last

------------------------------------------------------------------------------
(* The timer's queue.                                                      *)
LEMMA NodeOK == QHead \notin Task /\ QHead \in Node /\ Task \subseteq Node
BY PortAssumption DEF QHead, Node

LEMMA InsertRing ==
  ASSUME PortTypes, Ring, NEW r \in Task, state[r] = "ready",
         state' = [state EXCEPT ![r] = "wait"], queue' = kqueue_insert(queue, r)
  PROVE  Ring' /\ queue' \in [next : [Node -> Node], prev : [Node -> Node]]
<1> DEFINE last == queue.prev[QHead]
<1> USE NodeOK
<1>1. /\ queue.next \in [Node -> Node] /\ queue.prev \in [Node -> Node]
      /\ state \in [Task -> {"none", "ready", "wait"}]
  BY DEF PortTypes
<1>2. last \in Linked /\ last \in Node /\ r \notin Linked /\ QHead \in Linked /\ last /= r
      /\ queue.next[last] = QHead
  BY <1>1 DEF Ring, Linked, Timed
<1>3. /\ queue'.next = [queue.next EXCEPT ![r] = QHead, ![last] = r]
      /\ queue'.prev = [queue.prev EXCEPT ![r] = last, ![QHead] = r]
      /\ queue' = [next |-> queue'.next, prev |-> queue'.prev]
  BY DEF kqueue_insert
<1> HIDE DEF last
<1>4. queue'.next \in [Node -> Node] /\ queue'.prev \in [Node -> Node]
  BY <1>1, <1>2, <1>3
<1>5. /\ queue'.next[r] = QHead /\ queue'.next[last] = r
      /\ queue'.prev[r] = last /\ queue'.prev[QHead] = r
      /\ \A n \in Node \ {r, last} : queue'.next[n] = queue.next[n]
      /\ \A n \in Node \ {r, QHead} : queue'.prev[n] = queue.prev[n]
  BY <1>1, <1>2, <1>3
<1>6. Linked' = Linked \union {r}
  <2>1. \A t \in Task : t \in Timed' <=> (t \in Timed \/ t = r)
    <3> SUFFICES ASSUME NEW t \in Task PROVE t \in Timed' <=> (t \in Timed \/ t = r)
      OBVIOUS
    <3>1. CASE t = r
      BY <3>1, <1>1, <1>5 DEF Timed
    <3>2. CASE t /= r /\ t = last
      BY <3>2, <1>1, <1>2, <1>5 DEF Timed, Linked
    <3>3. CASE t /= r /\ t /= last
      BY <3>3, <1>1, <1>5 DEF Timed
    <3> QED BY <3>1, <3>2, <3>3
  <2> QED BY <2>1 DEF Linked, Timed
<1>7. /\ \A n \in Linked : /\ queue.next[n] \in Linked /\ queue.prev[n] \in Linked
                           /\ queue.prev[queue.next[n]] = n /\ queue.next[queue.prev[n]] = n
      /\ Linked \subseteq Node
  BY DEF Ring, Linked, Timed
<1>8. \A n \in Linked' : /\ queue'.next[n] \in Linked' /\ queue'.prev[n] \in Linked'
                         /\ queue'.prev[queue'.next[n]] = n /\ queue'.next[queue'.prev[n]] = n
  <2> SUFFICES ASSUME NEW n \in Linked'
               PROVE  /\ queue'.next[n] \in Linked' /\ queue'.prev[n] \in Linked'
                      /\ queue'.prev[queue'.next[n]] = n /\ queue'.next[queue'.prev[n]] = n
    OBVIOUS
  <2>1. n \in Linked \/ n = r
    BY <1>6
  <2>2. CASE n = r
    BY <2>2, <1>2, <1>5, <1>6
  <2>3. CASE n \in Linked /\ n = last
    BY <2>3, <1>2, <1>5, <1>6, <1>7 DEF last
  <2>4. CASE n \in Linked /\ n /= last /\ n = QHead
    BY <2>4, <1>2, <1>5, <1>6, <1>7 DEF last
  <2>5. CASE n \in Linked /\ n /= last /\ n /= QHead
    <3>1. queue'.next[n] = queue.next[n] /\ queue'.prev[n] = queue.prev[n]
      BY <2>5, <1>2, <1>5, <1>7
    <3>2. queue.next[n] \in Linked /\ queue.next[n] /= QHead /\ queue.next[n] /= r
      BY <2>5, <1>2, <1>7 DEF last
    <3>3. queue.prev[n] \in Linked /\ queue.prev[n] /= last /\ queue.prev[n] /= r
      BY <2>5, <1>2, <1>7
    <3> QED BY <3>1, <3>2, <3>3, <1>5, <1>6, <1>7
  <2> QED BY <2>1, <2>2, <2>3, <2>4, <2>5
<1>9. \E f \in [Node -> Nat] : \A n \in Linked' : queue'.next[n] /= QHead => f[n] < f[queue'.next[n]]
  <2>1. PICK f \in [Node -> Nat] :
          \A n \in Linked : queue.next[n] /= QHead => f[n] < f[queue.next[n]]
    BY DEF Ring
  <2> DEFINE g == [f EXCEPT ![r] = f[last] + 1]
  <2>2. g \in [Node -> Nat] /\ g[r] = f[last] + 1 /\ \A n \in Node \ {r} : g[n] = f[n]
    BY <1>2
  <2> HIDE DEF g
  <2>3. ASSUME NEW n \in Linked', queue'.next[n] /= QHead PROVE g[n] < g[queue'.next[n]]
    <3>1. n \in Linked /\ n /= r
      BY <2>3, <1>5, <1>6
    <3>2. CASE n = last
      BY <3>2, <3>1, <2>2, <1>2, <1>5
    <3>3. CASE n /= last
      <4>1. queue'.next[n] = queue.next[n] /\ queue.next[n] \in Linked /\ n \in Node
        BY <3>1, <3>3, <1>5, <1>7
      <4>2. f[n] < f[queue.next[n]]
        BY <4>1, <3>1, <2>1, <2>3
      <4>3. queue.next[n] \in Node /\ queue.next[n] /= r
        BY <4>1, <1>2, <1>7
      <4> QED BY <4>1, <4>2, <4>3, <3>1, <2>2
    <3> QED BY <3>2, <3>3
  <2> QED BY <2>2, <2>3
<1> QED BY <1>3, <1>4, <1>8, <1>9 DEF Ring

(* A wait without a timeout: its node stays apart.                         *)
LEMMA ApartRing ==
  ASSUME PortTypes, Ring, NEW r \in Task, state[r] = "ready",
         state' = [state EXCEPT ![r] = "wait"],
         queue' = [next |-> [queue.next EXCEPT ![r] = r], prev |-> [queue.prev EXCEPT ![r] = r]]
  PROVE  Ring' /\ queue' \in [next : [Node -> Node], prev : [Node -> Node]]
<1> USE NodeOK
<1>1. /\ queue.next \in [Node -> Node] /\ queue.prev \in [Node -> Node]
      /\ state \in [Task -> {"none", "ready", "wait"}]
  BY DEF PortTypes
<1>2. r \notin Linked /\ Linked \subseteq Node
  BY <1>1 DEF Linked, Timed
<1>3. /\ queue'.next[r] = r
      /\ \A n \in Node \ {r} : queue'.next[n] = queue.next[n] /\ queue'.prev[n] = queue.prev[n]
  BY <1>1
<1>4. Linked' = Linked
  <2>1. \A t \in Task : t \in Timed' <=> t \in Timed
    BY <1>1, <1>3 DEF Timed
  <2> QED BY <2>1 DEF Linked, Timed
<1> QED BY <1>1, <1>2, <1>3, <1>4 DEF Ring

(* The end of a wait takes its node out of the ring, if it is in.          *)
LEMMA RemoveRing ==
  ASSUME PortTypes, Ring, NEW x \in Task, state[x] = "wait",
         state' = [state EXCEPT ![x] = "ready"], queue' = kqueue_remove(queue, x)
  PROVE  /\ Ring' /\ queue' \in [next : [Node -> Node], prev : [Node -> Node]]
         /\ Linked' = Linked \ {x}
<1> USE NodeOK
<1>1. /\ queue.next \in [Node -> Node] /\ queue.prev \in [Node -> Node]
      /\ state \in [Task -> {"none", "ready", "wait"}]
      /\ queue \in [next : [Node -> Node], prev : [Node -> Node]]
  BY DEF PortTypes
<1>2. /\ \A n \in Linked : /\ queue.next[n] \in Linked /\ queue.prev[n] \in Linked
                           /\ queue.prev[queue.next[n]] = n /\ queue.next[queue.prev[n]] = n
      /\ Linked \subseteq Node /\ QHead \in Linked
  BY DEF Ring, Linked, Timed
<1>3. PICK f \in [Node -> Nat] :
        \A n \in Linked : queue.next[n] /= QHead => f[n] < f[queue.next[n]]
  BY DEF Ring
<1>4. CASE queue.next[x] = x
  <2>1. queue' = queue
    BY <1>4 DEF kqueue_remove
  <2>2. Timed' = Timed /\ x \notin Timed
    BY <2>1, <1>1, <1>4 DEF Timed
  <2>3. Linked' = Linked /\ Linked = Linked \ {x}
    BY <2>2 DEF Linked
  <2>4. Ring'
    BY <2>1, <2>3 DEF Ring
  <2> QED BY <2>1, <2>3, <2>4, <1>1
<1>5. CASE queue.next[x] /= x
  <2> DEFINE p == queue.prev[x]
             s == queue.next[x]
  <2>1. x \in Linked /\ p \in Linked /\ s \in Linked /\ p \in Node /\ s \in Node
        /\ queue.next[p] = x /\ queue.prev[s] = x /\ s /= x
    BY <1>2, <1>5 DEF Linked, Timed
  <2>2. p /= x
    BY <2>1
  <2>3. /\ queue'.next = [queue.next EXCEPT ![p] = s]
        /\ queue'.prev = [queue.prev EXCEPT ![s] = p]
        /\ queue' = [next |-> queue'.next, prev |-> queue'.prev]
    BY <1>5 DEF kqueue_remove
  <2> HIDE DEF p, s
  <2>4. /\ queue'.next[p] = s /\ queue'.prev[s] = p
        /\ \A n \in Node \ {p} : queue'.next[n] = queue.next[n]
        /\ \A n \in Node \ {s} : queue'.prev[n] = queue.prev[n]
        /\ queue'.next \in [Node -> Node] /\ queue'.prev \in [Node -> Node]
    BY <1>1, <2>1, <2>3
  <2>5. p = s => p = QHead
    <3> SUFFICES ASSUME p = s, p /= QHead PROVE FALSE
      OBVIOUS
    <3>1. f[p] < f[x]
      BY <1>3, <2>1, NodeOK
    <3>2. queue.next[x] /= QHead /\ f[x] < f[queue.next[x]]
      BY <1>3, <2>1 DEF s
    <3> QED BY <3>1, <3>2, <2>1 DEF s
  <2>6. Linked' = Linked \ {x}
    <3>1. \A t \in Task : t \in Timed' <=> (t \in Timed /\ t /= x)
      <4> SUFFICES ASSUME NEW t \in Task PROVE t \in Timed' <=> (t \in Timed /\ t /= x)
        OBVIOUS
      <4>1. CASE t = x
        BY <4>1, <1>1 DEF Timed
      <4>2. CASE t /= x /\ t = p
        BY <4>2, <1>1, <2>1, <2>4, <2>5 DEF Timed
      <4>3. CASE t /= x /\ t /= p
        BY <4>3, <1>1, <2>4 DEF Timed
      <4> QED BY <4>1, <4>2, <4>3
    <3> QED BY <3>1 DEF Linked, Timed
  <2>7. \A n \in Linked' : /\ queue'.next[n] \in Linked' /\ queue'.prev[n] \in Linked'
                           /\ queue'.prev[queue'.next[n]] = n /\ queue'.next[queue'.prev[n]] = n
    <3> SUFFICES ASSUME NEW n \in Linked'
                 PROVE  /\ queue'.next[n] \in Linked' /\ queue'.prev[queue'.next[n]] = n
                        /\ queue'.prev[n] \in Linked' /\ queue'.next[queue'.prev[n]] = n
      OBVIOUS
    <3>1. n \in Linked /\ n /= x /\ n \in Node
      BY <2>6, <1>2
    <3>2. queue'.next[n] \in Linked' /\ queue'.prev[queue'.next[n]] = n
      <4>1. CASE n = p
        BY <4>1, <2>1, <2>4, <2>6
      <4>2. CASE n /= p
        <5>1. queue'.next[n] = queue.next[n] /\ queue.next[n] \in Linked
          BY <4>2, <3>1, <2>4, <1>2
        <5>2. queue.next[n] /= x /\ queue.next[n] /= s
          BY <4>2, <3>1, <2>1, <1>2 DEF p
        <5> QED BY <5>1, <5>2, <2>4, <2>6, <1>2, <3>1
      <4> QED BY <4>1, <4>2
    <3>3. queue'.prev[n] \in Linked' /\ queue'.next[queue'.prev[n]] = n
      <4>1. CASE n = s
        BY <4>1, <2>1, <2>2, <2>4, <2>6
      <4>2. CASE n /= s
        <5>1. queue'.prev[n] = queue.prev[n] /\ queue.prev[n] \in Linked
          BY <4>2, <3>1, <2>4, <1>2
        <5>2. queue.prev[n] /= x /\ queue.prev[n] /= p
          BY <4>2, <3>1, <2>1, <1>2 DEF s
        <5> QED BY <5>1, <5>2, <2>4, <2>6, <1>2, <3>1
      <4> QED BY <4>1, <4>2
    <3> QED BY <3>2, <3>3
  <2>8. \A n \in Linked' : queue'.next[n] /= QHead => f[n] < f[queue'.next[n]]
    <3> SUFFICES ASSUME NEW n \in Linked', queue'.next[n] /= QHead
                 PROVE  f[n] < f[queue'.next[n]]
      OBVIOUS
    <3>1. n \in Linked /\ n \in Node
      BY <2>6, <1>2
    <3>2. CASE n = p
      <4>1. f[p] < f[x]
        BY <1>3, <2>1, NodeOK
      <4>2. f[x] < f[s]
        BY <3>2, <1>3, <2>1, <2>4 DEF s
      <4>3. f[p] \in Nat /\ f[x] \in Nat /\ f[s] \in Nat
        BY <2>1
      <4> QED BY <4>1, <4>2, <4>3, <3>2, <2>4
    <3>3. CASE n /= p
      BY <3>1, <3>3, <1>3, <2>4
    <3> QED BY <3>2, <3>3
  <2> QED BY <2>3, <2>4, <2>6, <2>7, <2>8 DEF Ring
<1> QED BY <1>4, <1>5

------------------------------------------------------------------------------
(* What the abstract threads are at a switch, and between.                 *)
LEMMA Sections ==
  ASSUME PortTypes, Running, Saved, run.at /= "cs"
  PROVE  \A t \in Task : Pc[t] /= "cs"
<1> SUFFICES ASSUME NEW t \in Task PROVE Pc[t] /= "cs"
  OBVIOUS
<1>1. CASE run.who = t
  BY <1>1 DEF Pc
<1>2. CASE run.who /= t /\ state[t] /= "none"
  BY <1>2 DEF Pc, Saved, Away
<1>3. CASE run.who /= t /\ state[t] = "none"
  BY <1>3 DEF Pc
<1> QED BY <1>1, <1>2, <1>3

LEMMA UnchangedRing ==
  ASSUME Ring, state' = state, queue' = queue
  PROVE  Ring' /\ Linked' = Linked
<1>1. Timed' = Timed /\ Linked' = Linked
  BY DEF Timed, Linked
<1> QED BY <1>1 DEF Ring

LEMMA NoHandler ==
  ASSUME irq' = <<>>, timer_nesting' = 0
  PROVE  Walk'
BY DEF Walk

(* Only where handlers return, or none was, is there a switch.             *)
LEMMA SwitchInv ==
  ASSUME PortInv, NEW saved \in [Task -> Context], NEW nesting \in Nat,
         switch(saved, nesting), port' = port, state' = state,
         timer_nesting' = timer_nesting, timer_nesting = 0, queue' = queue, count' = count,
         irq' = <<>>, pendsv' = FALSE,
         nesting = 0 \/ (Is("tms320c54x") /\ nesting = 1),
         Is("cortex-m3") => \A t \in Task : ~saved[t].mask,
         \A t \in Task : state[t] /= "none" => saved[t].at \in Away,
         \A t \in Task : state[t] /= "none" /\ saved[t].at = "user" => state[t] = "ready"
  PROVE  /\ PortInv'
         /\ Pc' = [t \in Task |-> IF state[t] = "none" THEN "none" ELSE saved[t].at]
<1>1. /\ PortTypes /\ Ring /\ Walk /\ NoneLeft
      /\ schedtsk \in Ready \union {NoTask} /\ (schedtsk = NoTask <=> Ready = {})
      /\ Ready \subseteq Task /\ NoTask \notin Task
  BY Chosen, PortAssumption DEF PortInv, Ready
<1>2. Popped \in Context /\ Popped.mask = FALSE
  BY DEF Popped, Context
<1>5. <<>> \in Seq(FrameType)
  OBVIOUS
<1>3. CASE schedtsk = NoTask
  <2>1. /\ runtsk' = NoTask /\ run' = [who |-> IdleLoop, at |-> IdleStart]
        /\ mask' = FALSE /\ ctx' = saved
        /\ int_nesting' = IF Is("tms320c54x") THEN 1 ELSE nesting
    BY <1>3 DEF switch
  <2>2. IdleStart \in {"test", "spin", "loop"}
    BY DEF IdleStart
  <2>3. PortTypes'
    BY <1>1, <1>5, <2>1, <2>2 DEF PortTypes
  <2>4. IdleLoop \notin Task /\ Nobody /= IdleLoop /\ run'.who = IdleLoop /\ run'.at \in {"test", "spin", "loop"}
    BY <2>1, <2>2, PortAssumption
  <2>5. Running'
    BY <1>1, <2>1, <2>4 DEF Running
  <2>6. Masked'
    BY <2>1, <2>4 DEF Masked, Is, Nests, IdleStart
  <2>7. Nesting'
    BY <2>1 DEF Nesting, Is
  <2>8. Saved'
    BY <2>1, <2>4 DEF Saved, Is
  <2>9. NoneLeft'
    BY <2>4 DEF NoneLeft, LeftForGood
  <2>10. Ring' /\ Walk'
    BY <1>1, UnchangedRing, NoHandler
  <2>11. Pc' = [t \in Task |-> IF state[t] = "none" THEN "none" ELSE saved[t].at]
    BY <2>1, <2>4 DEF Pc
  <2> QED BY <2>3, <2>5, <2>6, <2>7, <2>8, <2>9, <2>10, <2>11 DEF PortInv
<1>4. CASE schedtsk /= NoTask
  <2> DEFINE s == schedtsk
  <2>1. /\ runtsk' = s /\ run' = [who |-> s, at |-> saved[s].at]
        /\ mask' = saved[s].mask /\ ctx' = [saved EXCEPT ![s] = Popped]
        /\ int_nesting' = nesting
    BY <1>4 DEF switch
  <2>2. s \in Task /\ state[s] = "ready"
    BY <1>1, <1>4 DEF Ready
  <2> HIDE DEF s
  <2>3. saved[s] \in Context /\ saved[s].at \in Away /\ saved[s].mask \in BOOLEAN
    BY <2>2 DEF Context
  <2>4. /\ run'.who = s /\ run'.at = saved[s].at
        /\ ctx' \in [Task -> Context] /\ ctx'[s] = Popped
        /\ \A t \in Task \ {s} : ctx'[t] = saved[t]
    BY <1>2, <2>1, <2>2
  <2>5. PortTypes'
    BY <1>1, <1>5, <2>1, <2>2, <2>3, <2>4 DEF PortTypes, Away, Place
  <2>6. Running'
    BY <2>1, <2>2, <2>3, <2>4, PortAssumption DEF Running, Away, Place
  <2>7. Masked'
    <3>1. saved[s].at /= "cs"
      BY <2>3 DEF Away
    <3>2. Is("cortex-m3") => \A t \in Task : ~ctx'[t].mask
      BY <1>2, <2>4
    <3> QED BY <2>1, <2>2, <2>4, <3>1, <3>2, PortAssumption DEF Masked, Is, Nests
  <2>8. Nesting'
    BY <2>1 DEF Nesting, Is
  <2>9. Saved'
    BY <2>4 DEF Saved, Is
  <2>10. NoneLeft'
    BY <2>2, <2>4, PortAssumption DEF NoneLeft, LeftForGood
  <2>11. Ring' /\ Walk'
    BY <1>1, UnchangedRing, NoHandler
  <2>12. Pc' = [t \in Task |-> IF state[t] = "none" THEN "none" ELSE saved[t].at]
    BY <2>2, <2>4 DEF Pc
  <2> QED BY <2>5, <2>6, <2>7, <2>8, <2>9, <2>10, <2>11, <2>12 DEF PortInv
<1> QED BY <1>3, <1>4

LEMMA SaveIs ==
  ASSUME PortTypes, NEW at \in Away, NEW m \in BOOLEAN
  PROVE  /\ Save(at, m) \in [Task -> Context]
         /\ runtsk \notin Task => Save(at, m) = ctx
         /\ runtsk \in Task => /\ Save(at, m)[runtsk] = [at |-> at, mask |-> m]
                               /\ \A t \in Task \ {runtsk} : Save(at, m)[t] = ctx[t]
<1>1. [at |-> at, mask |-> m] \in Context /\ NoTask \notin Task
  BY PortAssumption DEF Context
<1> QED BY <1>1 DEF Save, PortTypes

(* Between handlers nothing of the timer's is under way.                   *)
LEMMA Quiet ==
  ASSUME PortInv, irq = <<>>
  PROVE  timer_nesting = 0
BY DEF PortInv, Walk

------------------------------------------------------------------------------
(* Service calls.                                                          *)
LEMMA CallStep ==
  ASSUME PortInv, NEW t \in Task, call(t)
  PROVE  PortInv' /\ Step
<1>1. /\ irq = <<>> /\ run.who = t /\ run.at = "user" /\ ~(pendsv /\ ~mask)
      /\ run' = [run EXCEPT !.at = "cs"] /\ mask' = TRUE
      /\ UNCHANGED <<port, irq, timer_nesting, queue, count, state, runtsk, ctx, pendsv, int_nesting>>
  BY DEF call, Executes, hardware, timer
<1>2. /\ PortTypes /\ Running /\ Masked /\ Nesting /\ Saved /\ NoneLeft /\ Ring /\ Walk
  BY DEF PortInv
<1>3. state[t] = "ready" /\ runtsk = t
  BY <1>1, <1>2 DEF Running
<1>4. run'.who = t /\ run'.at = "cs"
  BY <1>1, <1>2 DEF PortTypes
<1>5. PortTypes'
  BY <1>1, <1>2 DEF PortTypes, Place
<1>6. Running'
  BY <1>1, <1>2, <1>3, <1>4 DEF Running, Place
<1>7. Masked'
  BY <1>1, <1>2, <1>4 DEF Masked, Is, Nests
<1>8. Nesting' /\ Saved'
  BY <1>1, <1>2, <1>4 DEF Nesting, Saved, Is
<1>9. NoneLeft'
  BY <1>4, PortAssumption DEF NoneLeft, LeftForGood
<1>10. Ring' /\ Walk'
  BY <1>1, <1>2, UnchangedRing, NoHandler, Quiet
<1>11. Pc[t] = "user" /\ \A u \in Task : Pc[u] /= "cs"
  BY <1>1, <1>2, Sections DEF Pc
<1>12. Pc' = [Pc EXCEPT ![t] = "cs"]
  BY <1>1, <1>4 DEF Pc
<1>13. Promise!Enter(t)
  BY <1>1, <1>3, <1>11, <1>12 DEF Promise!Enter, Promise!NoSection, Pc
<1> QED BY <1>5, <1>6, <1>7, <1>8, <1>9, <1>10, <1>13 DEF PortInv, Step, Promise!Next

(* In a critical section, the caller is the running task.                  *)
LEMMA InSection ==
  ASSUME PortInv, NEW t \in Task \union {Nobody}, Executes(t, "cs")
  PROVE  /\ t \in Task /\ run.who = t /\ run.at = "cs" /\ runtsk = t /\ state[t] = "ready"
         /\ irq = <<>> /\ mask /\ timer_nesting = 0
         /\ Pc[t] = "cs"
<1>1. /\ PortTypes /\ Running /\ Masked
      /\ irq = <<>> /\ run.who = t /\ run.at = "cs"
  BY DEF PortInv, Executes
<1>2. t \in Task /\ mask
  BY <1>1, PortAssumption DEF Masked
<1> QED BY <1>1, <1>2, Quiet DEF Running, Pc

LEMMA WaitsStep ==
  ASSUME PortInv, NEW t \in Task \union {Nobody}, waits(t)
  PROVE  PortInv' /\ Step
<1>1. /\ t \in Task /\ run.who = t /\ run.at = "cs" /\ runtsk = t /\ state[t] = "ready"
      /\ irq = <<>> /\ mask /\ timer_nesting = 0
      /\ Pc[t] = "cs"
  BY InSection DEF waits
<1>2. PICK at \in {"in", "out"} : run' = [run EXCEPT !.at = at] /\ mask' = (at = "in")
  BY DEF waits
<1>3. /\ state' = [state EXCEPT ![t] = "wait"]
      /\ UNCHANGED <<port, irq, runtsk, ctx, pendsv, int_nesting, timer_nesting>>
  BY <1>1 DEF waits, hardware
<1>4. /\ PortTypes /\ Running /\ Masked /\ Nesting /\ Saved /\ NoneLeft /\ Ring /\ Walk
  BY DEF PortInv
<1>5. /\ queue' = kqueue_insert(queue, t) \/
         queue' = [next |-> [queue.next EXCEPT ![t] = t], prev |-> [queue.prev EXCEPT ![t] = t]]
      /\ DOMAIN count' = Task
  BY <1>1, <1>4 DEF waits, PortTypes
<1>6. Ring' /\ queue' \in [next : [Node -> Node], prev : [Node -> Node]]
  BY <1>1, <1>3, <1>4, <1>5, InsertRing, ApartRing
<1>7. run'.who = t /\ run'.at = at
  BY <1>1, <1>2, <1>4 DEF PortTypes
<1>8. /\ state'[t] = "wait" /\ state' \in [Task -> {"none", "ready", "wait"}]
      /\ \A u \in Task \ {t} : state'[u] = state[u]
  BY <1>1, <1>3, <1>4 DEF PortTypes
<1>9. PortTypes'
  BY <1>2, <1>3, <1>4, <1>5, <1>6, <1>8 DEF PortTypes, Place
<1>10. Running'
  BY <1>1, <1>3, <1>4, <1>7, <1>8 DEF Running, Place
<1>11. Masked'
  BY <1>1, <1>2, <1>3, <1>4, <1>7 DEF Masked, Is, Nests
<1>12. Nesting'
  BY <1>3, <1>4 DEF Nesting, Is
<1>13. Saved'
  BY <1>1, <1>3, <1>4, <1>7, <1>8 DEF Saved
<1>14. NoneLeft'
  BY <1>1, <1>7, PortAssumption DEF NoneLeft, LeftForGood
<1>15. Walk'
  BY <1>1, <1>3, NoHandler
<1>16. Pc' = [Pc EXCEPT ![t] = at]
  BY <1>1, <1>3, <1>7, <1>8 DEF Pc
<1>17. Promise!Work(t)
  BY <1>1, <1>3, <1>16 DEF Promise!Work, Pc
<1> QED BY <1>1, <1>6, <1>9, <1>10, <1>11, <1>12, <1>13, <1>14, <1>15, <1>17 DEF PortInv, Step, Promise!Next

(* wait_release or _act_tsk, by a task or a handler.                       *)
Freed(x) ==
  /\ state[x] \in {"wait", "none"}
  /\ state' = [state EXCEPT ![x] = "ready"]
  /\ ctx' = IF state[x] = "none" THEN [ctx EXCEPT ![x] = Fresh] ELSE ctx
  /\ queue' = IF state[x] = "wait" THEN kqueue_remove(queue, x) ELSE queue

LEMMA ReleaseParts ==
  ASSUME PortInv, NEW x \in Task, Freed(x)
  PROVE  /\ state[x] \in {"wait", "none"}
         /\ state' = [state EXCEPT ![x] = "ready"]
         /\ state' \in [Task -> {"none", "ready", "wait"}]
         /\ state'[x] = "ready" /\ \A u \in Task \ {x} : state'[u] = state[u]
         /\ ctx' \in [Task -> Context] /\ \A u \in Task \ {x} : ctx'[u] = ctx[u]
         /\ state[x] = "wait" => ctx' = ctx
         /\ state[x] = "none" => ctx'[x] = Fresh /\ run.who /= x
         /\ Ring' /\ queue' \in [next : [Node -> Node], prev : [Node -> Node]]
         /\ state[x] = "wait" => Linked' = Linked \ {x}
<1>1. /\ PortTypes /\ Running /\ Ring
  BY DEF PortInv
<1>2. /\ state[x] \in {"wait", "none"} /\ state' = [state EXCEPT ![x] = "ready"]
      /\ ctx' = IF state[x] = "none" THEN [ctx EXCEPT ![x] = Fresh] ELSE ctx
      /\ queue' = IF state[x] = "wait" THEN kqueue_remove(queue, x) ELSE queue
  BY DEF Freed
<1>3. /\ state' \in [Task -> {"none", "ready", "wait"}]
      /\ state'[x] = "ready" /\ \A u \in Task \ {x} : state'[u] = state[u]
  BY <1>1, <1>2 DEF PortTypes
<1>4. Fresh \in Context
  BY DEF Fresh, Context, Away
<1>5. /\ ctx' \in [Task -> Context] /\ \A u \in Task \ {x} : ctx'[u] = ctx[u]
      /\ state[x] = "wait" => ctx' = ctx
      /\ state[x] = "none" => ctx'[x] = Fresh
  BY <1>1, <1>2, <1>4 DEF PortTypes
<1>6. state[x] = "none" => run.who /= x
  BY <1>1 DEF Running
<1>7. CASE state[x] = "wait"
  BY <1>1, <1>2, <1>3, <1>5, <1>6, <1>7, RemoveRing
<1>8. CASE state[x] = "none"
  <2>1. queue' = queue /\ queue \in [next : [Node -> Node], prev : [Node -> Node]]
    BY <1>1, <1>2, <1>8 DEF PortTypes
  <2>2. Timed' = Timed /\ Linked' = Linked
    <3>1. \A u \in Task : u \in Timed' <=> u \in Timed
      BY <2>1, <1>3, <1>8 DEF Timed
    <3> QED BY <3>1 DEF Timed, Linked
  <2>3. Ring'
    BY <1>1, <2>1, <2>2 DEF Ring
  <2> QED BY <1>2, <1>3, <1>5, <1>6, <2>1, <2>3, <1>8
<1> QED BY <1>2, <1>7, <1>8

(* What a release leaves of the invariant, whoever released.               *)
LEMMA ReleaseInv ==
  ASSUME PortInv, NEW x \in Task, Freed(x), DOMAIN count' = Task,
         UNCHANGED <<port, runtsk, pendsv, int_nesting, timer_nesting>>,
         run'.who = run.who, run' \in [who : Task \union {IdleLoop, Nobody},
              at  : Place \union {"returned", "test", "loop", "sleep", "lock", "spin"}],
         irq' \in Seq(FrameType), Len(irq') = Len(irq), irq' = <<>> <=> irq = <<>>, mask' \in BOOLEAN, mask' => mask,
         run'.at = run.at \/ (run.at = "cs" /\ run'.at = "out" /\ x /= run.who)
  PROVE  PortTypes' /\ Running' /\ Nesting' /\ Saved' /\ NoneLeft' /\ Ring'
<1>1. /\ PortTypes /\ Running /\ Masked /\ Nesting /\ Saved /\ NoneLeft
  BY DEF PortInv
<1>2. /\ state[x] \in {"wait", "none"}
      /\ state' \in [Task -> {"none", "ready", "wait"}]
      /\ state'[x] = "ready" /\ \A u \in Task \ {x} : state'[u] = state[u]
      /\ ctx' \in [Task -> Context] /\ \A u \in Task \ {x} : ctx'[u] = ctx[u]
      /\ state[x] = "wait" => ctx' = ctx
      /\ state[x] = "none" => ctx'[x] = Fresh /\ run.who /= x
      /\ Ring' /\ queue' \in [next : [Node -> Node], prev : [Node -> Node]]
  BY ReleaseParts
<1>3. PortTypes'
  BY <1>1, <1>2 DEF PortTypes
<1>4. Running'
  BY <1>1, <1>2 DEF Running, Place
<1>5. Nesting'
  BY <1>1 DEF Nesting, Is
<1>6. Saved'
  <2>1. /\ (Is("cortex-a53") \/ Nests) /\ irq' /= <<>> /\ runtsk \in Task /\ int_nesting = Len(irq')
             => ctx'[runtsk].at = run'.at
    <3>1. irq /= <<>> => run.at /= "cs"
      BY <1>1 DEF Masked
    <3>2. runtsk \in Task => runtsk = run.who /\ (x = runtsk => state[x] = "wait")
      BY <1>1, <1>2 DEF Running
    <3> QED BY <3>1, <3>2, <1>1, <1>2 DEF Saved
  <2>2. \A t \in Task \ {run.who} : state'[t] /= "none" => ctx'[t].at \in Away
    BY <1>1, <1>2 DEF Saved, Fresh, Away
  <2>3. \A t \in Task \ {run.who} : state'[t] /= "none" /\ ctx'[t].at = "user" => state'[t] = "ready"
    BY <1>1, <1>2 DEF Saved
  <2> QED BY <2>1, <2>2, <2>3 DEF Saved, Is, Nests
<1>7. NoneLeft'
  <2>1. run.who = Nobody => run.at /= "cs"
    BY <1>1, PortAssumption DEF Masked
  <2>2. x \in Ready'
    BY <1>2 DEF Ready
  <2> QED BY <1>1, <2>1, <2>2 DEF NoneLeft, LeftForGood, Is
<1> QED BY <1>2, <1>3, <1>4, <1>5, <1>6, <1>7

LEMMA ReleasesStep ==
  ASSUME PortInv, NEW t \in Task \union {Nobody}, releases(t)
  PROVE  PortInv' /\ Step
<1>1. /\ t \in Task /\ run.who = t /\ run.at = "cs" /\ runtsk = t /\ state[t] = "ready"
      /\ irq = <<>> /\ mask /\ timer_nesting = 0
      /\ Pc[t] = "cs"
  BY InSection DEF releases
<1>2. PICK x \in Task : Freed(x) /\ count' = count
  BY DEF releases, release, Freed
<1>3. /\ run' = [run EXCEPT !.at = "out"] /\ mask' = FALSE
      /\ UNCHANGED <<port, irq, runtsk, pendsv, int_nesting, timer_nesting>>
  BY DEF releases, hardware
<1>4. PortTypes /\ Masked
  BY DEF PortInv
<1>5. run'.who = t /\ run'.at = "out" /\ run' \in [who : Task \union {IdleLoop, Nobody},
              at  : Place \union {"returned", "test", "loop", "sleep", "lock", "spin"}]
  BY <1>1, <1>3, <1>4 DEF PortTypes, Place
<1>6. /\ state[x] \in {"wait", "none"}
      /\ state' = [state EXCEPT ![x] = "ready"]
      /\ state'[x] = "ready" /\ \A u \in Task \ {x} : state'[u] = state[u]
      /\ \A u \in Task \ {x} : ctx'[u] = ctx[u]
      /\ state[x] = "wait" => ctx' = ctx
      /\ state[x] = "none" => ctx'[x] = Fresh /\ run.who /= x
      /\ x /= t
  BY <1>1, <1>2, ReleaseParts
<1>7. irq \in Seq(FrameType) /\ irq' = irq /\ DOMAIN count' = Task
  BY <1>2, <1>3, <1>4 DEF PortTypes
<1>8. PortTypes' /\ Running' /\ Nesting' /\ Saved' /\ NoneLeft' /\ Ring'
  BY <1>1, <1>2, <1>3, <1>5, <1>6, <1>7, ReleaseInv
<1>9. Masked'
  <2>1. Is("cortex-m3") => \A u \in Task : ~ctx'[u].mask
    BY <1>4, <1>6 DEF Masked, Fresh
  <2> QED BY <1>1, <1>3, <1>4, <1>5, <2>1 DEF Masked, Is, Nests
<1>10. Walk'
  BY <1>1, <1>3, NoHandler
<1>11. Pc' = IF state[x] = "none" THEN [[Pc EXCEPT ![t] = "out"] EXCEPT ![x] = "user"]
             ELSE [Pc EXCEPT ![t] = "out"]
  <2>1. \A u \in Task : Pc'[u] = IF u = t THEN "out" ELSE
                                 IF u = x /\ state[x] = "none" THEN "user" ELSE Pc[u]
    BY <1>1, <1>5, <1>6 DEF Pc, Fresh
  <2>2. Pc = [u \in Task |-> Pc[u]] /\ Pc' = [u \in Task |-> Pc'[u]]
    BY DEF Pc
  <2> HIDE DEF Pc
  <2>3. CASE state[x] = "none"
    BY <2>1, <2>2, <2>3, <1>1, <1>6
  <2>4. CASE state[x] = "wait"
    BY <2>1, <2>2, <2>4, <1>1
  <2> QED BY <2>3, <2>4, <1>6
<1>12. Promise!Work(t)
  <2>1. Promise!Released([Pc EXCEPT ![t] = "out"], x)
    BY <1>6, <1>11 DEF Promise!Released, Pc
  <2> QED BY <1>1, <2>1 DEF Promise!Work, Pc
<1> QED BY <1>1, <1>8, <1>9, <1>10, <1>12 DEF PortInv, Step, Promise!Next

LEMMA ChangesNothingStep ==
  ASSUME PortInv, NEW t \in Task \union {Nobody}, changes_nothing(t)
  PROVE  PortInv' /\ Step
<1>1. /\ t \in Task /\ run.who = t /\ run.at = "cs" /\ runtsk = t /\ state[t] = "ready"
      /\ irq = <<>> /\ mask /\ timer_nesting = 0
      /\ Pc[t] = "cs"
  BY InSection DEF changes_nothing
<1>2. /\ run' = [run EXCEPT !.at = "out"] /\ mask' = FALSE
      /\ UNCHANGED <<port, irq, timer_nesting, queue, count, state, runtsk, ctx, pendsv, int_nesting>>
  BY DEF changes_nothing, hardware, timer
<1>3. /\ PortTypes /\ Running /\ Masked /\ Nesting /\ Saved /\ NoneLeft /\ Ring
  BY DEF PortInv
<1>4. run'.who = t /\ run'.at = "out"
  BY <1>1, <1>2, <1>3 DEF PortTypes
<1>5. PortTypes' /\ Running'
  BY <1>1, <1>2, <1>3, <1>4 DEF PortTypes, Running, Place
<1>6. Masked' /\ Nesting' /\ Saved'
  BY <1>1, <1>2, <1>3, <1>4 DEF Masked, Nesting, Saved, Is, Nests
<1>7. NoneLeft'
  BY <1>1, <1>4, PortAssumption DEF NoneLeft, LeftForGood
<1>8. Ring' /\ Walk'
  BY <1>1, <1>2, <1>3, UnchangedRing, NoHandler
<1>9. Pc' = [Pc EXCEPT ![t] = "out"]
  BY <1>1, <1>2, <1>4 DEF Pc
<1>10. Promise!Work(t)
  BY <1>1, <1>2, <1>9 DEF Promise!Work, Pc
<1> QED BY <1>1, <1>5, <1>6, <1>7, <1>8, <1>10 DEF PortInv, Step, Promise!Next

(* The task that ends leaves the processor to nobody; the others that are  *)
(* ready are told by the guard of its end.                                 *)
LEMMA ExtStep ==
  ASSUME PortInv, NEW t \in Task \union {Nobody}, ext_tsk(t)
  PROVE  PortInv' /\ Step
<1>1. /\ t \in Task /\ run.who = t /\ run.at = "cs" /\ runtsk = t /\ state[t] = "ready"
      /\ irq = <<>> /\ mask /\ timer_nesting = 0
      /\ Pc[t] = "cs"
  BY InSection DEF ext_tsk
<1>2. /\ state' = [state EXCEPT ![t] = "none"] /\ runtsk' = NoTask
      /\ run' = [who |-> Nobody, at |-> "out"] /\ mask' = FALSE
      /\ UNCHANGED <<port, irq, timer_nesting, queue, count, ctx, pendsv, int_nesting>>
      /\ port \in {"linux-user", "tms320c54x"} => LoneExit \/ Ready /= {t}
  BY <1>1 DEF ext_tsk, hardware, timer
<1>3. /\ PortTypes /\ Running /\ Masked /\ Nesting /\ Saved /\ NoneLeft /\ Ring
      /\ NoTask \notin Task /\ Nobody \notin Task
  BY PortAssumption DEF PortInv
<1>4. run'.who = Nobody /\ run'.at = "out"
  BY <1>2
<1>5. /\ state' \in [Task -> {"none", "ready", "wait"}] /\ state'[t] = "none"
      /\ \A u \in Task \ {t} : state'[u] = state[u]
  BY <1>1, <1>2, <1>3 DEF PortTypes
<1>6. PortTypes'
  BY <1>2, <1>3, <1>5 DEF PortTypes, Place
<1>7. Running' /\ Nesting'
  BY <1>2, <1>3, <1>4 DEF Running, Nesting, Is
<1>8. Masked'
  BY <1>1, <1>2, <1>3, <1>4, PortAssumption DEF Masked, Is, Nests
<1>9. Saved'
  BY <1>1, <1>2, <1>3, <1>5 DEF Saved, Is, Nests
<1>10. NoneLeft'
  <2>1. Ready' = Ready \ {t} /\ t \in Ready
    BY <1>1, <1>5 DEF Ready
  <2>2. Ready /= {t} => Ready' /= {}
    BY <2>1
  <2> QED BY <1>2, <1>4, <2>2 DEF NoneLeft, LeftForGood
<1>11. Timed' = Timed /\ Linked' = Linked
  <2>1. \A u \in Task : u \in Timed' <=> u \in Timed
    BY <1>1, <1>2, <1>5 DEF Timed
  <2> QED BY <2>1 DEF Timed, Linked
<1>12. Ring' /\ Walk'
  BY <1>1, <1>2, <1>3, <1>11, NoHandler DEF Ring
<1>13. Pc' = [Pc EXCEPT ![t] = "none"]
  BY <1>1, <1>2, <1>3, <1>4, <1>5 DEF Pc
<1>14. Promise!Work(t)
  BY <1>1, <1>2, <1>13 DEF Promise!Work, Pc
<1> QED BY <1>1, <1>6, <1>7, <1>8, <1>9, <1>10, <1>12, <1>14 DEF PortInv, Step, Promise!Next

------------------------------------------------------------------------------
(* Switches between tasks.                                                 *)
LEMMA StutterStep ==
  ASSUME Pc' = Pc, state' = state
  PROVE  Step
BY DEF Step, Promise!vars, Pc

LEMMA AdvanceStep ==
  ASSUME PortInv, NEW t \in Task, state' = state, irq = <<>>, run.who = t,
         \/ run.at = "in" /\ Pc' = [Pc EXCEPT ![t] = "back"]
         \/ run.at = "out" /\ Pc' = [Pc EXCEPT ![t] = "ret"]
         \/ run.at = "back" /\ Pc' = [Pc EXCEPT ![t] = "ret"]
         \/ run.at = "ret" /\ Pc' = [Pc EXCEPT ![t] = "user"] /\ state[t] = "ready"
  PROVE  Step
<1>1. PortTypes /\ Running /\ Saved
  BY DEF PortInv
<1>2. \A u \in Task : Pc[u] /= "cs"
  BY <1>1, Sections
<1>3. Pc[t] = run.at
  BY DEF Pc
<1>4. Promise!Advance(t)
  BY <1>2, <1>3 DEF Promise!Advance, Promise!NoSection, Pc
<1> QED BY <1>4 DEF Step, Promise!Next

(* The caller of dispatch(): the running task, or what a task left.        *)
LEMMA AtDispatch ==
  ASSUME PortInv, NEW t \in Task \union {Nobody}, Executes(t, "in") \/ Executes(t, "out")
  PROVE  /\ irq = <<>> /\ timer_nesting = 0 /\ run.who = t /\ run.at \in {"in", "out"}
         /\ t \in Task => /\ runtsk = t /\ state[t] \in {"ready", "wait"}
                          /\ (run.at = "in" /\ After = "back") \/ (run.at = "out" /\ After = "ret")
         /\ t = Nobody => t \notin Task /\ runtsk = NoTask /\ NoTask \notin Task /\ After = "returned"
BY Quiet, PortAssumption DEF Executes, After, PortInv, PortTypes, Running

LEMMA DispatchSwitch ==
  ASSUME PortInv, NEW t \in Task \union {Nobody}, Executes(t, "in") \/ Executes(t, "out"),
         NEW m \in BOOLEAN, switch(Save(After, m), int_nesting),
         ~Is("cortex-m3"), pendsv' = FALSE,
         UNCHANGED <<port, irq, timer_nesting, queue, count, state>>
  PROVE  PortInv' /\ Step
<1> DEFINE saved == Save(After, m)
<1>1. /\ irq = <<>> /\ timer_nesting = 0 /\ run.who = t /\ run.at \in {"in", "out"}
      /\ t \in Task => /\ runtsk = t /\ state[t] \in {"ready", "wait"}
                       /\ (run.at = "in" /\ After = "back") \/ (run.at = "out" /\ After = "ret")
      /\ t = Nobody => t \notin Task /\ runtsk = NoTask /\ NoTask \notin Task /\ After = "returned"
  BY AtDispatch
<1>2. /\ PortTypes /\ Saved /\ Nesting /\ ctx \in [Task -> Context] /\ int_nesting \in Nat
  BY DEF PortInv, PortTypes
<1>3. /\ saved \in [Task -> Context]
      /\ t \in Task => saved[t].at = After
      /\ \A u \in Task \ {t} : saved[u] = ctx[u]
  <2>1. CASE t \in Task
    <3>1. After \in Away
      BY <1>1, <2>1 DEF Away
    <3>2. /\ saved \in [Task -> Context] /\ saved[t] = [at |-> After, mask |-> m]
          /\ \A u \in Task \ {t} : saved[u] = ctx[u]
      BY <1>1, <1>2, <2>1, <3>1, SaveIs
    <3> QED BY <3>2
  <2>2. CASE t = Nobody
    BY <1>1, <1>2, <2>2 DEF Save
  <2> QED BY <2>1, <2>2
<1>4. int_nesting = 0 \/ (Is("tms320c54x") /\ int_nesting = 1)
  BY <1>1, <1>2 DEF Nesting
<1>5. /\ \A u \in Task : state[u] /= "none" => saved[u].at \in Away
      /\ \A u \in Task : state[u] /= "none" /\ saved[u].at = "user" => state[u] = "ready"
  BY <1>1, <1>2, <1>3 DEF Saved, Away
<1>6. switch(saved, int_nesting)
  OBVIOUS
<1> HIDE DEF saved
<1>7. /\ PortInv'
      /\ Pc' = [u \in Task |-> IF state[u] = "none" THEN "none" ELSE saved[u].at]
  BY <1>1, <1>2, <1>3, <1>4, <1>5, <1>6, SwitchInv
<1>8. CASE t \in Task
  <2>1. Pc' = [Pc EXCEPT ![t] = After]
    BY <1>1, <1>3, <1>7, <1>8 DEF Pc
  <2> QED BY <1>1, <1>7, <1>8, <2>1, AdvanceStep
<1>9. CASE t = Nobody
  <2>1. Pc' = Pc
    BY <1>1, <1>3, <1>7, <1>9 DEF Pc
  <2> QED BY <1>7, <2>1, StutterStep
<1> QED BY <1>8, <1>9

(* The caller goes on, on cortex-m3 until PendSV is taken.                 *)
LEMMA DispatchStays ==
  ASSUME PortInv, NEW t \in Task \union {Nobody}, Executes(t, "in") \/ Executes(t, "out"),
         run' = [run EXCEPT !.at = After], mask' \in BOOLEAN,
         mask' = mask \/ mask' = FALSE, pendsv' = Is("cortex-m3"),
         Is("cortex-m3") \/ (runtsk = schedtsk /\ port \in {"linux-user", "tms320c54x"}),
         UNCHANGED <<ctx, runtsk, int_nesting, port, irq, timer_nesting, queue, count, state>>
  PROVE  PortInv' /\ Step
<1>1. /\ irq = <<>> /\ timer_nesting = 0 /\ run.who = t /\ run.at \in {"in", "out"}
      /\ t \in Task => /\ runtsk = t /\ state[t] \in {"ready", "wait"}
                       /\ (run.at = "in" /\ After = "back") \/ (run.at = "out" /\ After = "ret")
      /\ t = Nobody => t \notin Task /\ runtsk = NoTask /\ NoTask \notin Task /\ After = "returned"
  BY AtDispatch
<1>2. /\ PortTypes /\ Running /\ Masked /\ Nesting /\ Saved /\ NoneLeft /\ Ring
      /\ schedtsk \in Ready \union {NoTask} /\ (schedtsk = NoTask <=> Ready = {})
      /\ NoTask \notin Task
  BY Chosen, PortAssumption DEF PortInv
<1>3. run'.who = t /\ run'.at = After /\ After \in {"back", "ret", "returned"}
  BY <1>1, <1>2 DEF PortTypes
<1>4. PortTypes'
  BY <1>1, <1>2, <1>3 DEF PortTypes, Place, Is
<1>5. Running'
  <2>1. t \in Task => state[t] = "ready" \/ (state[t] = "wait" /\ pendsv')
    BY <1>1, <1>2 DEF Ready
  <2> QED BY <1>1, <1>2, <1>3, <2>1 DEF Running, Place
<1>6. Masked'
  <2>1. Is("cortex-m3") /\ mask' => run'.at \in {"cs", "in", "back"}
    <3>1. Is("cortex-m3") /\ run.at = "out" => ~mask
      BY <1>1, <1>2 DEF Masked
    <3>2. run.at = "in" => t \in Task
      BY <1>1, <1>2 DEF Running
    <3> QED BY <1>1, <1>3, <3>1, <3>2
  <2> QED BY <1>1, <1>2, <1>3, <2>1 DEF Masked, Is, Nests
<1>7. Nesting' /\ Saved'
  BY <1>1, <1>2, <1>3 DEF Nesting, Saved, Is, Nests
<1>8. NoneLeft'
  <2>1. Ready' = Ready
    BY DEF Ready
  <2>2. t = Nobody /\ Is("cortex-m3") => ~mask
    BY <1>1, <1>2 DEF Masked, Running
  <2>3. ASSUME t = Nobody, ~Is("cortex-m3"), ~LoneExit PROVE FALSE
    <3>1. Ready = {}
      BY <2>3, <1>1, <1>2
    <3> QED BY <3>1, <2>3, <1>1, <1>2 DEF NoneLeft, LeftForGood
  <2> QED BY <1>1, <1>2, <1>3, <2>1, <2>2, <2>3 DEF NoneLeft, LeftForGood, Is
<1>9. Ring' /\ Walk'
  BY <1>1, <1>2, UnchangedRing, NoHandler
<1>10. CASE t \in Task
  <2>1. Pc' = [Pc EXCEPT ![t] = After]
    BY <1>1, <1>3, <1>10 DEF Pc
  <2>2. Step
    BY <1>1, <1>10, <2>1, AdvanceStep
  <2> QED BY <2>2, <1>4, <1>5, <1>6, <1>7, <1>8, <1>9 DEF PortInv
<1>11. CASE t = Nobody
  <2>1. Pc' = Pc
    BY <1>1, <1>3, <1>11 DEF Pc
  <2> QED BY <2>1, StutterStep, <1>4, <1>5, <1>6, <1>7, <1>8, <1>9 DEF PortInv
<1> QED BY <1>10, <1>11

LEMMA DispatchStep ==
  ASSUME PortInv, NEW t \in Task \union {Nobody}, dispatch(t)
  PROVE  PortInv' /\ Step
<1>1. /\ Executes(t, "in") \/ Executes(t, "out")
      /\ pendsv' = Is("cortex-m3")
      /\ UNCHANGED <<port, irq, timer_nesting, queue, count, state>>
  BY DEF dispatch, hardware, timer
<1>2. /\ PortTypes /\ Nesting /\ mask \in BOOLEAN /\ irq = <<>>
  BY <1>1 DEF PortInv, PortTypes, Executes
<1>3. CASE Is("linux-user")
  <2>1. dispatch_linux /\ ~Is("cortex-m3") /\ pendsv' = FALSE
    BY <1>1, <1>3 DEF dispatch, Is
  <2>2. int_nesting = 0
    BY <1>2, <1>3 DEF Nesting, Is
  <2>3. CASE runtsk = schedtsk
    <3>1. run' = [run EXCEPT !.at = After] /\ UNCHANGED <<ctx, runtsk, mask, int_nesting>>
      BY <2>1, <2>3 DEF dispatch_linux
    <3> QED BY <1>1, <1>2, <1>3, <2>3, <3>1, DispatchStays DEF Is
  <2>4. CASE runtsk /= schedtsk
    <3>1. switch(Save(After, mask), int_nesting)
      BY <2>1, <2>2, <2>4 DEF dispatch_linux
    <3> QED BY <1>1, <1>2, <2>1, <3>1, DispatchSwitch
  <2> QED BY <2>3, <2>4
<1>4. CASE Is("cortex-m3")
  <2>1. run' = [run EXCEPT !.at = After] /\ UNCHANGED <<ctx, runtsk, mask, int_nesting>>
    BY <1>4 DEF dispatch, dispatch_m3, Is
  <2> QED BY <1>1, <1>2, <1>4, <2>1, DispatchStays
<1>5. CASE Is("m16c62")
  <2>1. switch(Save(After, mask), int_nesting) /\ ~Is("cortex-m3") /\ pendsv' = FALSE
    BY <1>1, <1>5 DEF dispatch, dispatch_m16c62, Is
  <2> QED BY <1>1, <1>2, <2>1, DispatchSwitch
<1>6. CASE Is("tms320c54x")
  <2>1. dispatch_c54 /\ ~Is("cortex-m3") /\ pendsv' = FALSE
    BY <1>1, <1>6 DEF dispatch, Is
  <2>2. CASE runtsk = schedtsk
    <3>1. run' = [run EXCEPT !.at = After] /\ mask' = FALSE /\ UNCHANGED <<ctx, runtsk, int_nesting>>
      BY <2>1, <2>2 DEF dispatch_c54
    <3> QED BY <1>1, <1>2, <1>6, <2>2, <3>1, DispatchStays DEF Is
  <2>3. CASE runtsk /= schedtsk
    <3>1. switch(Save(After, FALSE), int_nesting)
      BY <2>1, <2>3 DEF dispatch_c54
    <3> QED BY <1>1, <2>1, <3>1, DispatchSwitch
  <2> QED BY <2>2, <2>3
<1>7. CASE ~Is("linux-user") /\ ~Is("cortex-m3") /\ ~Is("m16c62") /\ ~Is("tms320c54x")
  <2>1. switch(Save(After, FALSE), int_nesting) /\ pendsv' = FALSE
    BY <1>1, <1>7 DEF dispatch, dispatch_a53, Is
  <2> QED BY <1>1, <1>7, <2>1, DispatchSwitch
<1> QED BY <1>3, <1>4, <1>5, <1>6, <1>7

(* PendSV is taken where the processor is, outside of sections.            *)
LEMMA PendSVStep ==
  ASSUME PortInv, PendSV_Handler
  PROVE  PortInv' /\ Step
<1> DEFINE saved == Save(run.at, FALSE)
<1>1. /\ pendsv /\ ~mask /\ irq = <<>> /\ pendsv' = FALSE
      /\ switch(saved, int_nesting)
      /\ UNCHANGED <<port, irq, timer_nesting, queue, count, state>>
  BY DEF PendSV_Handler, hardware, timer
<1> HIDE DEF saved
<1>2. /\ PortTypes /\ Running /\ Masked /\ Nesting /\ Saved /\ timer_nesting = 0
      /\ Is("cortex-m3") /\ NoTask \notin Task
  BY <1>1, Quiet, PortAssumption DEF PortInv, Masked
<1>3. /\ saved \in [Task -> Context]
      /\ runtsk \in Task => saved[runtsk] = [at |-> run.at, mask |-> FALSE] /\ run.who = runtsk
                            /\ run.at \in Away /\ state[runtsk] \in {"ready", "wait"}
                            /\ (run.at = "user" => state[runtsk] = "ready")
      /\ \A u \in Task \ {runtsk} : saved[u] = ctx[u]
  <2>1. CASE runtsk \in Task
    <3>1. /\ run.who = runtsk /\ run.at \in Place /\ run.at /= "cs"
          /\ state[runtsk] \in {"ready", "wait"} /\ (run.at = "user" => state[runtsk] = "ready")
      BY <1>1, <1>2, <2>1 DEF Running, Masked
    <3>2. run.at \in Away
      BY <3>1 DEF Place, Away
    <3> QED BY <1>2, <2>1, <3>1, <3>2, SaveIs DEF saved
  <2>2. CASE runtsk \notin Task
    BY <1>2, <2>2 DEF saved, Save, PortTypes
  <2> QED BY <2>1, <2>2
<1>4. int_nesting = 0 /\ int_nesting \in Nat
  BY <1>1, <1>2 DEF Nesting, Is, PortTypes
<1>5. runtsk \notin Task => run.who \notin Task
  BY <1>2 DEF Running
<1>6. /\ \A u \in Task : state[u] /= "none" => saved[u].at \in Away
      /\ \A u \in Task : state[u] /= "none" /\ saved[u].at = "user" => state[u] = "ready"
  BY <1>2, <1>3, <1>5 DEF Saved
<1>7. \A u \in Task : ~saved[u].mask
  BY <1>2, <1>3 DEF Masked
<1>8. /\ PortInv'
      /\ Pc' = [u \in Task |-> IF state[u] = "none" THEN "none" ELSE saved[u].at]
  BY <1>1, <1>2, <1>3, <1>4, <1>6, <1>7, SwitchInv
<1>9. Pc' = Pc
  <2>1. \A u \in Task : Pc[u] = IF state[u] = "none" THEN "none" ELSE saved[u].at
    <3>1. CASE runtsk \in Task
      BY <1>3, <3>1 DEF Pc
    <3>2. CASE runtsk \notin Task
      BY <1>3, <1>5, <3>2 DEF Pc
    <3> QED BY <3>1, <3>2
  <2> QED BY <1>8, <2>1 DEF Pc
<1> QED BY <1>1, <1>8, <1>9, StutterStep

(* The processor goes on inside a call, outside of sections.               *)
LEMMA GoesOn ==
  ASSUME PortInv, NEW at \in Place \ {"cs", "in", "out"}, NEW t \in Task, irq = <<>>, run.who = t,
         ~(pendsv /\ ~mask),
         (run.at = "back" /\ at = "ret" /\ mask' = FALSE) \/ (run.at = "ret" /\ at = "user" /\ mask' = mask),
         run' = [run EXCEPT !.at = at],
         UNCHANGED <<port, irq, timer_nesting, queue, count, state, runtsk, ctx, pendsv, int_nesting>>
  PROVE  PortInv' /\ Step
<1>1. /\ PortTypes /\ Running /\ Masked /\ Nesting /\ Saved /\ NoneLeft /\ Ring
      /\ timer_nesting = 0
  BY Quiet DEF PortInv
<1>2. run'.who = t /\ run'.at = at
  BY <1>1 DEF PortTypes
<1>3. at = "user" => state[t] = "ready"
  BY <1>1 DEF Running, Masked
<1>4. PortTypes'
  BY <1>1, <1>2 DEF PortTypes
<1>5. Running'
  BY <1>1, <1>2, <1>3, PortAssumption DEF Running, Place
<1>6. Masked'
  BY <1>1, <1>2 DEF Masked, Is, Nests
<1>7. Nesting' /\ Saved'
  BY <1>1, <1>2 DEF Nesting, Saved, Is
<1>8. NoneLeft'
  BY <1>2, PortAssumption DEF NoneLeft, LeftForGood
<1>9. Ring' /\ Walk'
  BY <1>1, UnchangedRing, NoHandler
<1>10. Pc' = [Pc EXCEPT ![t] = at]
  BY <1>2 DEF Pc
<1>11. Step
  BY <1>3, <1>10, AdvanceStep
<1> QED BY <1>4, <1>5, <1>6, <1>7, <1>8, <1>9, <1>11 DEF PortInv

LEMMA EndSectionStep ==
  ASSUME PortInv, NEW t \in Task \union {Nobody}, end_section(t) \/ returns(t)
  PROVE  PortInv' /\ Step
<1>1. /\ irq = <<>> /\ run.who = t /\ ~(pendsv /\ ~mask)
      /\ \/ run.at = "back" /\ run' = [run EXCEPT !.at = "ret"] /\ mask' = FALSE
         \/ run.at = "ret" /\ run' = [run EXCEPT !.at = "user"] /\ mask' = mask
      /\ UNCHANGED <<port, irq, timer_nesting, queue, count, state, runtsk, ctx, pendsv, int_nesting>>
  BY DEF end_section, returns, Executes, hardware, timer
<1>2. t \in Task
  BY <1>1 DEF PortInv, Running
<1>3. CASE run.at = "back" /\ run' = [run EXCEPT !.at = "ret"] /\ mask' = FALSE
  <2>1. "ret" \in Place \ {"cs", "in", "out"}
    BY DEF Place
  <2> QED BY <1>1, <1>2, <1>3, <2>1, GoesOn
<1>4. CASE run.at = "ret" /\ run' = [run EXCEPT !.at = "user"] /\ mask' = mask
  <2>1. "user" \in Place \ {"cs", "in", "out"}
    BY DEF Place
  <2> QED BY <1>1, <1>2, <1>4, <2>1, GoesOn
<1> QED BY <1>1, <1>3, <1>4

------------------------------------------------------------------------------
(* The idle loop has no task's context to save.                            *)
LEMMA IdleStep ==
  ASSUME PortInv, Idles
  PROVE  PortInv' /\ Step
<1>1. /\ PortTypes /\ Running /\ Masked /\ Nesting /\ Saved /\ NoneLeft /\ Ring
      /\ IdleLoop \notin Task /\ Nobody /= IdleLoop
  BY PortAssumption DEF PortInv
<1>2. /\ irq = <<>> /\ run.who = IdleLoop /\ timer_nesting = 0
  BY Quiet DEF Idles, idle_test, idle_sleep, idle_lock, Executes
<1>3. runtsk = NoTask /\ NoTask \notin Task /\ runtsk \notin Task
  BY <1>1, <1>2, PortAssumption DEF Running, PortTypes
<1>4. ASSUME run'.who = IdleLoop, run'.at \in {"loop", "lock", "sleep"},
             run' = [run EXCEPT !.at = run'.at], mask' \in BOOLEAN,
             Is("cortex-m3") => run'.at = "sleep" /\ mask' = mask,
             UNCHANGED <<port, irq, timer_nesting, queue, count, state, runtsk, ctx, pendsv, int_nesting>>
      PROVE  PortInv' /\ Step
  <2>1. PortTypes'
    <3>1. run' \in [who : Task \union {IdleLoop, Nobody},
                    at  : Place \union {"returned", "test", "loop", "sleep", "lock", "spin"}]
      BY <1>1, <1>4 DEF PortTypes
    <3> QED BY <1>1, <1>4, <3>1 DEF PortTypes
  <2>2. Running'
    BY <1>1, <1>3, <1>4 DEF Running
  <2>3. Masked'
    BY <1>1, <1>2, <1>4 DEF Masked, Is, Nests
  <2>4. Nesting' /\ Saved'
    BY <1>1, <1>2, <1>4 DEF Nesting, Saved, Is
  <2>5. NoneLeft'
    BY <1>1, <1>4 DEF NoneLeft, LeftForGood
  <2>6. Ring' /\ Walk'
    BY <1>1, <1>2, <1>4, UnchangedRing, NoHandler
  <2>7. Pc' = Pc
    BY <1>1, <1>2, <1>4 DEF Pc
  <2> QED BY <1>4, <2>1, <2>2, <2>3, <2>4, <2>5, <2>6, <2>7, StutterStep DEF PortInv
<1>5. CASE idle_test
  <2>1. ~Is("cortex-m3")
    BY <1>1, <1>2, <1>5 DEF Masked, idle_test, Executes
  <2>2. /\ UNCHANGED <<port, irq, timer_nesting, queue, count, state, runtsk, ctx, pendsv, int_nesting>>
        /\ \/ run' = [run EXCEPT !.at = "loop"] /\ mask' = mask
           \/ run' = [run EXCEPT !.at = "lock"] /\ mask' = TRUE
    BY <1>5 DEF idle_test, hardware, timer
  <2>3. mask \in BOOLEAN /\ run = [who |-> run.who, at |-> run.at]
    BY <1>1 DEF PortTypes
  <2>4. run'.who = IdleLoop /\ run'.at \in {"loop", "lock", "sleep"} /\ run' = [run EXCEPT !.at = run'.at]
    BY <1>2, <2>2, <2>3
  <2> QED BY <1>4, <2>1, <2>2, <2>3, <2>4
<1>6. CASE idle_sleep
  <2>1. /\ UNCHANGED <<port, irq, timer_nesting, queue, count, state, runtsk, ctx, pendsv, int_nesting>>
        /\ run' = [run EXCEPT !.at = "sleep"] /\ mask' = mask
    BY <1>6 DEF idle_sleep, hardware, timer
  <2>2. mask \in BOOLEAN /\ run = [who |-> run.who, at |-> run.at]
    BY <1>1 DEF PortTypes
  <2>3. run'.who = IdleLoop /\ run'.at = "sleep" /\ run' = [run EXCEPT !.at = run'.at]
    BY <1>2, <2>1, <2>2
  <2> QED BY <1>4, <2>1, <2>2, <2>3
<1>7. CASE idle_lock
  <2>1. /\ switch(ctx, int_nesting) /\ run.at = "lock" /\ pendsv' = pendsv
        /\ UNCHANGED <<port, irq, timer_nesting, queue, count, state>>
    BY <1>7 DEF idle_lock, Executes, hardware, timer
  <2>2. ~Is("cortex-m3") /\ pendsv = FALSE
    BY <1>1, <1>2, <2>1 DEF Masked, PortTypes
  <2>3. /\ ctx \in [Task -> Context] /\ int_nesting \in Nat
        /\ int_nesting = 0 \/ (Is("tms320c54x") /\ int_nesting = 1)
    BY <1>1, <1>2 DEF PortTypes, Nesting
  <2>4. /\ \A u \in Task : state[u] /= "none" => ctx[u].at \in Away
        /\ \A u \in Task : state[u] /= "none" /\ ctx[u].at = "user" => state[u] = "ready"
    BY <1>1, <1>2 DEF Saved
  <2>5. /\ PortInv'
        /\ Pc' = [u \in Task |-> IF state[u] = "none" THEN "none" ELSE ctx[u].at]
    BY <1>2, <2>1, <2>2, <2>3, <2>4, SwitchInv
  <2>6. Pc' = Pc
    BY <1>1, <1>2, <2>5 DEF Pc
  <2> QED BY <2>1, <2>5, <2>6, StutterStep
<1> QED BY <1>5, <1>6, <1>7 DEF Idles

------------------------------------------------------------------------------
(* Handlers.                                                               *)
LEMMA WokenIs ==
  ASSUME PortTypes
  PROVE  /\ Woken.who = run.who /\ (run.who /= IdleLoop => Woken = run)
         /\ Woken \in [who : Task \union {IdleLoop, Nobody},
              at  : Place \union {"returned", "test", "loop", "sleep", "lock", "spin"}]
         /\ Woken.at = run.at \/ Woken.at = IF Is("cortex-m3") THEN "loop" ELSE "test"
<1>1. run \in [who : Task \union {IdleLoop, Nobody},
              at  : Place \union {"returned", "test", "loop", "sleep", "lock", "spin"}]
  BY DEF PortTypes
<1>2. CASE run = [who |-> IdleLoop, at |-> "sleep"]
  <2>1. Woken = [who |-> IdleLoop, at |-> IF Is("cortex-m3") THEN "loop" ELSE "test"]
    BY <1>2 DEF Woken
  <2> QED BY <1>2, <2>1
<1>3. CASE run /= [who |-> IdleLoop, at |-> "sleep"]
  BY <1>1, <1>3 DEF Woken
<1> QED BY <1>2, <1>3

LEMMA EntryStep ==
  ASSUME PortInv, TickAlone, NEW v \in Vec, irq_entry(v)
  PROVE  PortInv' /\ Step
<1>1. /\ PortTypes /\ Running /\ Masked /\ Nesting /\ Saved /\ NoneLeft /\ Ring /\ Walk
      /\ IdleLoop \notin Task /\ Nobody /= IdleLoop /\ NoTask \notin Task
  BY PortAssumption DEF PortInv
<1>2. /\ ~mask /\ (irq /= <<>> => <<Last(irq).vec, v>> \in Nest)
      /\ int_nesting' = int_nesting + 1
      /\ irq' = Append(irq, Frame(v)) /\ mask' = ~Nests /\ run' = Woken
      /\ UNCHANGED <<port, state, runtsk, pendsv, timer_nesting, queue, count>>
      /\ ctx' = IF (Is("cortex-a53") \/ Nests) /\ int_nesting = 0 THEN Save(Interrupted, FALSE) ELSE ctx
  BY DEF irq_entry, timer
<1>3. /\ run'.who = run.who /\ (run.who /= IdleLoop => run' = run)
      /\ run' \in [who : Task \union {IdleLoop, Nobody},
              at  : Place \union {"returned", "test", "loop", "sleep", "lock", "spin"}]
      /\ run'.at = run.at \/ run'.at = IF Is("cortex-m3") THEN "loop" ELSE "test"
  BY <1>1, <1>2, WokenIs
<1>4. Frame(v) \in FrameType /\ Frame(v).vec = v /\ Frame(v).at = IF v = "tick" THEN "read" ELSE "run"
  BY DEF Frame, FrameType, Node
<1>5. /\ irq' \in Seq(FrameType) /\ irq' /= <<>> /\ Len(irq') = Len(irq) + 1
      /\ Last(irq') = Frame(v) /\ \A i \in 1..Len(irq) : irq'[i] = irq[i]
      /\ irq \in Seq(FrameType)
  <2>1. irq \in Seq(FrameType)
    BY <1>1 DEF PortTypes
  <2> QED BY <1>2, <1>4, <2>1, MoreTop
<1>6. int_nesting = 0 => irq = <<>>
  BY <1>1, <1>5 DEF Nesting
<1>7. runtsk \in Task => run.who = runtsk /\ run.at \in Away /\ run' = run
  BY <1>1, <1>2, <1>3 DEF Running, Masked, Place, Away
<1>8. /\ ctx' \in [Task -> Context]
      /\ \A u \in Task \ {runtsk} : ctx'[u] = ctx[u]
      /\ (Is("cortex-a53") \/ Nests) /\ int_nesting = 0 /\ runtsk \in Task =>
           ctx'[runtsk].at = run.at
      /\ ~((Is("cortex-a53") \/ Nests) /\ int_nesting = 0) => ctx' = ctx
  <2>1. CASE (Is("cortex-a53") \/ Nests) /\ int_nesting = 0
    <3>1. Interrupted = run.at /\ ctx' = Save(Interrupted, FALSE)
      BY <1>2, <1>6, <2>1 DEF Interrupted
    <3>2. CASE runtsk \in Task
      <4>1. /\ Save(run.at, FALSE) \in [Task -> Context]
            /\ Save(run.at, FALSE)[runtsk] = [at |-> run.at, mask |-> FALSE]
            /\ \A t \in Task \ {runtsk} : Save(run.at, FALSE)[t] = ctx[t]
        BY <1>1, <1>7, <3>2, SaveIs
      <4>2. ctx' = Save(run.at, FALSE)
        BY <3>1
      <4>3. ctx' \in [Task -> Context] /\ \A u \in Task \ {runtsk} : ctx'[u] = ctx[u]
        <5>1. ctx' \in [Task -> Context]
          BY <4>1, <4>2
        <5>2. ASSUME NEW u \in Task \ {runtsk} PROVE ctx'[u] = ctx[u]
          <6>1. Save(run.at, FALSE)[u] = ctx[u]
            BY <4>1
          <6> QED BY <4>2, <6>1
        <5> QED BY <5>1, <5>2
      <4>4. ctx'[runtsk].at = run.at
        <5>1. ctx'[runtsk] = [at |-> run.at, mask |-> FALSE]
          BY <4>1, <4>2
        <5> QED BY <5>1
      <4> QED BY <2>1, <4>3, <4>4
    <3>3. CASE runtsk \notin Task
      BY <1>1, <2>1, <3>1, <3>3 DEF Save, PortTypes
    <3> QED BY <3>2, <3>3
  <2>2. CASE ~((Is("cortex-a53") \/ Nests) /\ int_nesting = 0)
    BY <1>1, <1>2, <2>2 DEF PortTypes
  <2> QED BY <2>1, <2>2
<1>9. PortTypes'
  <2>1. mask' \in BOOLEAN
    BY <1>2
  <2>2. int_nesting' \in Nat
    BY <1>1, <1>2 DEF PortTypes
  <2> QED BY <1>1, <1>2, <1>3, <1>5, <1>8, <2>1, <2>2 DEF PortTypes
<1>10. Running'
  BY <1>1, <1>2, <1>3 DEF Running
<1>11. Masked'
  <2>1. run'.at /= "cs"
    BY <1>1, <1>2, <1>3 DEF Masked
  <2>2. ~Nests => mask' /\ Len(irq') = 1
    <3>1. ~Nests => irq = <<>>
      BY <1>1, <1>2 DEF Masked
    <3>2. ~Nests => mask'
      BY <1>2
    <3>3. ~Nests => Len(irq') = 1
      BY <1>5, <3>1
    <3> QED BY <3>2, <3>3
  <2>3. Is("cortex-m3") => ctx' = ctx
    BY <1>8 DEF Is, Nests
  <2>4. Is("cortex-m3") /\ run.who = IdleLoop => run'.at \in {"loop", "sleep"}
    BY <1>1, <1>3 DEF Masked
  <2> QED BY <1>1, <1>2, <1>3, <1>5, <2>1, <2>2, <2>3, <2>4 DEF Masked, Is, Nests
<1>12. Nesting'
  BY <1>1, <1>2, <1>5 DEF Nesting, Is
<1>13. Saved'
  <2>1. (Is("cortex-a53") \/ Nests) /\ runtsk \in Task /\ int_nesting' = Len(irq') => ctx'[runtsk].at = run'.at
    <3> SUFFICES ASSUME (Is("cortex-a53") \/ Nests), runtsk \in Task, int_nesting' = Len(irq')
                 PROVE  ctx'[runtsk].at = run'.at
      OBVIOUS
    <3>1. run' = run /\ int_nesting = Len(irq)
      <4>1. Len(irq) \in Nat /\ int_nesting \in Nat
        BY <1>1, <1>5 DEF PortTypes
      <4>2. int_nesting + 1 = Len(irq) + 1
        BY <1>2, <1>5
      <4>3. int_nesting = Len(irq)
        BY <4>1, <4>2
      <4> QED BY <1>7, <4>3
    <3>2. CASE int_nesting = 0
      BY <1>8, <3>1, <3>2
    <3>3. CASE int_nesting /= 0
      <4>1. irq /= <<>>
        BY <3>1, <3>3
      <4> QED BY <1>1, <1>8, <3>1, <3>3, <4>1 DEF Saved
    <3> QED BY <3>2, <3>3
  <2>2. runtsk \in Task => runtsk = run.who
    BY <1>7
  <2>3. /\ \A t \in Task \ {run.who} : state[t] /= "none" => ctx'[t].at \in Away
        /\ \A t \in Task \ {run.who} : state[t] /= "none" /\ ctx'[t].at = "user" => state[t] = "ready"
    BY <1>1, <1>8, <2>2 DEF Saved
  <2> QED BY <1>2, <1>3, <2>1, <2>3 DEF Saved, Is, Nests
<1>14. NoneLeft'
  BY <1>1, <1>2, <1>3, <1>5 DEF NoneLeft, LeftForGood, Is, Ready
<1>15. Ring'
  BY <1>1, <1>2, UnchangedRing
<1>16. irq /= <<>> => Last(irq).vec = "uart" /\ Last(irq) = irq[Len(irq)] /\ Last(irq).at \in {"run", "done"}
  <2> SUFFICES ASSUME irq /= <<>>
               PROVE  Last(irq).vec = "uart" /\ Last(irq) = irq[Len(irq)] /\ Last(irq).at \in {"run", "done"}
    OBVIOUS
  <2>1. Last(irq) \in FrameType /\ Last(irq) = irq[Len(irq)]
    BY <1>5, TopOf
  <2>2. Last(irq).vec \in Vec /\ Last(irq).vec /= "tick"
    BY <1>2, <2>1 DEF TickAlone, FrameType
  <2> QED BY <1>1, <2>1, <2>2 DEF Walk, Vec
<1>17. timer_nesting = 0
  BY <1>1, <1>16 DEF Walk
<1>18. Walk'
  <2>1. \A i \in 1..(Len(irq') - 1) : irq'[i].at \in {"run", "done"} /\ irq'[i].vec = "uart"
    <3> SUFFICES ASSUME NEW i \in 1..(Len(irq') - 1)
                 PROVE  irq'[i].at \in {"run", "done"} /\ irq'[i].vec = "uart"
      OBVIOUS
    <3>1. i \in 1..Len(irq) /\ irq'[i] = irq[i] /\ Len(irq) \in Nat
      BY <1>5
    <3>2. CASE i = Len(irq)
      <4>1. irq /= <<>>
        BY <3>1, <3>2
      <4> QED BY <3>1, <3>2, <4>1, <1>16
    <3>3. CASE i /= Len(irq)
      <4>1. i \in 1..(Len(irq) - 1)
        BY <3>1, <3>3
      <4> QED BY <1>1, <3>1, <4>1 DEF Walk
    <3> QED BY <3>2, <3>3
  <2>2. /\ Last(irq').vec = "uart" => Last(irq').at \in {"run", "done"}
        /\ Last(irq').at /= "enter" /\ Last(irq').at /= "walk"
    BY <1>4, <1>5 DEF Vec
  <2> QED BY <1>1, <1>2, <1>17, <2>1, <2>2 DEF Walk
<1>19. Pc' = Pc
  <2>1. \A u \in Task : u /= run.who => ctx'[u] = ctx[u]
    BY <1>7, <1>8
  <2>2. \A u \in Task : u = run.who => run'.at = run.at
    BY <1>1, <1>3
  <2> QED BY <1>2, <1>3, <2>1, <2>2 DEF Pc
<1> QED BY <1>2, <1>9, <1>10, <1>11, <1>12, <1>13, <1>14, <1>15, <1>18, <1>19, StutterStep DEF PortInv

(* A handler that goes on: its frame is the last one.                      *)
LEMMA Going ==
  ASSUME PortInv, irq /= <<>>, NEW f \in FrameType, Goes(f), f.vec = Last(irq).vec
  PROVE  /\ irq' \in Seq(FrameType) /\ Len(irq') = Len(irq) /\ irq' /= <<>> /\ Last(irq') = f
         /\ \A i \in 1..(Len(irq') - 1) : irq'[i].at \in {"run", "done"} /\ irq'[i].vec = "uart"
<1>1. irq \in Seq(FrameType) /\ Walk
  BY DEF PortInv, PortTypes
<1>2. /\ irq' \in Seq(FrameType) /\ Len(irq') = Len(irq) /\ irq' /= <<>> /\ Last(irq') = f
      /\ \A i \in 1..(Len(irq) - 1) : irq'[i] = irq[i]
  BY <1>1, NewTop DEF Goes
<1>3. \A i \in 1..(Len(irq) - 1) : irq[i].at \in {"run", "done"} /\ irq[i].vec = "uart"
  BY <1>1 DEF Walk
<1> QED BY <1>2, <1>3

LEMMA LastFrame ==
  ASSUME PortInv, irq /= <<>>
  PROVE  /\ Last(irq) \in FrameType /\ Len(irq) \in Nat \ {0}
         /\ run.at /= "cs"
         /\ Last(irq).vec \in Vec /\ Last(irq).event \in Node
         /\ Last(irq) = [vec |-> Last(irq).vec, at |-> Last(irq).at, event |-> Last(irq).event]
<1>1. irq \in Seq(FrameType) /\ Masked
  BY DEF PortInv, PortTypes
<1>2. Last(irq) \in FrameType /\ Len(irq) \in Nat \ {0}
  BY <1>1, TopOf
<1>3. run.at /= "cs"
  BY <1>1 DEF Masked
<1> QED BY <1>2, <1>3 DEF FrameType

(* A handler that releases nobody.                                         *)
LEMMA HandlerInv ==
  ASSUME PortInv, irq /= <<>>, NEW f \in FrameType, Goes(f), f.vec = Last(irq).vec,
         UNCHANGED <<port, runtsk, run, pendsv, int_nesting, state, ctx, queue>>,
         DOMAIN count' = Task, mask' \in BOOLEAN, ~Nests => mask',
         timer_nesting' \in {0, 1},
         f.vec = "uart" => f.at \in {"run", "done"},
         f.at = "enter" => f.event = queue.next[QHead],
         f.at = "walk" => f.event \in Linked /\ mask',
         timer_nesting' /= 0 => f.at = "walk"
  PROVE  PortInv' /\ Step
<1>1. /\ PortTypes /\ Running /\ Masked /\ Nesting /\ Saved /\ NoneLeft /\ Ring /\ Walk
  BY DEF PortInv
<1>2. /\ irq' \in Seq(FrameType) /\ Len(irq') = Len(irq) /\ irq' /= <<>> /\ Last(irq') = f
      /\ \A i \in 1..(Len(irq') - 1) : irq'[i].at \in {"run", "done"} /\ irq'[i].vec = "uart"
  BY Going
<1>3. PortTypes'
  BY <1>1, <1>2 DEF PortTypes
<1>4. Running' /\ Nesting' /\ Saved'
  BY <1>1, <1>2 DEF Running, Nesting, Saved, Is, Nests
<1>5. Masked'
  BY <1>1, <1>2 DEF Masked, Is, Nests
<1>6. NoneLeft'
  BY <1>1, <1>2 DEF NoneLeft, LeftForGood, Ready, Is
<1>7. Ring' /\ Linked' = Linked
  BY <1>1, UnchangedRing
<1>8. Walk'
  BY <1>2, <1>7 DEF Walk, Event
<1>9. Pc' = Pc
  BY DEF Pc
<1> QED BY <1>3, <1>4, <1>5, <1>6, <1>7, <1>8, <1>9, StutterStep DEF PortInv

(* A handler that releases a task: an interrupt of the abstract threads.   *)
LEMMA HandlerReleases ==
  ASSUME PortInv, irq /= <<>>, NEW f \in FrameType, Goes(f), f.vec = Last(irq).vec,
         NEW x \in Task, Freed(x), DOMAIN count' = Task,
         UNCHANGED <<port, runtsk, run, pendsv, int_nesting, mask, timer_nesting>>,
         f.vec = "uart" => f.at \in {"run", "done"},
         f.at /= "enter",
         f.at = "walk" => f.event \in Linked /\ f.event /= x /\ state[x] = "wait" /\ mask,
         timer_nesting /= 0 => f.at = "walk"
  PROVE  PortInv' /\ Step
<1>1. /\ PortTypes /\ Running /\ Masked /\ Nesting /\ Saved /\ NoneLeft /\ Ring /\ Walk
      /\ run.at /= "cs" /\ mask \in BOOLEAN
      /\ run \in [who : Task \union {IdleLoop, Nobody},
              at  : Place \union {"returned", "test", "loop", "sleep", "lock", "spin"}]
  BY LastFrame DEF PortInv, PortTypes
<1>2. /\ irq' \in Seq(FrameType) /\ Len(irq') = Len(irq) /\ irq' /= <<>> /\ Last(irq') = f
      /\ \A i \in 1..(Len(irq') - 1) : irq'[i].at \in {"run", "done"} /\ irq'[i].vec = "uart"
  BY Going
<1>3. /\ state[x] \in {"wait", "none"}
      /\ state' = [state EXCEPT ![x] = "ready"]
      /\ state'[x] = "ready" /\ \A u \in Task \ {x} : state'[u] = state[u]
      /\ \A u \in Task \ {x} : ctx'[u] = ctx[u]
      /\ state[x] = "wait" => ctx' = ctx
      /\ state[x] = "none" => ctx'[x] = Fresh /\ run.who /= x
      /\ state[x] = "wait" => Linked' = Linked \ {x}
  BY ReleaseParts
<1>4. PortTypes' /\ Running' /\ Nesting' /\ Saved' /\ NoneLeft' /\ Ring'
  BY <1>1, <1>2, ReleaseInv
<1>5. Masked'
  <2>1. Is("cortex-m3") => \A u \in Task : ~ctx'[u].mask
    BY <1>1, <1>3 DEF Masked, Fresh
  <2> QED BY <1>1, <1>2, <2>1 DEF Masked, Is, Nests
<1>6. Walk'
  BY <1>1, <1>2, <1>3 DEF Walk, Event
<1>7. Pc' = IF state[x] = "none" THEN [Pc EXCEPT ![x] = "user"] ELSE Pc
  <2>1. \A u \in Task : Pc'[u] = IF u = x /\ state[x] = "none" THEN "user" ELSE Pc[u]
    BY <1>3 DEF Pc, Fresh
  <2>2. Pc = [u \in Task |-> Pc[u]] /\ Pc' = [u \in Task |-> Pc'[u]]
    BY DEF Pc
  <2> HIDE DEF Pc
  <2>3. CASE state[x] = "none"
    BY <2>1, <2>2, <2>3
  <2>4. CASE state[x] = "wait"
    BY <2>1, <2>2, <2>4
  <2> QED BY <2>3, <2>4, <1>3
<1>8. \A u \in Task : Pc[u] /= "cs"
  BY <1>1, Sections
<1>9. Promise!Released(Pc, x)
  BY <1>3, <1>7 DEF Promise!Released, Pc
<1>10. Promise!Interrupt
  BY <1>8, <1>9 DEF Promise!Interrupt, Promise!NoSection, Pc
<1> QED BY <1>4, <1>5, <1>6, <1>10 DEF PortInv, Step, Promise!Next

LEMMA UartHandlerStep ==
  ASSUME PortInv, uart_handler
  PROVE  PortInv' /\ Step
<1> DEFINE f == [Last(irq) EXCEPT !.at = "done"]
<1>1. /\ irq /= <<>> /\ Last(irq).at = "run" /\ Goes(f)
      /\ UNCHANGED <<port, runtsk, run, pendsv, int_nesting, mask, timer_nesting>>
  BY DEF uart_handler, Handles, GoesTo, Rest
<1>2. /\ Last(irq) \in FrameType
      /\ Last(irq) = [vec |-> Last(irq).vec, at |-> Last(irq).at, event |-> Last(irq).event]
      /\ PortTypes /\ Walk /\ Masked
  BY <1>1, LastFrame DEF PortInv
<1>3. f \in FrameType /\ f.vec = Last(irq).vec /\ f.at = "done"
  BY <1>2 DEF FrameType
<1>4. timer_nesting = 0
  BY <1>1, <1>2 DEF Walk
<1>5. DOMAIN count = Task /\ mask \in BOOLEAN /\ (~Nests => mask)
  BY <1>1, <1>2 DEF PortTypes, Masked
<1> HIDE DEF f
<1>6. CASE UNCHANGED <<state, ctx, queue, count>>
  <2>1. mask' \in BOOLEAN /\ (~Nests => mask')
    BY <1>1, <1>5
  <2> QED BY <1>1, <1>3, <1>4, <1>5, <1>6, <2>1, HandlerInv
<1>7. ASSUME NEW x \in Task, release(x) PROVE PortInv' /\ Step
  <2>1. Freed(x) /\ DOMAIN count' = Task
    BY <1>5, <1>7 DEF release, Freed
  <2> QED BY <1>1, <1>3, <1>4, <2>1, HandlerReleases
<1> QED BY <1>6, <1>7 DEF uart_handler

LEMMA TimerReadStep ==
  ASSUME PortInv, timer_read
  PROVE  PortInv' /\ Step
<1> DEFINE f == [Last(irq) EXCEPT !.at = "enter", !.event = queue.next[QHead]]
<1>1. /\ irq /= <<>> /\ Last(irq).at = "read" /\ Goes(f)
      /\ UNCHANGED <<port, runtsk, run, pendsv, int_nesting, mask, state, ctx, timer_nesting, queue, count>>
  BY DEF timer_read, Handles, Rest, timer
<1>2. /\ Last(irq) \in FrameType /\ Last(irq).vec \in Vec
      /\ Last(irq) = [vec |-> Last(irq).vec, at |-> Last(irq).at, event |-> Last(irq).event]
      /\ PortTypes /\ Walk /\ Masked
  BY <1>1, LastFrame DEF PortInv
<1>3. queue.next[QHead] \in Node
  BY <1>2, NodeOK DEF PortTypes
<1>4. f \in FrameType /\ f.vec = Last(irq).vec /\ f.at = "enter" /\ f.event = queue.next[QHead]
  BY <1>2, <1>3 DEF FrameType
<1>5. timer_nesting = 0 /\ Last(irq).vec /= "uart"
  BY <1>1, <1>2 DEF Walk
<1>6. DOMAIN count = Task /\ mask \in BOOLEAN /\ (~Nests => mask)
  BY <1>1, <1>2 DEF PortTypes, Masked
<1> HIDE DEF f
<1>7. mask' \in BOOLEAN /\ (~Nests => mask')
  BY <1>1, <1>6
<1> QED BY <1>1, <1>4, <1>5, <1>6, <1>7, HandlerInv

LEMMA TimerEnterStep ==
  ASSUME PortInv, timer_hw_enter
  PROVE  PortInv' /\ Step
<1> DEFINE f == [Last(irq) EXCEPT !.at = "walk"]
<1>1. /\ irq /= <<>> /\ Last(irq).at = "enter"
      /\ UNCHANGED <<port, runtsk, run, pendsv, int_nesting, state, ctx, queue, count>>
  BY DEF timer_hw_enter, Handles, Rest
<1>2. /\ Last(irq) \in FrameType /\ Last(irq).vec \in Vec
      /\ Last(irq) = [vec |-> Last(irq).vec, at |-> Last(irq).at, event |-> Last(irq).event]
      /\ PortTypes /\ Walk /\ Ring
  BY <1>1, LastFrame DEF PortInv
<1>3. timer_nesting = 0 /\ Last(irq).vec /= "uart" /\ Last(irq).event = queue.next[QHead]
  BY <1>1, <1>2 DEF Walk, Event
<1>4. Goes(f) /\ mask' = TRUE /\ timer_nesting' \in {0, 1}
  BY <1>3 DEF timer_hw_enter, GoesTo
<1>5. f \in FrameType /\ f.vec = Last(irq).vec /\ f.at = "walk" /\ f.event = Last(irq).event
  BY <1>2 DEF FrameType
<1>6. Last(irq).event \in Linked
  BY <1>2, <1>3 DEF Ring, Linked
<1>7. DOMAIN count' = Task
  BY <1>1, <1>2 DEF PortTypes
<1> HIDE DEF f
<1> QED BY <1>1, <1>3, <1>4, <1>5, <1>6, <1>7, HandlerInv

(* What the handler walks to is in the queue: its task waits.              *)
LEMMA WalkingOn ==
  ASSUME PortInv, irq /= <<>>, Last(irq).at = "walk", Event /= QHead
  PROVE  /\ Event \in Task /\ state[Event] = "wait"
         /\ queue.next[Event] \in Linked /\ queue.next[Event] /= Event
BY DEF PortInv, Walk, Ring, Linked, Timed

LEMMA TimerWalkStep ==
  ASSUME PortInv, timer_walk
  PROVE  PortInv' /\ Step
<1> DEFINE f == [Last(irq) EXCEPT !.event = queue.next[Event]]
<1>1. /\ irq /= <<>> /\ Last(irq).at = "walk" /\ Event /= QHead /\ Goes(f)
      /\ UNCHANGED <<port, runtsk, run, pendsv, int_nesting, mask, ctx, timer_nesting>>
      /\ count' = [count EXCEPT ![Event] = (@ + COUNTS - 1) % COUNTS]
      /\ IF Due
         THEN /\ queue' = kqueue_remove(queue, Event)
              /\ state' = [state EXCEPT ![Event] = "ready"]
         ELSE UNCHANGED <<queue, state>>
  BY DEF timer_walk, Handles, Rest
<1>2. /\ Last(irq) \in FrameType /\ Last(irq).vec \in Vec
      /\ Last(irq) = [vec |-> Last(irq).vec, at |-> Last(irq).at, event |-> Last(irq).event]
      /\ PortTypes /\ Walk /\ Ring
  BY <1>1, LastFrame DEF PortInv
<1>3. /\ Event \in Task /\ state[Event] = "wait"
      /\ queue.next[Event] \in Linked /\ queue.next[Event] /= Event
  BY <1>1, WalkingOn
<1>4. mask /\ timer_nesting \in {0, 1} /\ Last(irq).vec /= "uart"
  BY <1>1, <1>2 DEF Walk
<1>5. queue.next[Event] \in Node
  BY <1>3 DEF Linked, Timed, Node
<1>6. f \in FrameType /\ f.vec = Last(irq).vec /\ f.at = "walk" /\ f.event = queue.next[Event]
  BY <1>1, <1>2, <1>5 DEF FrameType
<1>7. DOMAIN count' = Task
  BY <1>1, <1>2 DEF PortTypes
<1> HIDE DEF f
<1>8. CASE Due
  <2>1. Freed(Event)
    BY <1>1, <1>3, <1>8 DEF Freed
  <2> QED BY <1>1, <1>3, <1>4, <1>6, <1>7, <2>1, HandlerReleases
<1>9. CASE ~Due
  <2>1. UNCHANGED <<queue, state>> /\ mask' = mask /\ mask' \in BOOLEAN
    BY <1>1, <1>2, <1>9 DEF PortTypes
  <2> QED BY <1>1, <1>3, <1>4, <1>6, <1>7, <2>1, HandlerInv
<1> QED BY <1>8, <1>9

LEMMA TimerExitStep ==
  ASSUME PortInv, timer_exit
  PROVE  PortInv' /\ Step
<1> DEFINE at == IF Is("linux-user") THEN "run" ELSE "done"
           f == [Last(irq) EXCEPT !.at = at]
<1>1. /\ irq /= <<>> /\ Last(irq).at = "walk" /\ Goes(f)
      /\ UNCHANGED <<port, runtsk, run, pendsv, int_nesting, state, ctx, queue, count>>
      /\ timer_nesting' = IF timer_nesting = 0 THEN 0 ELSE timer_nesting - 1
      /\ mask' = ~Nests
  BY DEF timer_exit, Handles, Rest, GoesTo
<1>2. /\ Last(irq) \in FrameType /\ Last(irq).vec \in Vec
      /\ Last(irq) = [vec |-> Last(irq).vec, at |-> Last(irq).at, event |-> Last(irq).event]
      /\ PortTypes /\ Walk
  BY <1>1, LastFrame DEF PortInv
<1>3. at \in {"run", "done"}
  OBVIOUS
<1> HIDE DEF at
<1>4. f \in FrameType /\ f.vec = Last(irq).vec /\ f.at = at
  BY <1>2, <1>3 DEF FrameType
<1>5. timer_nesting' = 0
  BY <1>1, <1>2 DEF Walk
<1>6. DOMAIN count' = Task /\ mask' \in BOOLEAN /\ (~Nests => mask')
  BY <1>1, <1>2 DEF PortTypes
<1> HIDE DEF f
<1> QED BY <1>1, <1>3, <1>4, <1>5, <1>6, HandlerInv

------------------------------------------------------------------------------
(* The end of a handler.                                                   *)
LEMMA Popping ==
  ASSUME PortInv, irq /= <<>>, Last(irq).at = "done", irq' = Front(irq)
  PROVE  /\ irq' \in Seq(FrameType) /\ Len(irq') = Len(irq) - 1 /\ Len(irq) \in Nat \ {0}
         /\ timer_nesting = 0
         /\ timer_nesting' = timer_nesting => Walk'
<1>1. irq \in Seq(FrameType) /\ Walk
  BY DEF PortInv, PortTypes
<1>2. /\ irq' \in Seq(FrameType) /\ Len(irq') = Len(irq) - 1 /\ Len(irq) \in Nat \ {0}
      /\ \A i \in 1..(Len(irq) - 1) : irq'[i] = irq[i]
  BY <1>1, TopOf
<1>3. timer_nesting = 0
  BY <1>1 DEF Walk
<1>4. \A i \in 1..Len(irq') : irq'[i].at \in {"run", "done"} /\ irq'[i].vec = "uart"
  BY <1>1, <1>2 DEF Walk
<1>5. irq' /= <<>> => Last(irq').at \in {"run", "done"}
  <2> SUFFICES ASSUME irq' /= <<>> PROVE Last(irq').at \in {"run", "done"}
    OBVIOUS
  <2>1. Len(irq') \in Nat \ {0} /\ Last(irq') = irq'[Len(irq')]
    BY <1>2 DEF Last
  <2> QED BY <2>1, <1>4
<1>6. ASSUME timer_nesting' = timer_nesting PROVE Walk'
  <2>1. \A i \in 1..(Len(irq') - 1) : irq'[i].at \in {"run", "done"} /\ irq'[i].vec = "uart"
    BY <1>2, <1>4
  <2> QED BY <1>3, <1>5, <1>6, <2>1 DEF Walk
<1> QED BY <1>2, <1>3, <1>6

(* Back to what was interrupted: a handler, or cortex-m3's and linux's     *)
(* task.                                                                   *)
LEMMA ExitReturns ==
  ASSUME PortInv, irq /= <<>>, Last(irq).at = "done", irq' = Front(irq),
         mask' = FALSE, int_nesting' = int_nesting - 1, pendsv' \in BOOLEAN,
         pendsv => pendsv', pendsv' => Is("cortex-m3"),
         Is("cortex-m3") \/ Is("linux-user") \/ (Nests /\ int_nesting > 1),
         UNCHANGED <<ctx, run, runtsk, port, state, timer_nesting, queue, count>>
  PROVE  PortInv' /\ Step
<1>1. /\ PortTypes /\ Running /\ Masked /\ Nesting /\ Saved /\ NoneLeft /\ Ring
      /\ run.at /= "cs"
  BY LastFrame DEF PortInv
<1>2. /\ irq' \in Seq(FrameType) /\ Len(irq') = Len(irq) - 1 /\ Len(irq) \in Nat \ {0}
      /\ timer_nesting = 0 /\ Walk'
  BY Popping
<1>3. int_nesting \in Nat /\ int_nesting - 1 \in Nat
  BY <1>1, <1>2 DEF Nesting, PortTypes
<1>4. PortTypes'
  BY <1>1, <1>2, <1>3 DEF PortTypes
<1>5. Running'
  BY <1>1 DEF Running
<1>6. Masked'
  <2>1. ~Nests => Len(irq') = 0
    BY <1>1, <1>2 DEF Masked
  <2>2. ~Nests => irq' = <<>>
    BY <1>2, <2>1, EmptySeq
  <2> QED BY <1>1, <2>2 DEF Masked, Is, Nests
<1>7. Nesting'
  BY <1>1, <1>2, <1>3 DEF Nesting, Is
<1>8. Saved'
  <2>1. int_nesting' = Len(irq') => int_nesting = Len(irq)
    BY <1>2, <1>3
  <2> QED BY <1>1, <2>1 DEF Saved, Is, Nests
<1>9. NoneLeft'
  BY <1>1 DEF NoneLeft, LeftForGood, Ready, Is
<1>10. Ring'
  BY <1>1, UnchangedRing
<1>11. Pc' = Pc
  BY DEF Pc
<1> QED BY <1>2, <1>4, <1>5, <1>6, <1>7, <1>8, <1>9, <1>10, <1>11, StutterStep DEF PortInv

(* The outermost handler goes on with the highest of the ready tasks.      *)
LEMMA ExitSwitches ==
  ASSUME PortInv, irq /= <<>>, Last(irq).at = "done", irq' = Front(irq),
         Is("cortex-a53") \/ Nests, int_nesting = 1, switch(ctx, int_nesting - 1),
         UNCHANGED <<pendsv, port, state, timer_nesting, queue, count>>
  PROVE  PortInv' /\ Step
<1>1. /\ PortTypes /\ Running /\ Masked /\ Nesting /\ Saved
      /\ ctx \in [Task -> Context]
  BY DEF PortInv, PortTypes
<1>2. /\ irq' \in Seq(FrameType) /\ Len(irq') = Len(irq) - 1 /\ Len(irq) \in Nat \ {0}
      /\ timer_nesting = 0
  BY Popping
<1>3. Len(irq) = 1
  BY <1>1, <1>2 DEF Nesting
<1>4. irq' = <<>>
  BY <1>2, <1>3
<1>5. ~Is("cortex-m3") /\ pendsv' = FALSE
  BY <1>1 DEF Is, Nests, Masked, PortTypes
<1>6. run.who \in Task => /\ ctx[run.who].at = run.at /\ state[run.who] \in {"ready", "wait"}
                          /\ run.at \in Place /\ run.at /= "cs"
                          /\ (run.at = "user" => state[run.who] = "ready")
  BY <1>1, <1>3, LastFrame DEF Running, Saved
<1>7. /\ \A u \in Task : state[u] /= "none" => ctx[u].at \in Away
      /\ \A u \in Task : state[u] /= "none" /\ ctx[u].at = "user" => state[u] = "ready"
  <2>1. run.who \in Task => run.at \in Away
    BY <1>6 DEF Place, Away
  <2> QED BY <1>1, <1>6, <2>1 DEF Saved
<1>8. int_nesting - 1 = 0
  OBVIOUS
<1>9. switch(ctx, 0)
  BY <1>8
<1>10. /\ PortInv'
       /\ Pc' = [u \in Task |-> IF state[u] = "none" THEN "none" ELSE ctx[u].at]
  BY <1>1, <1>2, <1>4, <1>5, <1>7, <1>9, SwitchInv
<1>11. Pc' = Pc
  BY <1>6, <1>10 DEF Pc
<1> QED BY <1>10, <1>11, StutterStep

(* cortex-a53: the task that was interrupted goes on.                      *)
LEMMA ExitGoesOn ==
  ASSUME PortInv, irq /= <<>>, Last(irq).at = "done", irq' = Front(irq),
         Is("cortex-a53"), mask' = FALSE, int_nesting' = int_nesting - 1,
         ctx' = IF runtsk = NoTask THEN ctx ELSE [ctx EXCEPT ![runtsk] = Popped],
         UNCHANGED <<run, runtsk, pendsv, port, state, timer_nesting, queue, count>>
  PROVE  PortInv' /\ Step
<1>1. /\ PortTypes /\ Running /\ Masked /\ Nesting /\ Saved /\ NoneLeft /\ Ring
      /\ run.at /= "cs" /\ NoTask \notin Task
  BY LastFrame, PortAssumption DEF PortInv
<1>2. /\ irq' \in Seq(FrameType) /\ Len(irq') = Len(irq) - 1 /\ Len(irq) \in Nat \ {0}
      /\ timer_nesting = 0 /\ Walk'
  BY Popping
<1>3. Len(irq) = 1 /\ int_nesting = 1
  BY <1>1, <1>2 DEF Nesting, Masked, Is, Nests
<1>4. irq' = <<>> /\ int_nesting' = 0
  BY <1>2, <1>3
<1>5. Popped \in Context
  BY DEF Popped, Context
<1>6. /\ ctx' \in [Task -> Context]
      /\ \A u \in Task \ {run.who} : ctx'[u] = ctx[u]
  BY <1>1, <1>5 DEF PortTypes, Running
<1>7. PortTypes'
  BY <1>1, <1>2, <1>4, <1>6 DEF PortTypes
<1>8. Running'
  BY <1>1 DEF Running
<1>9. Masked'
  BY <1>1, <1>4 DEF Masked, Is, Nests
<1>10. Nesting'
  BY <1>4 DEF Nesting, Is
<1>11. Saved'
  BY <1>1, <1>4, <1>6 DEF Saved, Is, Nests
<1>12. NoneLeft'
  BY <1>1 DEF NoneLeft, LeftForGood, Ready, Is
<1>13. Ring'
  BY <1>1, UnchangedRing
<1>14. Pc' = Pc
  BY <1>6 DEF Pc
<1> QED BY <1>2, <1>7, <1>8, <1>9, <1>10, <1>11, <1>12, <1>13, <1>14, StutterStep DEF PortInv

LEMMA ExitStep ==
  ASSUME PortInv, irq_exit, port \in Ports
  PROVE  PortInv' /\ Step
<1>1. /\ irq /= <<>> /\ Last(irq).at = "done" /\ irq' = Front(irq)
      /\ UNCHANGED <<port, state, timer_nesting, queue, count>>
  BY DEF irq_exit, Handles, timer
<1>2. PortTypes /\ Masked /\ pendsv \in BOOLEAN /\ Nesting /\ Len(irq) \in Nat \ {0} /\ int_nesting \in Nat
  BY <1>1, LastFrame DEF PortInv, PortTypes
<1>3. CASE Is("cortex-m3")
  <2>1. irq_return_m3
    BY <1>3 DEF irq_exit, Is
  <2> QED BY <1>1, <1>2, <1>3, <2>1, ExitReturns DEF irq_return_m3
<1>4. CASE Is("linux-user")
  <2>1. irq_return_nested
    BY <1>4 DEF irq_exit, Is
  <2>2. (pendsv => pendsv') /\ (pendsv' => Is("cortex-m3")) /\ pendsv' \in BOOLEAN
    BY <1>2, <2>1 DEF irq_return_nested, Masked
  <2> QED BY <1>1, <1>2, <1>4, <2>1, <2>2, ExitReturns DEF irq_return_nested
<1>5. CASE Is("cortex-a53")
  <2>1. irq_return_a53
    BY <1>5 DEF irq_exit, Is
  <2>2. int_nesting = 1
    BY <1>1, <1>2, <1>5 DEF Nesting, Masked, Is, Nests
  <2>3. CASE schedtsk /= runtsk
    <3>1. switch(ctx, int_nesting - 1) /\ pendsv' = pendsv
      BY <2>1, <2>3 DEF irq_return_a53
    <3> QED BY <1>1, <1>5, <2>2, <3>1, ExitSwitches
  <2>4. CASE schedtsk = runtsk
    BY <1>1, <1>5, <2>1, <2>4, ExitGoesOn DEF irq_return_a53
  <2> QED BY <2>3, <2>4
<1>6. CASE Nests
  <2>1. IF int_nesting > 1 THEN irq_return_nested
        ELSE switch(ctx, int_nesting - 1) /\ UNCHANGED pendsv
    BY <1>6 DEF irq_exit, Is, Nests
  <2>2. CASE int_nesting > 1
    <3>1. irq_return_nested /\ (pendsv => pendsv') /\ (pendsv' => Is("cortex-m3")) /\ pendsv' \in BOOLEAN
      BY <1>2, <2>1, <2>2 DEF irq_return_nested, Masked
    <3> QED BY <1>1, <1>2, <1>6, <2>2, <3>1, ExitReturns DEF irq_return_nested
  <2>3. CASE ~(int_nesting > 1)
    <3>1. int_nesting = 1
      BY <1>2, <2>3 DEF Nesting
    <3> QED BY <1>1, <1>6, <2>1, <2>3, <3>1, ExitSwitches
  <2> QED BY <2>2, <2>3
<1> QED BY <1>3, <1>4, <1>5, <1>6, PortAssumption DEF Is, Nests

------------------------------------------------------------------------------
LEMMA PortStart ==
  ASSUME PortInit
  PROVE  PortInv /\ Promise!Init
<1>1. PICK t0 \in Task : state = [x \in Task |-> IF x = t0 THEN "ready" ELSE "none"]
  BY DEF PortInit
<1>2. /\ port \in Ports \union {NoPort} /\ runtsk = NoTask
      /\ ctx = [t \in Task |-> IF state[t] = "ready" THEN Fresh ELSE Popped]
      /\ run = [who |-> Nobody, at |-> "out"] /\ mask = (port = "linux-user")
      /\ irq = <<>> /\ pendsv = FALSE /\ int_nesting = 0 /\ timer_nesting = 0
      /\ queue = [next |-> [n \in Node |-> n], prev |-> [n \in Node |-> n]]
      /\ count = [t \in Task |-> 0]
      /\ NoTask \notin Task /\ Nobody \notin Task /\ Nobody /= IdleLoop
  BY PortAssumption DEF PortInit, Node
<1>3. Fresh \in Context /\ Popped \in Context /\ ~Fresh.mask /\ ~Popped.mask /\ Fresh.at = "user"
  BY DEF Fresh, Popped, Context, Away
<1>4. <<>> \in Seq(FrameType) /\ Len(<<>>) = 0
  OBVIOUS
<1>5. PortTypes
  BY <1>1, <1>2, <1>3, <1>4 DEF PortTypes, Place
<1>6. Running
  BY <1>2 DEF Running
<1>7. Masked
  BY <1>2, <1>3 DEF Masked, Is, Nests
<1>8. Nesting
  BY <1>2, <1>4 DEF Nesting
<1>9. Saved
  BY <1>1, <1>2, <1>3 DEF Saved, Away
<1>10. NoneLeft
  BY <1>1, <1>2 DEF NoneLeft, LeftForGood, Ready
<1>11. Linked = {QHead}
  BY <1>1 DEF Linked, Timed
<1>12. Ring
  <2>1. queue.next[QHead] = QHead /\ queue.prev[QHead] = QHead
    BY <1>2, NodeOK
  <2>2. [n \in Node |-> 0] \in [Node -> Nat]
    OBVIOUS
  <2> QED BY <1>11, <2>1, <2>2 DEF Ring
<1>13. Walk
  BY <1>2, <1>4 DEF Walk
<1>14. Pc = [x \in Task |-> IF x = t0 THEN "user" ELSE "none"]
  BY <1>1, <1>2, <1>3 DEF Pc
<1>15. Promise!Init
  BY <1>1, <1>14 DEF Promise!Init, Pc
<1> QED BY <1>5, <1>6, <1>7, <1>8, <1>9, <1>10, <1>12, <1>13, <1>15 DEF PortInv

LEMMA PortStep ==
  ASSUME PortInv, TickAlone, port \in Ports, PortNext
  PROVE  PortInv' /\ Step
<1>1. ASSUME NEW v \in Vec, irq_entry(v) PROVE PortInv' /\ Step
  BY <1>1, EntryStep
<1>2. CASE Handler
  BY <1>2, UartHandlerStep, TimerReadStep, TimerEnterStep, TimerWalkStep, TimerExitStep, ExitStep
     DEF Handler
<1>3. CASE Progress
  <2>1. ASSUME NEW t \in Task \union {Nobody}, InCall(t) PROVE PortInv' /\ Step
    BY <2>1, WaitsStep, ReleasesStep, ChangesNothingStep, ExtStep, DispatchStep, EndSectionStep
       DEF InCall
  <2> QED BY <1>3, <2>1, PendSVStep, IdleStep DEF Progress
<1>4. ASSUME NEW t \in Task, call(t) PROVE PortInv' /\ Step
  BY <1>4, CallStep
<1> QED BY <1>1, <1>2, <1>3, <1>4 DEF PortNext

LEMMA PortStays ==
  ASSUME PortInv, UNCHANGED portvars
  PROVE  PortInv' /\ Step
<1>1. UNCHANGED <<port, state, runtsk, ctx, run, mask, irq, pendsv, int_nesting,
                  timer_nesting, queue, count>>
  BY DEF portvars
<1>2. PortTypes' /\ Running' /\ Masked' /\ Nesting' /\ Saved' /\ NoneLeft'
  BY <1>1 DEF PortInv, PortTypes, Running, Masked, Nesting, Saved, NoneLeft, LeftForGood, Ready, Is, Nests
<1>3. Ring' /\ Linked' = Linked
  BY <1>1, UnchangedRing DEF PortInv
<1>4. Walk'
  BY <1>1, <1>3 DEF PortInv, Walk, Event
<1>5. Pc' = Pc
  BY <1>1 DEF Pc
<1> QED BY <1>1, <1>2, <1>3, <1>4, <1>5, StutterStep DEF PortInv

------------------------------------------------------------------------------
(* The uart.                                                               *)
(* Rests, and the sum of one and a number.                                 *)
LEMMA DivMod ==
  ASSUME NEW B \in Nat \ {0}, NEW p \in Nat
  PROVE  /\ p \div B \in Nat /\ (p % B) \in 0..(B - 1)
         /\ p = (p \div B) * B + (p % B)
OBVIOUS

LEMMA ModIs ==
  ASSUME NEW B \in Nat \ {0}, NEW q \in Nat, NEW r \in 0..(B - 1)
  PROVE  (q * B + r) % B = r
<1> DEFINE n == q * B + r
           d == n \div B
           m == n % B
<1>0. q * B \in Nat
  OBVIOUS
<1>1. n \in Nat
  BY <1>0
<1> HIDE DEF n
<1>2. d \in Nat /\ m \in 0..(B - 1) /\ n = d * B + m
  BY <1>1, DivMod
<1> HIDE DEF d, m
<1>3. CASE d < q
  <2>1. d + 1 <= q
    BY <1>2, <1>3
  <2>2. (d + 1) * B <= q * B
    BY <1>2, <2>1
  <2>3. (d + 1) * B = d * B + B
    BY <1>2
  <2>4. d * B \in Nat
    BY <1>2
  <2> QED BY <1>0, <1>2, <2>2, <2>3, <2>4 DEF n
<1>4. CASE q < d
  <2>1. q + 1 <= d
    BY <1>2, <1>4
  <2>2. (q + 1) * B <= d * B
    BY <1>2, <2>1
  <2>3. (q + 1) * B = q * B + B
    OBVIOUS
  <2>4. d * B \in Nat
    BY <1>2
  <2> QED BY <1>0, <1>2, <2>2, <2>3, <2>4 DEF n
<1>5. CASE q = d
  BY <1>0, <1>2, <1>5 DEF n, m
<1> QED BY <1>2, <1>3, <1>4, <1>5

LEMMA ModAdd ==
  ASSUME NEW B \in Nat \ {0}, NEW a \in Nat, NEW b \in Nat
  PROVE  ((a % B) + b) % B = (a + b) % B
<1> DEFINE q == a \div B
           r == a % B
           d == (r + b) \div B
           m == (r + b) % B
<1>1. q \in Nat /\ r \in 0..(B - 1) /\ a = q * B + r
  BY DivMod
<1> HIDE DEF q, r
<1>2. d \in Nat /\ m \in 0..(B - 1) /\ r + b = d * B + m
  <2>1. r + b \in Nat
    BY <1>1
  <2> QED BY <2>1, DivMod
<1> HIDE DEF d, m
<1>3. q * B \in Nat /\ d * B \in Nat /\ (q + d) * B = q * B + d * B
  BY <1>1, <1>2
<1>4. a + b = (q + d) * B + m
  BY <1>1, <1>2, <1>3
<1>5. ((q + d) * B + m) % B = m
  <2>1. q + d \in Nat
    BY <1>1, <1>2
  <2> QED BY <1>2, <2>1, ModIs
<1> QED BY <1>4, <1>5 DEF m, r

Out == {"x", "cr", "nl"}
Slot == (User \X Out) \union Nat \union {NoByte}
RingType == [buf : [0..(UART_FIFO_SIZE - 1) -> Slot], head : 0..(UART_FIFO_SIZE - 1),
             tail : 0..(UART_FIFO_SIZE - 1), count : 0..UART_FIFO_SIZE]
HwType == [rx : Seq(Nat), tx : Seq(Slot), stat : BOOLEAN, ie : BOOLEAN]
Waiter == [user : User, bit : {RX, TX}]

UartTypes ==
  /\ board \in Board /\ uses \in Uses
  /\ rx \in RingType /\ tx \in RingType
  /\ hw \in HwType /\ ready \in BOOLEAN
  /\ flg \in [ptn : SUBSET {RX, TX}, wait : Seq(Waiter)]
  /\ io \in [User -> [at : {"idle", "try", "wait", "blocked"}, todo : Seq(Out)]]
  /\ wrote \in Nat /\ came \in Nat

(* Both rings are rings, and the FIFOs hold what they can.                 *)
Rings ==
  /\ RingOK(rx) /\ RingOK(tx)
  /\ Len(hw.rx) <= Depth /\ Len(hw.tx) <= Depth

(* The flag's queue: who is blocked, once each, and on the bit of its call.*)
Blocked(u) == io[u].at = "blocked"
Queued ==
  /\ \A n \in DOMAIN flg.wait : /\ Blocked(flg.wait[n].user)
                                /\ flg.wait[n].bit = RX <=> io[flg.wait[n].user].todo = <<>>
  /\ \A m, n \in DOMAIN flg.wait : flg.wait[m].user = flg.wait[n].user => m = n
  /\ \A u \in User : Blocked(u) => \E n \in DOMAIN flg.wait : flg.wait[n].user = u
Calls ==
  \A u \in User : /\ io[u].at = "idle" => io[u].todo = <<>>
                  /\ io[u].at /= "idle" => uses[u] /= {}

(* Who is alone and between its look at the ring and its wait finds the    *)
(* flag set if there was input since.                                      *)
Told ==
  Alone => \A u \in User : /\ Getting(u, "wait") => rx.count = 0 \/ RX \in flg.ptn
                           /\ Getting(u, "blocked") => rx.count = 0

UartInv == UartTypes /\ Rings /\ Queued /\ Calls /\ Told

------------------------------------------------------------------------------
(* The rings.                                                              *)
LEMMA Sizes ==
  ASSUME UartTypes
  PROVE  UART_FIFO_SIZE \in Nat \ {0} /\ Depth \in 1..UART_FIFO_SIZE
BY UartAssumption DEF UartTypes, Depth

LEMMA EmptyRing == Empty \in RingType /\ RingOK(Empty)
<1>1. UART_FIFO_SIZE \in Nat \ {0} /\ 0 \in 0..(UART_FIFO_SIZE - 1) /\ 0 \in 0..UART_FIFO_SIZE
  BY UartAssumption
<1>2. 0 % UART_FIFO_SIZE = 0
  <2>1. 0 * UART_FIFO_SIZE + 0 = 0
    BY <1>1
  <2> QED BY <1>1, <2>1, ModIs
<1>3. [i \in 0..(UART_FIFO_SIZE - 1) |-> NoByte] \in [0..(UART_FIFO_SIZE - 1) -> Slot]
  BY DEF Slot
<1>4. /\ Empty.buf = [i \in 0..(UART_FIFO_SIZE - 1) |-> NoByte]
      /\ Empty.head = 0 /\ Empty.tail = 0 /\ Empty.count = 0
  BY DEF Empty
<1> QED BY <1>1, <1>2, <1>3, <1>4 DEF Empty, RingType, RingOK

LEMMA PushRing ==
  ASSUME NEW r \in RingType, RingOK(r), NEW s \in Seq(Slot)
  PROVE  /\ push(r, s) \in RingType /\ RingOK(push(r, s))
         /\ r.count <= push(r, s).count
         /\ push(r, s).count = 0 => r.count = 0
         /\ push(r, s).tail = r.tail
<1> DEFINE S == UART_FIFO_SIZE
           n == IF Len(s) < S - r.count THEN Len(s) ELSE S - r.count
           nth(i) == ((i + S - r.head) % S) + 1
           b == [i \in DOMAIN r.buf |-> IF nth(i) <= n THEN s[nth(i)] ELSE r.buf[i]]
           p == push(r, s)
<1>1. S \in Nat \ {0} /\ Len(s) \in Nat
  BY UartAssumption
<1>2. /\ r.count \in 0..S /\ r.head \in 0..(S - 1) /\ r.tail \in 0..(S - 1)
      /\ r.buf \in [0..(S - 1) -> Slot] /\ r.head = (r.tail + r.count) % S
  BY DEF RingType, RingOK
<1>3. n \in 0..Len(s) /\ r.count + n \in 0..S /\ r.count <= r.count + n
  BY <1>1, <1>2
<1>4. p = [buf |-> b, head |-> (r.head + n) % S, tail |-> r.tail, count |-> r.count + n]
  BY DEF push
<1>5. b \in [0..(S - 1) -> Slot]
  <2>1. ASSUME NEW i \in 0..(S - 1) PROVE b[i] \in Slot
    <3>1. i + S - r.head \in Nat
      BY <1>1, <1>2
    <3>2. nth(i) \in Nat \ {0}
      <4>1. (i + S - r.head) % S \in 0..(S - 1)
        BY <1>1, <3>1, DivMod
      <4> QED BY <1>1, <4>1
    <3>3. DOMAIN r.buf = 0..(S - 1) /\ r.buf[i] \in Slot
      BY <1>2
    <3> HIDE DEF nth, n
    <3>4. nth(i) <= n => s[nth(i)] \in Slot
      BY <1>1, <1>3, <3>2
    <3> QED BY <3>3, <3>4
  <2>2. DOMAIN r.buf = 0..(S - 1)
    BY <1>2
  <2> HIDE DEF nth, n
  <2> QED BY <2>1, <2>2
<1> HIDE DEF n, b, p
<1>6. (r.head + n) % S \in 0..(S - 1) /\ (r.head + n) % S = (r.tail + (r.count + n)) % S
  <2>0. r.head \in Nat /\ r.tail \in Nat /\ r.count \in Nat /\ n \in Nat
    <3>1. r.head \in Nat /\ r.tail \in Nat /\ r.count \in Nat
      BY <1>1, <1>2
    <3>2. n \in Nat
      BY <1>1, <1>3
    <3> QED BY <3>1, <3>2
  <2>1. r.head + n \in Nat /\ r.tail + r.count \in Nat /\ n \in Nat
    BY <2>0
  <2>2. (((r.tail + r.count) % S) + n) % S = (r.tail + r.count + n) % S
    <3> DEFINE a == r.tail + r.count
    <3>1. a \in Nat /\ n \in Nat /\ S \in Nat \ {0}
      BY <1>1, <2>1
    <3> HIDE DEF a
    <3>2. ((a % S) + n) % S = (a + n) % S
      BY ONLY <3>1, ModAdd
    <3> QED BY <3>2 DEF a
  <2>3. r.tail + r.count + n = r.tail + (r.count + n)
    BY <2>0
  <2>4. (r.head + n) % S \in 0..(S - 1)
    BY <1>1, <2>1, DivMod
  <2>5. r.head + n = ((r.tail + r.count) % S) + n
    BY <1>2
  <2>6. (r.head + n) % S = (((r.tail + r.count) % S) + n) % S
    BY <2>5
  <2>7. (r.tail + r.count + n) % S = (r.tail + (r.count + n)) % S
    BY <2>3
  <2> QED BY <2>2, <2>4, <2>6, <2>7
<1>7. p.buf = b /\ p.head = (r.head + n) % S /\ p.tail = r.tail /\ p.count = r.count + n
  BY <1>4
<1>8. p \in RingType
  BY <1>2, <1>3, <1>4, <1>5, <1>6 DEF RingType
<1>9. RingOK(p)
  BY <1>3, <1>6, <1>7 DEF RingOK
<1>10. r.count <= p.count /\ (p.count = 0 => r.count = 0)
  BY <1>2, <1>3, <1>7
<1> QED BY <1>7, <1>8, <1>9, <1>10 DEF p

LEMMA Moved ==
  ASSUME NEW r \in RingType, NEW x, NEW y
  PROVE  [r EXCEPT !.tail = x, !.count = y] = [buf |-> r.buf, head |-> r.head, tail |-> x, count |-> y]
<1> DEFINE q == [r EXCEPT !.tail = x]
<1>1. r = [buf |-> r.buf, head |-> r.head, tail |-> r.tail, count |-> r.count]
  BY DEF RingType
<1>2. q = [buf |-> r.buf, head |-> r.head, tail |-> x, count |-> r.count]
  BY <1>1
<1> HIDE DEF q
<1>3. [q EXCEPT !.count = y] = [buf |-> r.buf, head |-> r.head, tail |-> x, count |-> y]
  BY <1>2
<1> QED BY <1>3 DEF q

LEMMA PopRing ==
  ASSUME NEW r \in RingType, RingOK(r), NEW n \in 0..r.count
  PROVE  pop(r, n) \in RingType /\ RingOK(pop(r, n)) /\ pop(r, n).count = r.count - n
<1> DEFINE S == UART_FIFO_SIZE
           p == pop(r, n)
<1>1. S \in Nat \ {0}
  BY UartAssumption
<1>2. /\ r.count \in 0..S /\ r.head \in 0..(S - 1) /\ r.tail \in 0..(S - 1)
      /\ r.buf \in [0..(S - 1) -> Slot] /\ r.head = (r.tail + r.count) % S
  BY DEF RingType, RingOK
<1>3. n \in Nat /\ r.count - n \in 0..S /\ r.tail + n \in Nat
  BY <1>1, <1>2
<1>4. (r.tail + n) % S \in 0..(S - 1) /\ r.head = (((r.tail + n) % S) + (r.count - n)) % S
  <2>1. (((r.tail + n) % S) + (r.count - n)) % S = (r.tail + n + (r.count - n)) % S
    <3> DEFINE a == r.tail + n
               c == r.count - n
    <3>1. a \in Nat /\ c \in Nat /\ S \in Nat \ {0}
      BY <1>1, <1>3
    <3> HIDE DEF a, c
    <3>2. ((a % S) + c) % S = (a + c) % S
      BY ONLY <3>1, ModAdd
    <3> QED BY <3>2 DEF a, c
  <2>2. r.tail + n + (r.count - n) = r.tail + r.count
    BY <1>1, <1>2, <1>3
  <2>3. (r.tail + n) % S \in 0..(S - 1)
    BY <1>1, <1>3, DivMod
  <2> QED BY <1>2, <2>1, <2>2, <2>3
<1>5. p = [buf |-> r.buf, head |-> r.head, tail |-> (r.tail + n) % S, count |-> r.count - n]
  <2>1. p = [r EXCEPT !.tail = (r.tail + n) % S, !.count = r.count - n]
    BY DEF pop
  <2> QED BY <2>1, Moved
<1> HIDE DEF p
<1>6. p.buf = r.buf /\ p.head = r.head /\ p.tail = (r.tail + n) % S /\ p.count = r.count - n
  BY <1>5
<1>7. p \in RingType
  BY <1>2, <1>3, <1>4, <1>5 DEF RingType
<1>8. RingOK(p)
  BY <1>3, <1>4, <1>6 DEF RingOK
<1> QED BY <1>6, <1>7, <1>8 DEF p

LEMMA ContentIs ==
  ASSUME NEW r \in RingType, RingOK(r)
  PROVE  Content(r) \in Seq(Slot) /\ Len(Content(r)) = r.count
<1>1. /\ r.count \in Nat /\ r.tail \in Nat /\ UART_FIFO_SIZE \in Nat \ {0}
      /\ r.buf \in [0..(UART_FIFO_SIZE - 1) -> Slot]
  BY UartAssumption DEF RingType
<1>2. ASSUME NEW i \in 1..r.count PROVE r.buf[(r.tail + i - 1) % UART_FIFO_SIZE] \in Slot
  <2>1. r.tail + i - 1 \in Nat
    BY <1>1
  <2> QED BY <1>1, <2>1, DivMod
<1> DEFINE c == [i \in 1..r.count |-> r.buf[(r.tail + i - 1) % UART_FIFO_SIZE]]
<1>3. c \in [1..r.count -> Slot]
  BY <1>2
<1> HIDE DEF c
<1>4. c \in Seq(Slot) /\ Len(c) = r.count
  BY <1>1, <1>3
<1>5. Content(r) = c
  BY DEF Content, c
<1> QED BY <1>4, <1>5

(* The first bytes of the ring fill the FIFO at most.                      *)
LEMMA KickRing ==
  ASSUME UartTypes, Rings, NEW r \in RingType, RingOK(r), NEW h \in HwType, h.tx = hw.tx
  PROVE  LET k == uart_tx_kick(r, h)
         IN  /\ k.ring \in RingType /\ RingOK(k.ring)
             /\ k.hw \in HwType /\ Len(k.hw.tx) <= Depth /\ k.hw.rx = h.rx
<1> DEFINE n == IF r.count < TxRoom THEN r.count ELSE TxRoom
           k == uart_tx_kick(r, h)
           first == SubSeq(Content(r), 1, n)
<1>1. /\ Depth \in Nat /\ Len(hw.tx) \in Nat /\ Len(hw.tx) <= Depth /\ TxRoom = Depth - Len(hw.tx)
      /\ hw.tx \in Seq(Slot) /\ r.count \in Nat
  BY Sizes DEF UartTypes, Rings, TxRoom, HwType, RingType
<1>2. n \in 0..r.count /\ n <= TxRoom
  BY <1>1
<1>3. k = [ring |-> pop(r, n), hw |-> [h EXCEPT !.tx = @ \o first, !.ie = r.count > n]]
  BY DEF uart_tx_kick, tx_pop
<1> HIDE DEF n, k
<1>4. first \in Seq(Slot) /\ Len(first) = n
  <2>1. Content(r) \in Seq(Slot) /\ Len(Content(r)) = r.count
    BY ContentIs
  <2>2. \A i \in 1..n : Content(r)[i] \in Slot
    BY <1>1, <1>2, <2>1
  <2>3. first \in Seq(Slot) /\ Len(first) = IF 1 <= n THEN n - 1 + 1 ELSE 0
    BY <1>2, <2>2, SubSeqProperties
  <2>4. (IF 1 <= n THEN n - 1 + 1 ELSE 0) = n
    BY <1>2
  <2> QED BY <2>3, <2>4
<1> HIDE DEF first
<1>5. hw.tx \o first \in Seq(Slot) /\ Len(hw.tx \o first) = Len(hw.tx) + n
  BY <1>1, <1>4
<1>6. Len(hw.tx \o first) <= Depth
  BY <1>1, <1>2, <1>5
<1>7. /\ k.ring = pop(r, n) /\ k.hw = [rx |-> h.rx, tx |-> hw.tx \o first, stat |-> h.stat, ie |-> (r.count > n)]
  BY <1>3 DEF HwType
<1>8. k.hw \in HwType /\ k.hw.tx = hw.tx \o first /\ k.hw.rx = h.rx
  BY <1>5, <1>7 DEF HwType
<1> QED BY <1>2, <1>6, <1>7, <1>8, PopRing DEF k

------------------------------------------------------------------------------
(* The flag and its queue.                                                 *)
LEMMA RemoveIs ==
  ASSUME NEW S, NEW w \in Seq(S), NEW i \in DOMAIN w
  PROVE  LET r == RemoveAt(w, i)
         IN  /\ r \in Seq(S) /\ Len(r) = Len(w) - 1
             /\ \A j \in 1..Len(r) : r[j] = IF j < i THEN w[j] ELSE w[j + 1]
<1> DEFINE u == SubSeq(w, 1, i - 1)
           v == SubSeq(w, i + 1, Len(w))
           r == RemoveAt(w, i)
<1>1. i \in 1..Len(w) /\ Len(w) \in Nat
  OBVIOUS
<1>2. u \in Seq(S) /\ Len(u) = i - 1 /\ \A j \in 1..(i - 1) : u[j] = w[j]
  BY <1>1, SubSeqProperties
<1>3. /\ v \in Seq(S) /\ Len(v) = Len(w) - i
      /\ \A j \in 1..(Len(w) - i) : v[j] = w[i + j]
  BY <1>1, SubSeqProperties
<1>4. r = u \o v
  BY DEF RemoveAt
<1> HIDE DEF u, v, r
<1>5. /\ r \in Seq(S) /\ Len(r) = Len(w) - 1
      /\ \A j \in 1..Len(r) : r[j] = IF j <= Len(u) THEN u[j] ELSE v[j - Len(u)]
  <2>1. /\ u \o v \in Seq(S) /\ Len(u \o v) = Len(u) + Len(v)
        /\ \A j \in 1..(Len(u) + Len(v)) : (u \o v)[j] = IF j <= Len(u) THEN u[j] ELSE v[j - Len(u)]
    BY <1>2, <1>3, ConcatProperties
  <2>2. Len(u) + Len(v) = Len(w) - 1
    BY <1>1, <1>2, <1>3
  <2> QED BY <1>4, <2>1, <2>2
<1>6. ASSUME NEW j \in 1..Len(r) PROVE r[j] = IF j < i THEN w[j] ELSE w[j + 1]
  <2>1. CASE j < i
    <3>1. j \in 1..(i - 1) /\ j <= Len(u)
      BY <2>1, <1>1, <1>2, <1>5
    <3> QED BY <2>1, <3>1, <1>2, <1>5
  <2>2. CASE ~(j < i)
    <3>1. j - (i - 1) \in 1..(Len(w) - i) /\ i + (j - (i - 1)) = j + 1
      BY <2>2, <1>1, <1>5
    <3>2. r[j] = v[j - (i - 1)]
      BY <2>2, <1>1, <1>2, <1>5
    <3> QED BY <3>1, <3>2, <2>2, <1>3
  <2> QED BY <2>1, <2>2
<1> QED BY <1>5, <1>6 DEF r

FlagType == [ptn : SUBSET {RX, TX}, wait : Seq(Waiter)]
CallType == [at : {"idle", "try", "wait", "blocked"}, todo : Seq(Out)]

LEMMA WaitersAre ==
  ASSUME UartTypes, NEW n \in DOMAIN flg.wait
  PROVE  /\ Len(flg.wait) \in Nat /\ DOMAIN flg.wait = 1..Len(flg.wait) /\ n \in 1..Len(flg.wait)
         /\ flg.wait[n] \in Waiter /\ flg.wait[n].user \in User /\ flg.wait[n].bit \in {RX, TX}
<1>1. flg.wait \in Seq(Waiter)
  BY DEF UartTypes
<1>2. flg.wait[n] \in Waiter
  BY <1>1
<1>3. flg.wait[n].user \in User /\ flg.wait[n].bit \in {RX, TX}
  BY <1>2 DEF Waiter
<1> QED BY <1>1, <1>2, <1>3

(* Nobody begins or ends a wait.                                           *)
LEMMA QueuedStays ==
  ASSUME UartTypes, Queued, flg' = flg,
         \A u \in User : /\ Blocked(u)' <=> Blocked(u)
                         /\ Blocked(u) => io'[u].todo = io[u].todo
  PROVE  Queued'
<1>1. \A n \in DOMAIN flg.wait : flg.wait[n].user \in User
  BY WaitersAre
<1> QED BY <1>1 DEF Queued, Blocked

(* Who is first among those the bits release goes on; nobody else does.    *)
LEMMA SetFlg ==
  ASSUME UartTypes, Queued, NEW set \in SUBSET {RX, TX}, iset_flg(set)
  PROVE  /\ flg' \in FlagType /\ io' \in [User -> CallType] /\ Queued'
         /\ \/ /\ io' = io /\ flg'.ptn = flg.ptn \union set
               /\ \A n \in DOMAIN flg.wait : flg.wait[n].bit \notin set
            \/ \E u \in User : Blocked(u) /\ io' = [io EXCEPT ![u].at = "try"]
<1> DEFINE ptn == flg.ptn \union set
           woken == {n \in DOMAIN flg.wait : flg.wait[n].bit \in ptn}
           first == CHOOSE n \in woken : \A m \in woken : n <= m
           w == flg.wait
<1>1. flg \in FlagType /\ io \in [User -> CallType] /\ w \in Seq(Waiter) /\ ptn \in SUBSET {RX, TX}
  BY DEF UartTypes, FlagType, CallType
<1>2. CASE woken = {}
  <2>1. flg' = [flg EXCEPT !.ptn = ptn] /\ io' = io
    BY <1>2 DEF iset_flg
  <2>2. flg' \in FlagType /\ flg'.ptn = ptn /\ flg'.wait = w
    BY <1>1, <2>1 DEF FlagType
  <2>3. Queued'
    BY <2>1, <2>2 DEF Queued, Blocked
  <2>4. \A n \in DOMAIN flg.wait : flg.wait[n].bit \notin set
    BY <1>2
  <2> QED BY <1>1, <2>1, <2>2, <2>3, <2>4
<1>3. CASE woken /= {}
  <2>1. first \in woken
    <3>1. woken \in SUBSET Nat
      BY <1>1
    <3> HIDE DEF woken
    <3> QED BY <1>3, <3>1, LeastNumber
  <2> DEFINE x == w[first].user
             q == RemoveAt(w, first)
  <2>2. flg' = [ptn |-> {}, wait |-> q] /\ io' = [io EXCEPT ![x].at = "try"]
    BY <1>3 DEF iset_flg
  <2>3. first \in DOMAIN w /\ first \in 1..Len(w) /\ Len(w) \in Nat /\ DOMAIN w = 1..Len(w)
    <3>1. first \in DOMAIN w
      BY <2>1
    <3> HIDE DEF woken, first
    <3> QED BY <3>1, WaitersAre
  <2> HIDE DEF woken, first
  <2>4. w[first] \in Waiter /\ x \in User /\ Blocked(x)
    BY <2>3, WaitersAre DEF Queued
  <2>5. /\ q \in Seq(Waiter) /\ Len(q) = Len(w) - 1
        /\ \A j \in 1..Len(q) : q[j] = IF j < first THEN w[j] ELSE w[j + 1]
    BY <1>1, <2>3, RemoveIs
  <2> HIDE DEF q
  <2> DEFINE at(j) == IF j < first THEN j ELSE j + 1
  <2>6. ASSUME NEW j \in 1..Len(q)
        PROVE  at(j) \in DOMAIN w /\ at(j) /= first /\ q[j] = w[at(j)]
    BY <2>3, <2>5
  <2>7. \A m, n \in 1..Len(q) : at(m) = at(n) => m = n
    BY <2>3, <2>5
  <2>8. ASSUME NEW n \in DOMAIN w, n /= first PROVE \E j \in 1..Len(q) : at(j) = n
    <3>1. CASE n < first
      BY <3>1, <2>3, <2>5, <2>8
    <3>2. CASE ~(n < first)
      <4>1. n - 1 \in 1..Len(q) /\ ~(n - 1 < first) /\ (n - 1) + 1 = n
        BY <3>2, <2>3, <2>5, <2>8
      <4> QED BY <4>1
    <3> QED BY <3>1, <3>2
  <2> HIDE DEF at
  <2>9. DOMAIN q = 1..Len(q) /\ flg'.wait = q /\ flg'.ptn = {}
    BY <2>2, <2>5
  <2>10. flg' \in FlagType
    BY <2>2, <2>5 DEF FlagType
  <2>11. io' \in [User -> CallType]
    BY <1>1, <2>2 DEF CallType
  <2>12. \A u \in User : io'[u].todo = io[u].todo /\ (u /= x => io'[u].at = io[u].at) /\ (u = x => io'[u].at = "try")
    BY <1>1, <2>2, <2>4 DEF CallType
  <2>13. \A n \in DOMAIN w : n /= first => w[n].user /= x /\ w[n].user \in User
    BY <2>3, WaitersAre DEF Queued
  <2>14. \A j \in DOMAIN q : q[j].user /= x /\ q[j].user \in User
    BY <2>6, <2>9, <2>13
  <2>15. ASSUME NEW j \in DOMAIN q
         PROVE  io'[q[j].user].at = "blocked" /\ (q[j].bit = RX <=> io'[q[j].user].todo = <<>>)
    <3>1. io[q[j].user].at = "blocked" /\ (q[j].bit = RX <=> io[q[j].user].todo = <<>>)
      BY <2>6, <2>9 DEF Queued, Blocked
    <3> QED BY <3>1, <2>12, <2>14
  <2>16. \A m, n \in DOMAIN q : q[m].user = q[n].user => m = n
    BY <2>6, <2>7, <2>9 DEF Queued
  <2>17. ASSUME NEW u \in User, io'[u].at = "blocked"
         PROVE  \E j \in DOMAIN q : q[j].user = u
    <3>1. u /= x /\ io[u].at = "blocked"
      BY <2>12, <2>17
    <3>2. PICK n \in DOMAIN w : w[n].user = u
      BY <3>1 DEF Queued, Blocked
    <3>3. n /= first
      BY <3>1, <3>2
    <3>4. PICK j \in 1..Len(q) : at(j) = n
      BY <2>8, <3>3
    <3> QED BY <2>6, <2>9, <3>2, <3>4
  <2>18. Queued'
    BY <2>9, <2>15, <2>16, <2>17 DEF Queued, Blocked
  <2> QED BY <2>2, <2>4, <2>10, <2>11, <2>18
<1> QED BY <1>2, <1>3

(* Who waits goes on at once or joins the queue.                           *)
LEMMA TwaiFlg ==
  ASSUME UartTypes, Queued, NEW u \in User, NEW bit \in {RX, TX}, twai_flg(u, bit),
         io[u].at = "wait", bit = RX <=> io[u].todo = <<>>
  PROVE  /\ flg' \in FlagType /\ io' \in [User -> CallType] /\ Queued'
         /\ \/ io' = [io EXCEPT ![u].at = "try"]
            \/ bit \notin flg.ptn /\ io' = [io EXCEPT ![u].at = "blocked"]
<1> DEFINE w == flg.wait
           e == [user |-> u, bit |-> bit]
<1>1. flg \in FlagType /\ io \in [User -> CallType] /\ w \in Seq(Waiter)
  BY DEF UartTypes, FlagType, CallType
<1>2. CASE bit \in flg.ptn
  <2>1. flg' = [flg EXCEPT !.ptn = {}] /\ io' = [io EXCEPT ![u].at = "try"]
    BY <1>2 DEF twai_flg
  <2>2. flg' \in FlagType /\ flg'.wait = w
    BY <1>1, <2>1 DEF FlagType
  <2>3. io' \in [User -> CallType]
    BY <1>1, <2>1 DEF CallType
  <2>4. \A v \in User : io'[v].todo = io[v].todo /\ (io'[v].at = "blocked" <=> io[v].at = "blocked")
    BY <1>1, <2>1 DEF CallType
  <2>5. \A n \in DOMAIN w : w[n].user \in User
    BY WaitersAre
  <2>6. Queued'
    BY <2>2, <2>4, <2>5 DEF Queued, Blocked
  <2> QED BY <2>1, <2>2, <2>3, <2>6
<1>3. CASE bit \notin flg.ptn
  <2>1. flg' = [flg EXCEPT !.wait = Append(w, e)] /\ io' = [io EXCEPT ![u].at = "blocked"]
    BY <1>3 DEF twai_flg
  <2>2. e \in Waiter
    BY DEF Waiter
  <2>3. /\ Append(w, e) \in Seq(Waiter) /\ Len(w) \in Nat /\ Len(Append(w, e)) = Len(w) + 1
        /\ \A n \in 1..Len(w) : Append(w, e)[n] = w[n]
        /\ Append(w, e)[Len(w) + 1] = e
    BY <1>1, <2>2
  <2> DEFINE q == Append(w, e)
  <2> HIDE DEF q
  <2>4. flg' \in FlagType /\ flg'.wait = q
    BY <1>1, <2>1, <2>3 DEF FlagType, q
  <2>5. io' \in [User -> CallType]
    BY <1>1, <2>1 DEF CallType
  <2>6. \A v \in User : io'[v].todo = io[v].todo /\ (v /= u => io'[v].at = io[v].at) /\ (v = u => io'[v].at = "blocked")
    BY <1>1, <2>1 DEF CallType
  <2>7. \A n \in DOMAIN w : w[n].user \in User /\ w[n].user /= u
    BY WaitersAre DEF Queued, Blocked
  <2>8. DOMAIN w = 1..Len(w) /\ DOMAIN q = 1..(Len(w) + 1)
    BY <1>1, <2>3 DEF q
  <2>9. \A n \in DOMAIN q : (n \in DOMAIN w /\ q[n] = w[n]) \/ (n = Len(w) + 1 /\ q[n] = e)
    BY <2>3, <2>8 DEF q
  <2>10. ASSUME NEW n \in DOMAIN q
         PROVE  io'[q[n].user].at = "blocked" /\ (q[n].bit = RX <=> io'[q[n].user].todo = <<>>)
    <3>1. CASE n \in DOMAIN w /\ q[n] = w[n]
      BY <3>1, <2>6, <2>7 DEF Queued, Blocked
    <3>2. CASE q[n] = e
      BY <3>2, <2>6
    <3> QED BY <2>9, <3>1, <3>2
  <2>11. ASSUME NEW m \in DOMAIN q, NEW n \in DOMAIN q, q[m].user = q[n].user
         PROVE  m = n
    <3>1. CASE m \in DOMAIN w /\ q[m] = w[m] /\ n \in DOMAIN w /\ q[n] = w[n]
      BY <3>1, <2>11 DEF Queued
    <3> QED BY <3>1, <2>7, <2>9, <2>11
  <2>12. ASSUME NEW v \in User, io'[v].at = "blocked"
         PROVE  \E n \in DOMAIN q : q[n].user = v
    <3>1. CASE v = u
      BY <3>1, <2>3, <2>8 DEF q
    <3>2. CASE v /= u
      <4>1. PICK n \in DOMAIN w : w[n].user = v
        BY <3>2, <2>6, <2>12 DEF Queued, Blocked
      <4> QED BY <4>1, <2>3, <2>8 DEF q
    <3> QED BY <3>1, <3>2
  <2>13. Queued'
    BY <2>4, <2>10, <2>11, <2>12 DEF Queued, Blocked
  <2> QED BY <1>3, <2>1, <2>4, <2>5, <2>13
<1> QED BY <1>2, <1>3

------------------------------------------------------------------------------
(* The steps of the uart.                                                  *)

(* One user's call goes on; the flag stays.                                *)
LEMMA CallGoes ==
  ASSUME UartInv, UNCHANGED <<board, uses, flg>>, NEW u \in User, NEW c \in CallType,
         io' = [io EXCEPT ![u] = c], ~Blocked(u), c.at /= "blocked",
         c.at = "idle" => c.todo = <<>>,
         c.at = "idle" \/ io[u].at /= "idle" \/ uses[u] /= {},
         rx.count = 0 => rx'.count = 0, c.at = "wait" /\ c.todo = <<>> => rx'.count = 0
  PROVE  io' \in [User -> CallType] /\ Queued' /\ Calls' /\ Told'
<1>1. io \in [User -> CallType] /\ uses' = uses /\ flg' = flg
  BY DEF UartInv, UartTypes, CallType
<1>2. io' \in [User -> CallType]
  BY <1>1
<1>3. \A v \in User : io'[v] = IF v = u THEN c ELSE io[v]
  BY <1>1
<1>4. Queued'
  <2>1. \A v \in User : (Blocked(v)' <=> Blocked(v)) /\ (Blocked(v) => io'[v].todo = io[v].todo)
    BY <1>3 DEF Blocked
  <2> QED BY <1>1, <2>1, QueuedStays DEF UartInv
<1>5. Calls'
  BY <1>1, <1>3 DEF UartInv, Calls
<1>6. Told'
  BY <1>1, <1>3 DEF UartInv, Told, Alone, Getting, Blocked
<1> QED BY <1>2, <1>4, <1>5, <1>6

LEMMA WaitsForFlag ==
  ASSUME UartInv, UNCHANGED <<board, uses, rx>>, NEW u \in User, NEW bit \in {RX, TX},
         io[u].at = "wait", bit = RX <=> io[u].todo = <<>>, twai_flg(u, bit)
  PROVE  flg' \in FlagType /\ io' \in [User -> CallType] /\ Queued' /\ Calls' /\ Told'
<1>1. /\ flg' \in FlagType /\ io' \in [User -> CallType] /\ Queued'
      /\ \/ io' = [io EXCEPT ![u].at = "try"]
         \/ bit \notin flg.ptn /\ io' = [io EXCEPT ![u].at = "blocked"]
  BY TwaiFlg DEF UartInv
<1>2. io \in [User -> CallType] /\ uses' = uses /\ rx' = rx
  BY DEF UartInv, UartTypes, CallType
<1>3. \A v \in User : io'[v].todo = io[v].todo /\ (v /= u => io'[v] = io[v])
  BY <1>1, <1>2 DEF CallType
<1>4. io'[u].at = "try" \/ (bit \notin flg.ptn /\ io'[u].at = "blocked")
  BY <1>1, <1>2 DEF CallType
<1>5. Calls'
  BY <1>2, <1>3, <1>4 DEF UartInv, Calls
<1>6. Told'
  <2>1. SUFFICES ASSUME Alone, NEW v \in User
                 PROVE  /\ Getting(v, "wait")' => rx'.count = 0 \/ RX \in flg'.ptn
                        /\ Getting(v, "blocked")' => rx'.count = 0
    BY <1>2 DEF Told, Alone
  <2>2. CASE v /= u
    <3>1. io[v].at = "idle" /\ io'[v] = io[v]
      BY <1>3, <2>1, <2>2 DEF UartInv, Calls, Alone
    <3> QED BY <3>1 DEF Getting
  <2>3. CASE v = u
    <3>1. Getting(u, "blocked")' => Getting(u, "wait") /\ RX \notin flg.ptn
      BY <1>3, <1>4 DEF Getting
    <3>2. Getting(u, "wait") => rx.count = 0 \/ RX \in flg.ptn
      BY <2>1 DEF UartInv, Told
    <3>3. ~Getting(u, "wait")'
      BY <1>4 DEF Getting
    <3> QED BY <1>2, <2>3, <3>1, <3>2, <3>3
  <2> QED BY <2>2, <2>3
<1> QED BY <1>1, <1>5, <1>6

(* The handler sets RX when it leaves bytes in the ring.                   *)
LEMMA FlagSet ==
  ASSUME UartInv, UNCHANGED <<board, uses>>, NEW set \in SUBSET {RX, TX},
         (set = {} /\ flg' = flg /\ io' = io) \/ iset_flg(set),
         rx'.count = 0 \/ RX \in set \/ rx' = rx
  PROVE  flg' \in FlagType /\ io' \in [User -> CallType] /\ Queued' /\ Calls' /\ Told'
<1>1. io \in [User -> CallType] /\ flg \in FlagType /\ uses' = uses
  BY DEF UartInv, UartTypes, CallType, FlagType
<1>2. /\ flg' \in FlagType /\ io' \in [User -> CallType] /\ Queued'
      /\ \/ /\ io' = io /\ flg'.ptn = flg.ptn \union set
            /\ \A n \in DOMAIN flg.wait : flg.wait[n].bit \notin set
         \/ \E u \in User : Blocked(u) /\ io' = [io EXCEPT ![u].at = "try"]
  <2>1. CASE iset_flg(set)
    BY <2>1, SetFlg DEF UartInv
  <2>2. CASE set = {} /\ flg' = flg /\ io' = io
    <3>1. Queued'
      BY <2>2 DEF UartInv, Queued, Blocked
    <3> QED BY <1>1, <2>2, <3>1
  <2> QED BY <2>1, <2>2
<1>3. CASE /\ io' = io /\ flg'.ptn = flg.ptn \union set
           /\ \A n \in DOMAIN flg.wait : flg.wait[n].bit \notin set
  <2>1. Calls'
    BY <1>1, <1>3 DEF UartInv, Calls
  <2>2. \A u \in User : Getting(u, "blocked") => RX \notin set
    <3>1. SUFFICES ASSUME NEW u \in User, Getting(u, "blocked") PROVE RX \notin set
      OBVIOUS
    <3>2. PICK n \in DOMAIN flg.wait : flg.wait[n].user = u
      BY <3>1 DEF UartInv, Queued, Blocked, Getting
    <3>3. flg.wait[n].bit = RX
      BY <3>1, <3>2 DEF UartInv, Queued, Getting
    <3> QED BY <1>3, <3>3
  <2>3. Told'
    BY <1>1, <1>3, <2>2 DEF UartInv, Told, Alone, Getting
  <2> QED BY <1>2, <2>1, <2>3
<1>4. ASSUME NEW u \in User, Blocked(u), io' = [io EXCEPT ![u].at = "try"]
      PROVE  Calls' /\ Told'
  <2>1. \A v \in User : (v /= u => io'[v] = io[v]) /\ io'[u].at = "try"
    BY <1>1, <1>4 DEF CallType
  <2>2. Calls'
    BY <1>1, <1>4, <2>1 DEF UartInv, Calls, Blocked
  <2>3. \A v \in User : Alone /\ v /= u => io[v].at = "idle"
    BY <1>4 DEF UartInv, Calls, Alone, Blocked
  <2>4. Told'
    BY <1>1, <2>1, <2>3 DEF Told, Alone, Getting
  <2> QED BY <2>2, <2>4
<1> QED BY <1>2, <1>3, <1>4

LEMMA ByteIs ==
  ASSUME UartTypes, NEW u \in User, Putting(u), ByteDone(u)
  PROVE  /\ Byte(u) \in Slot
         /\ \E c \in CallType : /\ io' = [io EXCEPT ![u] = c] /\ c.at \in {"idle", "try"}
                                /\ c.at = "idle" => c.todo = <<>>
<1>1. io \in [User -> CallType] /\ io[u] \in CallType /\ io[u].todo \in Seq(Out) /\ io[u].todo /= <<>>
  BY DEF UartTypes, CallType, Putting
<1>2. Head(io[u].todo) \in Out /\ Tail(io[u].todo) \in Seq(Out)
  BY <1>1
<1>3. Byte(u) \in Slot
  BY <1>2 DEF Byte, Slot
<1> DEFINE left == [at |-> "try", todo |-> Tail(io[u].todo)]
           c == IF Tail(io[u].todo) = <<>> THEN Idle ELSE left
<1>4. Idle \in CallType /\ Idle.at = "idle" /\ Idle.todo = <<>>
  BY DEF Idle, CallType
<1>5. left \in CallType /\ left.at = "try"
  BY <1>1, <1>2 DEF CallType
<1>6. io' = [io EXCEPT ![u] = c]
  BY DEF ByteDone
<1> HIDE DEF left
<1>7. c \in CallType /\ c.at \in {"idle", "try"} /\ (c.at = "idle" => c.todo = <<>>)
  BY <1>4, <1>5
<1> HIDE DEF c
<1> QED BY <1>3, <1>6, <1>7

LEMMA UartStart ==
  ASSUME UartInit
  PROVE  UartInv
<1>1. Empty \in RingType /\ RingOK(Empty)
  BY EmptyRing
<1>2. Idle \in CallType /\ Idle.at = "idle" /\ Idle.todo = <<>>
  BY DEF Idle, CallType
<1>3. UartTypes
  <2>1. hw \in HwType
    BY DEF UartInit, HwType
  <2>2. flg \in FlagType
    BY DEF UartInit, FlagType
  <2>3. io \in [User -> CallType]
    BY <1>2 DEF UartInit
  <2> QED BY <1>1, <2>1, <2>2, <2>3 DEF UartInit, UartTypes, FlagType, CallType
<1>4. Rings
  BY <1>1, <1>3, Sizes DEF UartInit, Rings
<1>5. Queued /\ Calls /\ Told
  BY <1>2 DEF UartInit, Queued, Calls, Told, Blocked, Getting
<1> QED BY <1>3, <1>4, <1>5 DEF UartInv

(* The parts of UartInv.                                                   *)
LEMMA Together ==
  ASSUME UartInv, UNCHANGED <<board, uses>>, rx' \in RingType, tx' \in RingType, hw' \in HwType,
         ready' \in BOOLEAN, flg' \in FlagType, io' \in [User -> CallType], wrote' \in Nat,
         came' \in Nat, RingOK(rx)', RingOK(tx)', Len(hw'.rx) <= Depth, Len(hw'.tx) <= Depth,
         Queued', Calls', Told'
  PROVE  UartInv'
<1>1. UartTypes'
  BY DEF UartInv, UartTypes, FlagType, CallType
<1>2. Rings'
  BY DEF Rings, Depth
<1> QED BY <1>1, <1>2 DEF UartInv

(* What most steps leave as it is.                                         *)
LEMMA Parts ==
  ASSUME UartInv
  PROVE  /\ rx \in RingType /\ tx \in RingType /\ hw \in HwType /\ ready \in BOOLEAN
         /\ flg \in FlagType /\ io \in [User -> CallType] /\ wrote \in Nat /\ came \in Nat
         /\ RingOK(rx) /\ RingOK(tx) /\ Len(hw.rx) <= Depth /\ Len(hw.tx) <= Depth
         /\ Len(hw.rx) \in Nat /\ Len(hw.tx) \in Nat /\ Depth \in Nat /\ Depth >= 1
         /\ hw.rx \in Seq(Nat) /\ hw.tx \in Seq(Slot)
         /\ Queued /\ Calls /\ Told /\ UartTypes /\ Rings
<1>1. UartTypes /\ Rings /\ Queued /\ Calls /\ Told
  BY DEF UartInv
<1>2. Depth \in Nat /\ Depth >= 1
  BY <1>1, Sizes
<1>3. hw.rx \in Seq(Nat) /\ hw.tx \in Seq(Slot)
  BY <1>1 DEF UartTypes, HwType
<1>4. Len(hw.rx) \in Nat /\ Len(hw.tx) \in Nat
  BY <1>3
<1> QED BY <1>1, <1>2, <1>3, <1>4 DEF UartTypes, Rings, FlagType, CallType

LEMMA UartInitStep ==
  ASSUME UartInv, uart_init
  PROVE  UartInv'
<1>1. UartTypes /\ Rings
  BY DEF UartInv
<1>2. Empty \in RingType /\ RingOK(Empty) /\ Empty.count = 0
  BY EmptyRing DEF Empty
<1>3. rx' = Empty /\ tx' = Empty /\ UNCHANGED <<board, uses, io, wrote, came>> /\ ready' = TRUE
  BY DEF uart_init
<1>4. flg' \in FlagType /\ flg'.wait = <<>>
  BY DEF uart_init, FlagType
<1>5. hw' \in HwType /\ Len(hw'.rx) <= Depth /\ Len(hw'.tx) <= Depth
  <2>1. CASE board = "cadence"
    <3>1. hw' = [hw EXCEPT !.rx = <<>>, !.tx = <<>>, !.stat = FALSE]
      BY <2>1 DEF uart_init
    <3>2. hw' = [rx |-> <<>>, tx |-> <<>>, stat |-> FALSE, ie |-> hw.ie]
      BY <3>1, Parts DEF HwType
    <3>3. hw.ie \in BOOLEAN
      BY Parts DEF HwType
    <3>4. Len(<<>>) = 0
      OBVIOUS
    <3> QED BY <3>2, <3>3, <3>4, Parts DEF HwType
  <2>2. CASE board /= "cadence"
    BY <2>2, Parts DEF uart_init
  <2> QED BY <2>1, <2>2
<1>6. \A u \in User : io[u].at = "idle" /\ io[u].todo = <<>>
  BY DEF uart_init, Idle
<1>7. Queued' /\ Calls' /\ Told'
  <2>1. Queued'
    BY <1>3, <1>4, <1>6 DEF Queued, Blocked
  <2>2. Calls'
    BY <1>3, <1>6 DEF Calls
  <2>3. Told'
    BY <1>3, <1>6 DEF Told, Getting
  <2> QED BY <2>1, <2>2, <2>3
<1>8. io' \in [User -> CallType] /\ wrote' \in Nat /\ came' \in Nat
  BY <1>1, <1>3 DEF UartTypes, CallType
<1> QED BY <1>2, <1>3, <1>4, <1>5, <1>7, <1>8, Together

LEMMA PutcStep ==
  ASSUME UartInv, NEW u \in User, uart_putc(u)
  PROVE  UartInv'
<1>1. PICK todo \in {<<"x">>, <<"cr", "nl">>} : io' = [io EXCEPT ![u] = [at |-> "try", todo |-> todo]]
  BY DEF uart_putc
<1> DEFINE c == [at |-> "try", todo |-> todo]
<1>2. c \in CallType /\ c.at = "try"
  <2>1. <<"x">> \in Seq(Out)
    BY DEF Out
  <2>2. <<"cr", "nl">> \in Seq(Out)
    BY DEF Out
  <2>3. todo \in Seq(Out)
    BY <2>1, <2>2
  <2> QED BY <2>3 DEF CallType
<1>3. ~Blocked(u) /\ uses[u] /= {} /\ io' = [io EXCEPT ![u] = c] /\ wrote' = wrote + 1
      /\ UNCHANGED <<board, uses, rx, tx, hw, ready, flg, came>>
  BY <1>1 DEF uart_putc, Blocked
<1> HIDE DEF c
<1>4. io' \in [User -> CallType] /\ Queued' /\ Calls' /\ Told'
  BY <1>2, <1>3, CallGoes
<1>5. wrote' \in Nat
  BY <1>3, Parts
<1>6. RingOK(rx)' /\ RingOK(tx)'
  BY <1>3, Parts DEF RingOK
<1> QED BY <1>3, <1>4, <1>5, <1>6, Parts, Together

LEMMA WritesStep ==
  ASSUME UartInv, NEW u \in User, putc_polled(u) \/ putc_write(u)
  PROVE  UartInv'
<1>1. /\ Putting(u) /\ TxRoom > 0 /\ hw' = [hw EXCEPT !.tx = Append(@, Byte(u))] /\ ByteDone(u)
      /\ UNCHANGED <<board, uses, rx, tx, ready, flg, wrote, came>>
  BY DEF putc_polled, putc_write
<1>2. Byte(u) \in Slot
  BY <1>1, Parts, ByteIs
<1>3. PICK c \in CallType : io' = [io EXCEPT ![u] = c] /\ c.at \in {"idle", "try"} /\ (c.at = "idle" => c.todo = <<>>)
  BY <1>1, Parts, ByteIs
<1>4. io' \in [User -> CallType] /\ Queued' /\ Calls' /\ Told'
  <2>1. ~Blocked(u) /\ io[u].at /= "idle"
    BY <1>1 DEF Putting, Blocked
  <2> QED BY <1>1, <1>3, <2>1, CallGoes
<1>5. hw' \in HwType /\ Len(hw'.tx) <= Depth /\ hw'.rx = hw.rx
  <2>1. Append(hw.tx, Byte(u)) \in Seq(Slot) /\ Len(Append(hw.tx, Byte(u))) = Len(hw.tx) + 1
    BY <1>2, Parts
  <2>2. Len(hw.tx) + 1 <= Depth
    BY <1>1, Parts DEF TxRoom
  <2> QED BY <1>1, <2>1, <2>2, Parts DEF HwType
<1>6. RingOK(rx)' /\ RingOK(tx)'
  BY <1>1, Parts DEF RingOK
<1> QED BY <1>1, <1>4, <1>5, <1>6, Parts, Together

LEMMA PutRingStep ==
  ASSUME UartInv, NEW u \in User, putc_ring(u)
  PROVE  UartInv'
<1>1. Putting(u) /\ UNCHANGED <<board, uses, rx, ready, flg, wrote, came>>
  BY DEF putc_ring
<1>2. ~Blocked(u) /\ io[u].at /= "idle" /\ io[u].todo /= <<>>
  BY <1>1 DEF Putting, Blocked
<1>3. RingOK(rx)'
  BY <1>1, Parts DEF RingOK
<1>4. CASE Full(tx)
  <2>1. io' = [io EXCEPT ![u].at = "wait"] /\ tx' = tx /\ hw' = hw
    BY <1>4 DEF putc_ring
  <2> DEFINE c == [at |-> "wait", todo |-> io[u].todo]
  <2>2. c \in CallType /\ c.at = "wait" /\ c.todo /= <<>> /\ io' = [io EXCEPT ![u] = c]
    <3>1. io[u] \in CallType
      BY Parts
    <3>2. [io[u] EXCEPT !.at = "wait"] = c
      BY <3>1 DEF CallType
    <3>3. c \in CallType
      BY <3>1 DEF CallType
    <3> QED BY <1>2, <2>1, <3>2, <3>3
  <2> HIDE DEF c
  <2>3. io' \in [User -> CallType] /\ Queued' /\ Calls' /\ Told'
    BY <1>1, <1>2, <2>2, CallGoes
  <2>4. RingOK(tx)'
    BY <2>1, Parts DEF RingOK
  <2> QED BY <1>1, <1>3, <2>1, <2>3, <2>4, Parts, Together
<1>5. CASE ~Full(tx)
  <2> DEFINE r == tx_push(Byte(u))
             k == uart_tx_kick(r, hw)
  <2>1. tx' = k.ring /\ hw' = k.hw /\ ByteDone(u)
    BY <1>5 DEF putc_ring
  <2>2. Byte(u) \in Slot
    BY <1>1, <2>1, Parts, ByteIs
  <2>3. r \in RingType /\ RingOK(r)
    <3>1. <<Byte(u)>> \in Seq(Slot)
      BY <2>2
    <3> QED BY <3>1, Parts, PushRing DEF tx_push
  <2> HIDE DEF r
  <2>4. /\ k.ring \in RingType /\ RingOK(k.ring)
        /\ k.hw \in HwType /\ Len(k.hw.tx) <= Depth /\ k.hw.rx = hw.rx
    BY <2>3, Parts, KickRing
  <2> HIDE DEF k
  <2>5. PICK c \in CallType : io' = [io EXCEPT ![u] = c] /\ c.at \in {"idle", "try"} /\ (c.at = "idle" => c.todo = <<>>)
    BY <1>1, <2>1, Parts, ByteIs
  <2>6. io' \in [User -> CallType] /\ Queued' /\ Calls' /\ Told'
    BY <1>1, <1>2, <2>5, CallGoes
  <2>7. RingOK(tx)'
    BY <2>1, <2>4 DEF RingOK
  <2> QED BY <1>1, <1>3, <2>1, <2>4, <2>6, <2>7, Parts, Together
<1> QED BY <1>4, <1>5

LEMMA WaitStep ==
  ASSUME UartInv, NEW u \in User, putc_wait(u) \/ getc_wait(u)
  PROVE  UartInv'
<1>1. UNCHANGED <<board, uses, rx, tx, hw, ready, wrote, came>> /\ io[u].at = "wait"
  BY DEF putc_wait, getc_wait, Getting
<1>2. flg' \in FlagType /\ io' \in [User -> CallType] /\ Queued' /\ Calls' /\ Told'
  <2>1. CASE putc_wait(u)
    <3>1. TX \in {RX, TX} /\ io[u].todo /= <<>> /\ twai_flg(u, TX)
      BY <2>1 DEF putc_wait
    <3>2. TX = RX <=> io[u].todo = <<>>
      BY <3>1 DEF TX, RX
    <3> QED BY <1>1, <3>1, <3>2, WaitsForFlag
  <2>2. CASE getc_wait(u)
    <3>1. RX \in {RX, TX} /\ io[u].todo = <<>> /\ twai_flg(u, RX)
      BY <2>2 DEF getc_wait, Getting
    <3> QED BY <1>1, <3>1, WaitsForFlag
  <2> QED BY <2>1, <2>2
<1>3. RingOK(rx)' /\ RingOK(tx)'
  BY <1>1, Parts DEF RingOK
<1> QED BY <1>1, <1>2, <1>3, Parts, Together

LEMMA GetStep ==
  ASSUME UartInv, NEW u \in User, uart_getc(u) \/ getc_ring(u)
  PROVE  UartInv'
<1>1. UNCHANGED <<board, uses, tx, hw, ready, flg, wrote, came>>
  BY DEF uart_getc, getc_ring
<1>2. io[u] \in CallType /\ ~Blocked(u)
  <2>1. io[u] \in CallType
    BY Parts
  <2> QED BY <2>1 DEF uart_getc, getc_ring, Getting, Blocked
<1>3. CASE uart_getc(u)
  <2> DEFINE c == [at |-> "try", todo |-> io[u].todo]
  <2>1. [io[u] EXCEPT !.at = "try"] = c /\ c \in CallType /\ c.at = "try"
    BY <1>2 DEF CallType
  <2>2. io' = [io EXCEPT ![u] = c] /\ uses[u] /= {} /\ rx' = rx
    BY <1>3, <2>1 DEF uart_getc
  <2> HIDE DEF c
  <2>3. io' \in [User -> CallType] /\ Queued' /\ Calls' /\ Told'
    BY <1>1, <1>2, <2>1, <2>2, CallGoes
  <2>4. RingOK(rx)' /\ RingOK(tx)'
    BY <1>1, <2>2, Parts DEF RingOK
  <2> QED BY <1>1, <2>2, <2>3, <2>4, Parts, Together
<1>4. CASE getc_ring(u) /\ rx.count = 0
  <2> DEFINE c == [at |-> "wait", todo |-> io[u].todo]
  <2>1. [io[u] EXCEPT !.at = "wait"] = c /\ c \in CallType /\ c.at = "wait"
    BY <1>2 DEF CallType
  <2>2. io' = [io EXCEPT ![u] = c] /\ io[u].at /= "idle" /\ rx' = rx
    BY <1>4, <2>1 DEF getc_ring, Getting
  <2> HIDE DEF c
  <2>3. io' \in [User -> CallType] /\ Queued' /\ Calls' /\ Told'
    BY <1>1, <1>2, <1>4, <2>1, <2>2, CallGoes
  <2>4. RingOK(rx)' /\ RingOK(tx)'
    BY <1>1, <2>2, Parts DEF RingOK
  <2> QED BY <1>1, <2>2, <2>3, <2>4, Parts, Together
<1>5. CASE getc_ring(u) /\ rx.count /= 0
  <2>1. io' = [io EXCEPT ![u] = Idle] /\ rx' = pop(rx, 1) /\ io[u].at /= "idle"
    BY <1>5 DEF getc_ring, Getting, rx_pop
  <2>2. Idle \in CallType /\ Idle.at = "idle" /\ Idle.todo = <<>>
    BY DEF Idle, CallType
  <2>3. 1 \in 0..rx.count
    <3>1. rx.count \in 0..UART_FIFO_SIZE
      BY Parts DEF RingType
    <3> QED BY <3>1, <1>5, UartAssumption
  <2>4. rx' \in RingType /\ RingOK(rx')
    BY <2>1, <2>3, Parts, PopRing
  <2>5. io' \in [User -> CallType] /\ Queued' /\ Calls' /\ Told'
    BY <1>1, <1>2, <1>5, <2>1, <2>2, CallGoes
  <2>6. RingOK(rx)' /\ RingOK(tx)'
    BY <1>1, <2>4, Parts DEF RingOK
  <2> QED BY <1>1, <2>4, <2>5, <2>6, Parts, Together
<1> QED BY <1>3, <1>4, <1>5

(* The hardware's steps are the FIFOs' only.                               *)
LEMMA HwStep ==
  ASSUME UartInv, hw_arrive \/ hw_send
  PROVE  UartInv'
<1>1. UNCHANGED <<board, uses, rx, tx, ready, flg, io, wrote>>
  BY DEF hw_arrive, hw_send
<1>2. hw' \in HwType /\ Len(hw'.rx) <= Depth /\ Len(hw'.tx) <= Depth /\ came' \in Nat
  <2>1. CASE hw_arrive
    <3>1. came' = came + 1 /\ came + 1 \in Nat
      BY <2>1, Parts DEF hw_arrive
    <3>2. CASE Len(hw.rx) < Depth
      <4>1. hw' = [hw EXCEPT !.rx = Append(@, came + 1)]
        BY <2>1, <3>2 DEF hw_arrive
      <4>2. Append(hw.rx, came + 1) \in Seq(Nat) /\ Len(Append(hw.rx, came + 1)) = Len(hw.rx) + 1
        BY <3>1, Parts
      <4>3. Len(hw.rx) + 1 <= Depth
        BY <3>2, Parts
      <4> QED BY <3>1, <4>1, <4>2, <4>3, Parts DEF HwType
    <3>3. CASE ~(Len(hw.rx) < Depth)
      BY <2>1, <3>1, <3>3, Parts DEF hw_arrive
    <3> QED BY <3>2, <3>3
  <2>2. CASE hw_send
    <3>1. hw.tx /= <<>> /\ came' = came
      BY <2>2 DEF hw_send
    <3>2. Tail(hw.tx) \in Seq(Slot) /\ Len(Tail(hw.tx)) <= Len(hw.tx) /\ Len(Tail(hw.tx)) \in Nat
      BY <3>1, Parts
    <3>3. PICK stat \in BOOLEAN : hw' = [hw EXCEPT !.tx = Tail(hw.tx), !.stat = stat]
      <4>1. hw.stat \in BOOLEAN
        BY Parts DEF HwType
      <4> DEFINE s == \/ hw.stat
                      \/ board = "pl011" /\ Len(Tail(hw.tx)) = Depth \div 2
                      \/ board = "cadence" /\ Tail(hw.tx) = <<>>
      <4>2. hw' = [hw EXCEPT !.tx = Tail(hw.tx), !.stat = s]
        BY <2>2 DEF hw_send
      <4>3. s \in BOOLEAN
        BY <4>1
      <4> HIDE DEF s
      <4> QED BY <4>2, <4>3
    <3>4. hw' = [rx |-> hw.rx, tx |-> Tail(hw.tx), stat |-> stat, ie |-> hw.ie]
      BY <3>3, Parts DEF HwType
    <3>5. hw.ie \in BOOLEAN
      BY Parts DEF HwType
    <3>6. hw' \in HwType
      BY <3>2, <3>4, <3>5, Parts DEF HwType
    <3>7. Len(hw'.rx) <= Depth /\ Len(hw'.tx) <= Depth
      BY <3>2, <3>4, Parts
    <3> QED BY <3>1, <3>6, <3>7, Parts
  <2> QED BY <2>1, <2>2
<1>3. RingOK(rx)' /\ RingOK(tx)'
  BY <1>1, Parts DEF RingOK
<1>4. Queued' /\ Calls' /\ Told'
  BY <1>1, Parts DEF Queued, Calls, Told, Blocked, Alone, Getting
<1> QED BY <1>1, <1>2, <1>3, <1>4, Parts, Together

(* The handler: what arrived goes into the ring, the ring on to the FIFO.  *)
LEMMA HandleStep ==
  ASSUME UartInv, NEW reads \in BOOLEAN, NEW kicks \in BOOLEAN, NEW h \in HwType,
         h.tx = hw.tx, h.rx = hw.rx, Handle(reads, kicks, h)
  PROVE  UartInv'
<1> DEFINE r == IF reads THEN Drained ELSE rx
           k == IF kicks THEN uart_tx_kick(tx, h) ELSE [ring |-> tx, hw |-> h]
           set == (IF reads /\ r.count > 0 THEN {RX} ELSE {})
                  \union (IF kicks /\ ~Full(k.ring) THEN {TX} ELSE {})
<1>1. /\ rx' = r /\ tx' = k.ring
      /\ hw' = [k.hw EXCEPT !.rx = IF reads THEN <<>> ELSE @]
      /\ IF set = {} THEN UNCHANGED <<flg, io>> ELSE iset_flg(set)
      /\ UNCHANGED <<board, uses, ready, wrote, came>>
  BY DEF Handle
<1>2. r \in RingType /\ RingOK(r)
  <2>1. hw.rx \in Seq(Slot)
    BY Parts DEF Slot
  <2>2. Drained \in RingType /\ RingOK(Drained)
    BY <2>1, Parts, PushRing DEF Drained, rx_push
  <2> QED BY <2>2, Parts
<1>3. r.count = 0 \/ RX \in set \/ r = rx
  <2>1. r.count \in 0..UART_FIFO_SIZE
    BY <1>2 DEF RingType
  <2>2. r.count = 0 \/ r.count > 0
    BY <2>1, UartAssumption
  <2> QED BY <2>2
<1>4. set \in SUBSET {RX, TX}
  OBVIOUS
<1> HIDE DEF r, set
<1>5. /\ k.ring \in RingType /\ RingOK(k.ring)
      /\ k.hw \in HwType /\ Len(k.hw.tx) <= Depth /\ k.hw.rx = hw.rx
  <2>1. CASE kicks
    BY <2>1, Parts, KickRing
  <2>2. CASE ~kicks
    BY <2>2, Parts
  <2> QED BY <2>1, <2>2
<1> HIDE DEF k
<1>6. hw' \in HwType /\ Len(hw'.rx) <= Depth /\ Len(hw'.tx) <= Depth
  <2>1. <<>> \in Seq(Nat) /\ Len(<<>>) = 0
    OBVIOUS
  <2> DEFINE x == IF reads THEN <<>> ELSE k.hw.rx
  <2>2. x \in Seq(Nat) /\ Len(x) <= Depth
    BY <1>5, <2>1, Parts
  <2>3. hw' = [k.hw EXCEPT !.rx = x]
    BY <1>1
  <2> HIDE DEF x
  <2> QED BY <1>5, <2>2, <2>3 DEF HwType
<1>7. flg' \in FlagType /\ io' \in [User -> CallType] /\ Queued' /\ Calls' /\ Told'
  <2>1. (set = {} /\ flg' = flg /\ io' = io) \/ iset_flg(set)
    BY <1>1
  <2> QED BY <1>1, <1>3, <1>4, <2>1, FlagSet
<1>8. RingOK(rx)' /\ RingOK(tx)'
  BY <1>1, <1>2, <1>5 DEF RingOK
<1> QED BY <1>1, <1>2, <1>5, <1>6, <1>7, <1>8, Parts, Together

LEMMA IrqStep ==
  ASSUME UartInv, uart_irq
  PROVE  UartInv'
<1>1. HasByte \in BOOLEAN /\ hw.stat \in BOOLEAN /\ hw.ie \in BOOLEAN
  BY Parts DEF HasByte, HwType
<1> DEFINE served == [hw EXCEPT !.stat = FALSE]
<1>2. served \in HwType /\ served.tx = hw.tx /\ served.rx = hw.rx
  BY Parts DEF HwType
<1>3. CASE pl011_irq
  <2> DEFINE kicks == hw.stat /\ hw.ie
             h == IF kicks THEN served ELSE hw
  <2>1. Handle(HasByte, kicks, h)
    BY <1>3 DEF pl011_irq
  <2>2. kicks \in BOOLEAN
    BY <1>1
  <2>3. h \in HwType /\ h.tx = hw.tx /\ h.rx = hw.rx
    BY <1>2, Parts
  <2> HIDE DEF kicks, h
  <2> QED BY <1>1, <2>1, <2>2, <2>3, HandleStep
<1>4. CASE cadence_irq
  <2>1. Handle(HasByte, hw.stat, served)
    BY <1>4 DEF cadence_irq
  <2> HIDE DEF served
  <2> QED BY <1>1, <1>2, <2>1, HandleStep
<1>5. CASE usart_irq
  <2> DEFINE kicks == hw.tx = <<>>
  <2>1. Handle(HasByte, kicks, hw) /\ kicks \in BOOLEAN
    BY <1>5 DEF usart_irq
  <2> HIDE DEF kicks
  <2> QED BY <1>1, <2>1, Parts, HandleStep
<1>6. CASE uart_poll_rx
  <2>1. rx' = Drained /\ hw' = [hw EXCEPT !.rx = <<>>] /\ iset_flg({RX})
        /\ UNCHANGED <<board, uses, tx, ready, wrote, came>>
    BY <1>6 DEF uart_poll_rx
  <2>2. Drained \in RingType /\ RingOK(Drained)
    <3>1. hw.rx \in Seq(Slot)
      BY Parts DEF Slot
    <3> QED BY <3>1, Parts, PushRing DEF Drained, rx_push
  <2>3. hw' \in HwType /\ Len(hw'.rx) <= Depth /\ Len(hw'.tx) <= Depth
    <3>1. <<>> \in Seq(Nat) /\ Len(<<>>) = 0
      OBVIOUS
    <3>2. hw' = [rx |-> <<>>, tx |-> hw.tx, stat |-> hw.stat, ie |-> hw.ie]
      BY <2>1, Parts DEF HwType
    <3>3. hw.stat \in BOOLEAN /\ hw.ie \in BOOLEAN
      BY <1>1
    <3> QED BY <3>1, <3>2, <3>3, Parts DEF HwType
  <2>4. flg' \in FlagType /\ io' \in [User -> CallType] /\ Queued' /\ Calls' /\ Told'
    <3>1. {RX} \in SUBSET {RX, TX} /\ RX \in {RX}
      OBVIOUS
    <3> DEFINE set == {RX}
    <3>2. set \in SUBSET {RX, TX} /\ RX \in set /\ iset_flg(set)
      BY <2>1, <3>1
    <3> HIDE DEF set
    <3> QED BY <2>1, <3>2, FlagSet
  <2>5. RingOK(rx)' /\ RingOK(tx)'
    BY <2>1, <2>2, Parts DEF RingOK
  <2> QED BY <2>1, <2>2, <2>3, <2>4, <2>5, Parts, Together
<1> QED BY <1>3, <1>4, <1>5, <1>6 DEF uart_irq

LEMMA UartStep ==
  ASSUME UartInv, UartNext
  PROVE  UartInv'
<1>1. ASSUME NEW u \in User, UserStep(u) PROVE UartInv'
  BY <1>1, PutcStep, WritesStep, PutRingStep, WaitStep, GetStep DEF UserStep
<1> QED BY <1>1, UartInitStep, HwStep, IrqStep DEF UartNext

LEMMA UartStays ==
  ASSUME UartInv, UNCHANGED uartvars
  PROVE  UartInv'
<1>1. UNCHANGED <<board, uses, rx, tx, hw, ready, flg, io, wrote, came>>
  BY DEF uartvars
<1> QED BY <1>1 DEF UartInv, UartTypes, Rings, Queued, Calls, Told, Blocked, Alone, Getting, RingOK, Depth

(* A user is in the queue once while it is blocked, and else not at all.   *)
LEMMA UartSafe ==
  ASSUME UartInv
  PROVE  TypeOK /\ GetcAwake
<1>1. ASSUME NEW u \in User
      PROVE  Cardinality({n \in DOMAIN flg.wait : flg.wait[n].user = u})
             = (IF io[u].at = "blocked" THEN 1 ELSE 0)
  <2> DEFINE S == {n \in DOMAIN flg.wait : flg.wait[n].user = u}
  <2>1. CASE io[u].at = "blocked"
    <3>1. PICK n \in DOMAIN flg.wait : flg.wait[n].user = u
      BY <2>1, Parts DEF Queued, Blocked
    <3>2. S = {n}
      BY <3>1, Parts DEF Queued
    <3> QED BY <2>1, <3>2, FS_Singleton
  <2>2. CASE io[u].at /= "blocked"
    <3>1. S = {}
      BY <2>2, Parts DEF Queued, Blocked
    <3> QED BY <2>2, <3>1, FS_EmptySet
  <2> QED BY <2>1, <2>2
<1>2. TypeOK
  BY <1>1, Parts DEF TypeOK
<1>3. GetcAwake
  BY Parts DEF GetcAwake, Told
<1> QED BY <1>2, <1>3

------------------------------------------------------------------------------
(* The whole.                                                              *)
MInv == PortInv /\ UartInv

(* What the port's invariant is for.                                       *)
LEMMA PortSafe ==
  ASSUME PortInv, ~LoneExit
  PROVE  NeverReturns /\ DueIsWaiting
<1>1. NeverReturns
  BY DEF PortInv, NoneLeft, LeftForGood, NeverReturns, Executes
<1>2. DueIsWaiting
  BY DEF PortInv, Walk, DueIsWaiting, Due, Linked, Timed
<1> QED BY <1>1, <1>2

LEMMA InitMInv ==
  ASSUME Init
  PROVE  MInv /\ Promise!Init
BY PortStart, UartStart DEF Init, MInv

LEMMA NextMInv ==
  ASSUME MInv, TickAlone, [Next]_vars
  PROVE  MInv' /\ Step
<1>1. CASE OfUart(UartNext)
  <2>1. UNCHANGED portvars /\ UartNext
    BY <1>1 DEF OfUart
  <2> QED BY <2>1, PortStays, UartStep DEF MInv
<1>2. CASE OfPort(PortNext)
  <2>1. UNCHANGED uartvars /\ PortNext /\ port /= NoPort
    BY <1>2 DEF OfPort
  <2>2. port \in Ports
    BY <2>1 DEF MInv, PortInv, PortTypes
  <2> QED BY <2>1, <2>2, PortStep, UartStays DEF MInv
<1>3. CASE UNCHANGED vars
  <2>1. UNCHANGED portvars /\ UNCHANGED uartvars
    BY <1>3 DEF vars
  <2> QED BY <2>1, PortStays, UartStays DEF MInv
<1> QED BY <1>1, <1>2, <1>3 DEF Next

(* uart.c's rings, the flag's queue and the counters of the interrupt      *)
(* handlers stay what they are: on every board and every port, for every   *)
(* number of users and tasks and every size of the rings.                  *)
THEOREM MachineInvariance ==
  ASSUME TickAlone
  PROVE  Spec => []MInv
<1>1. Init => MInv
  BY InitMInv
<1>2. MInv /\ [Next]_vars => MInv'
  BY NextMInv
<1> QED BY <1>1, <1>2, PTL DEF Spec

(* isetflg and twai_flg with the handler of uart.c: a user waits at most   *)
(* once, a task alone on the line does not sleep on input that is there;   *)
(* timer_interrupt releases waiting tasks only, and what ext_tsk left for  *)
(* good is not returned to.                                                *)
THEOREM MachineCorrect ==
  ASSUME TickAlone, ~LoneExit
  PROVE  Spec => []MachineOK
<1>1. MInv => MachineOK
  BY UartSafe, PortSafe DEF MInv, MachineOK
<1> QED BY <1>1, MachineInvariance, PTL

(* Whatever the ports do, each task goes on where it was: dispatch,        *)
(* interrupts and PendSV of every port implement the abstract threads.     *)
THEOREM MachineImplementsThreads ==
  ASSUME TickAlone
  PROVE  Spec => ThreadsSpec
<1>1. Init => Promise!Init
  BY InitMInv
<1>2. MInv /\ [Next]_vars => Step
  BY NextMInv
<1> QED BY <1>1, <1>2, MachineInvariance, PTL DEF Spec, ThreadsSpec, Promise!Spec, Step
=============================================================================
