------------------------------ MODULE VfsProofs ------------------------------
(***************************************************************************)
(* The tables of vfs.c and ramfs.c, for every number of descriptors,       *)
(* entries, handles and clients, when no two clients are inside vfs_open   *)
(* at once; and, with one client, their implementation of FileStore.       *)
(***************************************************************************)
EXTENDS Vfs, SequenceTheorems, FiniteSetTheorems, TLAPS

-----------------------------------------------------------------------------
(* Numbers. *)

(* A set of numbers that is not empty has a least one: the intervals 0..x  *)
(* are finite sets, and strict inclusion is well founded on finite sets.   *)
LEMMA LeastNumber ==
  ASSUME NEW S \in SUBSET Nat, S # {}
  PROVE  \E m \in S : \A x \in S : m <= x
<1> DEFINE T == {0..x : x \in S}
           R == StrictSubsetOrdering(Nat)
           F == FiniteSubsetsOf(Nat)
<1>1. T \subseteq F /\ T # {}
  <2>1. \A x \in S : 0..x \in SUBSET Nat /\ IsFiniteSet(0..x)
    BY FS_Interval
  <2> QED BY <2>1 DEF FiniteSubsetsOf
<1>2. IsWellFoundedOn(R, F)
  BY FS_StrictSubsetOrderingWellFounded
<1> HIDE DEF T, R, F
<1>3. PICK t \in T : \A u \in T : <<u, t>> \notin R
  BY <1>1, <1>2, WFMin
<1>4. PICK m \in S : t = 0..m
  BY DEF T
<1>5. ASSUME NEW x \in S, x < m PROVE FALSE
  <2>1. 0..x \in SUBSET Nat /\ 0..m \in SUBSET Nat /\ 0..x \subseteq 0..m
    BY <1>5
  <2>2. 0..x # 0..m
    <3>1. m \in 0..m /\ m \notin 0..x
      BY <1>5
    <3> QED BY <3>1
  <2>3. <<0..x, 0..m>> \in R
    BY <2>1, <2>2 DEF R, StrictSubsetOrdering
  <2>4. 0..x \in T
    BY DEF T
  <2> QED BY <1>3, <1>4, <2>3, <2>4
<1> QED BY <1>5

(* A power of two is a number above its exponent's predecessors: there are *)
(* as many subsets of 1..n, the singletons among them.                     *)
LEMMA PowerOfTwo ==
  ASSUME NEW n \in Nat
  PROVE  2^n \in Nat /\ n <= 2^n /\ 1 <= 2^n
<1>. DEFINE T == SUBSET (1..n)
            f == [i \in 1..n |-> {i}]
<1>1. IsFiniteSet(1..n) /\ Cardinality(1..n) = n
  BY FS_Interval
<1>2. IsFiniteSet(T) /\ Cardinality(T) = 2^Cardinality(1..n)
  BY <1>1, FS_SUBSET
<1>3. Cardinality(T) = 2^n
  BY <1>1, <1>2
<1>4. Cardinality(T) \in Nat
  BY <1>2, FS_CardinalityType
<1>5. f \in Injection(1..n, T)
  BY DEF Injection, IsInjective
<1>. HIDE DEF f
<1>6. Cardinality(1..n) <= Cardinality(T)
  <2>. HIDE DEF T
  <2>. QED BY <1>2, <1>5, FS_Injection
<1>7. Cardinality(T) # 0
  <2>1. T # {}
    OBVIOUS
  <2>. HIDE DEF T
  <2>. QED BY <1>2, <2>1, FS_EmptySet
<1>. HIDE DEF T
<1>. QED BY <1>1, <1>3, <1>4, <1>6, <1>7

-----------------------------------------------------------------------------
(* The drivers. *)

(* A block that is grown holds what is needed, and at most a file.         *)
LEMMA GrownFits ==
  ASSUME NEW cap \in 0..RAMFS_MAX_SIZE, NEW need \in 1..RAMFS_MAX_SIZE, cap < need
  PROVE  grown(cap, need) \in need..RAMFS_MAX_SIZE
<1>. DEFINE from == IF cap = 0 THEN RAMFS_CAP ELSE 2 * cap
            ok == {c \in {from * 2^k : k \in 0..need} : c >= need}
            ncap == CHOOSE c \in ok : \A d \in ok : c <= d
<1>1. from \in Nat /\ from >= 1
  BY RamfsAssumption
<1>. HIDE DEF from
<1>2. \A k \in 0..need : from * 2^k \in Nat
  BY <1>1, PowerOfTwo
<1>3. ok \in SUBSET Nat
  BY <1>2
<1>4. from * 2^need \in ok
  <2>1. 2^need \in Nat /\ 2^need >= need
    BY PowerOfTwo
  <2>2. from * 2^need >= need
    <3>. DEFINE p == 2^need
    <3>1. p \in Nat /\ p >= need
      BY <2>1
    <3>. HIDE DEF p
    <3>2. from * p >= p
      BY <1>1, <3>1
    <3>3. from * p >= need
      BY <1>1, <3>1, <3>2
    <3>. QED BY <3>3 DEF p
  <2>. QED BY <2>2
<1>5. ncap \in ok
  <2>. HIDE DEF ok
  <2>1. \E c \in ok : \A d \in ok : c <= d
    BY <1>3, <1>4, LeastNumber
  <2>. QED BY <2>1
<1>6. ncap \in Nat /\ ncap >= need
  BY <1>3, <1>5
<1>7. grown(cap, need) = IF ncap > RAMFS_MAX_SIZE THEN RAMFS_MAX_SIZE ELSE ncap
  BY DEF grown, from
<1>. HIDE DEF ncap
<1>. QED BY <1>6, <1>7, RamfsAssumption

(* What a read copies is a sequence, and ends where the data ends.         *)
LEMMA ReadEnds ==
  ASSUME NEW S, NEW data \in Seq(S), NEW pos \in Nat, NEW n \in Nat
  PROVE  /\ Len(FileRead(data, pos, n)) \in Nat
         /\ pos + Len(FileRead(data, pos, n)) <= (IF pos <= Len(data) THEN Len(data) ELSE pos)
<1>. DEFINE end == IF pos + n < Len(data) THEN pos + n ELSE Len(data)
<1>1. Len(data) \in Nat /\ DOMAIN data = 1..Len(data) /\ \A i \in 1..Len(data) : data[i] \in S
  BY LenProperties, ElementOfSeq
<1>2. end \in Int /\ end <= Len(data)
  BY <1>1
<1>3. \A i \in (pos + 1)..end : data[i] \in S
  BY <1>1, <1>2
<1>4. FileRead(data, pos, n) = SubSeq(data, pos + 1, end)
  BY DEF FileRead
<1>. HIDE DEF end
<1>5. Len(SubSeq(data, pos + 1, end)) = IF pos + 1 <= end THEN end - (pos + 1) + 1 ELSE 0
  BY <1>2, <1>3, SubSeqProperties
<1>. QED BY <1>1, <1>2, <1>4, <1>5

(* What a write leaves: the bytes that were there, those written, and in   *)
(* between, when it begins past the end, what the block held.              *)
Bytes == Byte \union {Junk}

LEMMA WrittenBytes ==
  ASSUME NEW data \in Seq(Bytes), NEW pos \in Nat, NEW b \in Seq(Byte)
  PROVE  LET d == FileWrite(data, pos, b)
             end == pos + Len(b)
         IN  /\ d \in Seq(Bytes)
             /\ Len(d) = IF end > Len(data) THEN end ELSE Len(data)
             /\ \A i \in 1..Len(d) : /\ i <= pos => d[i] = IF i <= Len(data) THEN data[i] ELSE Junk
                                     /\ pos < i /\ i <= end => d[i] = b[i - pos] /\ d[i] \in Byte
                                     /\ end < i => d[i] = data[i]
<1>. DEFINE L == Len(data)
            end == pos + Len(b)
            from == IF pos <= L THEN SubSeq(data, 1, pos) ELSE data \o Pad(pos - L)
            rest == SubSeq(data, end + 1, L)
            d == from \o b \o rest
<1>1. L \in Nat /\ \A i \in 1..L : data[i] \in Bytes
  BY LenProperties, ElementOfSeq
<1>2. Len(b) \in Nat /\ b \in Seq(Bytes) /\ \A i \in 1..Len(b) : b[i] \in Byte
  <2>1. Byte \subseteq Bytes
    BY DEF Bytes
  <2>. QED BY <2>1, LenProperties, ElementOfSeq, SeqMonotonic
<1>3. FileWrite(data, pos, b) = d
  BY DEF FileWrite
<1>4. /\ from \in Seq(Bytes) /\ Len(from) = pos
      /\ \A i \in 1..pos : from[i] = IF i <= L THEN data[i] ELSE Junk
  <2>1. CASE pos <= L
    <3>1. from = SubSeq(data, 1, pos)
      BY <2>1
    <3>2. \A i \in 1..pos : data[i] \in Bytes
      BY <1>1, <2>1
    <3>3. /\ SubSeq(data, 1, pos) \in Seq(Bytes)
          /\ Len(SubSeq(data, 1, pos)) = IF 1 <= pos THEN pos - 1 + 1 ELSE 0
          /\ \A i \in 1..(pos - 1 + 1) : SubSeq(data, 1, pos)[i] = data[1 + i - 1]
      BY <3>2, SubSeqProperties
    <3>. DEFINE s == SubSeq(data, 1, pos)
    <3>. HIDE DEF s
    <3>4. s \in Seq(Bytes) /\ Len(s) = pos
      BY <3>3 DEF s
    <3>5. \A i \in 1..pos : s[i] = data[i]
      BY <3>3 DEF s
    <3>6. from = s
      BY <3>1 DEF s
    <3>. HIDE DEF from
    <3>7. \A i \in 1..pos : i <= L
      BY <1>1, <2>1
    <3>. HIDE DEF L
    <3>. QED BY <3>4, <3>5, <3>6, <3>7
  <2>2. CASE pos > L
    <3>. DEFINE p == Pad(pos - L)
    <3>1. p \in Seq(Bytes) /\ Len(p) = pos - L /\ \A i \in 1..(pos - L) : p[i] = Junk
      <4>1. pos - L \in Nat /\ Junk \in Bytes
        BY <1>1, <2>2 DEF Bytes
      <4>2. p \in [1..(pos - L) -> Bytes]
        BY <4>1 DEF Pad
      <4>3. \A i \in 1..(pos - L) : p[i] = Junk
        BY DEF Pad
      <4>4. p \in Seq(Bytes) /\ Len(p) = pos - L
        BY <4>1, <4>2, SeqDef
      <4>. QED BY <4>3, <4>4
    <3>. HIDE DEF p
    <3>2. /\ data \o p \in Seq(Bytes) /\ Len(data \o p) = L + Len(p)
          /\ \A i \in 1..(L + Len(p)) : (data \o p)[i] = IF i <= L THEN data[i] ELSE p[i - L]
      BY <3>1, ConcatProperties
    <3>3. from = data \o p
      BY <1>1, <2>2 DEF p
    <3>. HIDE DEF from
    <3>. QED BY <1>1, <2>2, <3>1, <3>2, <3>3
  <2>. QED BY <1>1, <2>1, <2>2
<1>5. /\ rest \in Seq(Bytes) /\ Len(rest) = IF end + 1 <= L THEN L - end ELSE 0
      /\ \A i \in 1..(L - end) : rest[i] = data[end + i]
  <2>1. \A i \in (end + 1)..L : data[i] \in Bytes
    BY <1>1, <1>2
  <2>2. end + 1 \in Int /\ L \in Int
    BY <1>1, <1>2
  <2>. HIDE DEF end, L
  <2>3. /\ SubSeq(data, end + 1, L) \in Seq(Bytes)
        /\ Len(SubSeq(data, end + 1, L)) = IF end + 1 <= L THEN L - (end + 1) + 1 ELSE 0
        /\ \A i \in 1..(L - (end + 1) + 1) : SubSeq(data, end + 1, L)[i] = data[(end + 1) + i - 1]
    BY <2>1, <2>2, SubSeqProperties
  <2>4. end \in Int
    BY <1>2 DEF end
  <2>. QED BY <2>2, <2>3, <2>4
<1>. HIDE DEF from, rest
<1>6. /\ from \o b \in Seq(Bytes) /\ Len(from \o b) = pos + Len(b)
      /\ \A i \in 1..(pos + Len(b)) : (from \o b)[i] = IF i <= pos THEN from[i] ELSE b[i - pos]
  <2>1. /\ from \o b \in Seq(Bytes) /\ Len(from \o b) = Len(from) + Len(b)
        /\ \A i \in 1..(Len(from) + Len(b)) :
             (from \o b)[i] = IF i <= Len(from) THEN from[i] ELSE b[i - Len(from)]
    BY <1>2, <1>4, ConcatProperties
  <2>. QED BY <1>4, <2>1
<1>. DEFINE fb == from \o b
<1>7. /\ fb \in Seq(Bytes) /\ Len(fb) = end
      /\ \A i \in 1..pos : fb[i] = from[i]
      /\ \A i \in (pos + 1)..end : fb[i] = b[i - pos] /\ fb[i] \in Byte
  BY <1>2, <1>6
<1>8. d = fb \o rest
  OBVIOUS
<1>. HIDE DEF fb, d
<1>9. /\ d \in Seq(Bytes) /\ Len(d) = end + Len(rest)
      /\ \A i \in 1..(end + Len(rest)) : d[i] = IF i <= end THEN fb[i] ELSE rest[i - end]
  <2>1. /\ fb \o rest \in Seq(Bytes) /\ Len(fb \o rest) = Len(fb) + Len(rest)
        /\ \A i \in 1..(Len(fb) + Len(rest)) :
             (fb \o rest)[i] = IF i <= Len(fb) THEN fb[i] ELSE rest[i - Len(fb)]
    <3>. HIDE DEF end, L
    <3>1. fb \in Seq(Bytes) /\ rest \in Seq(Bytes)
      BY <1>5, <1>7
    <3>. QED BY <3>1, ConcatProperties
  <2>. QED BY <1>7, <1>8, <2>1
<1>e. end \in Nat /\ pos <= end
  BY <1>2
<1>. HIDE DEF end, L
<1>10. Len(d) = IF end > L THEN end ELSE L
  BY <1>1, <1>e, <1>5, <1>9
<1>11. ASSUME NEW i \in 1..Len(d)
       PROVE  /\ i <= pos => d[i] = IF i <= L THEN data[i] ELSE Junk
              /\ pos < i /\ i <= end => d[i] = b[i - pos] /\ d[i] \in Byte
              /\ end < i => d[i] = data[i]
  <2>1. CASE i <= pos
    <3>1. i \in 1..pos /\ i <= end /\ i \in 1..(end + Len(rest))
      BY <1>e, <1>9, <2>1
    <3>2. d[i] = fb[i] /\ fb[i] = from[i] /\ from[i] = IF i <= L THEN data[i] ELSE Junk
      BY <1>4, <1>7, <1>9, <3>1
    <3>3. ~(pos < i) /\ ~(end < i)
      BY <1>e, <2>1, <3>1
    <3>. QED BY <3>2, <3>3
  <2>2. CASE pos < i /\ i <= end
    <3>1. i \in (pos + 1)..end /\ i \in 1..(end + Len(rest))
      BY <1>e, <1>9, <2>2
    <3>2. d[i] = fb[i] /\ fb[i] = b[i - pos] /\ fb[i] \in Byte
      BY <1>7, <1>9, <2>2, <3>1
    <3>3. ~(i <= pos) /\ ~(end < i)
      BY <1>e, <2>2, <3>1
    <3>. QED BY <3>2, <3>3
  <2>3. CASE end < i
    <3>1. i - end \in 1..(L - end) /\ d[i] = rest[i - end]
      BY <1>1, <1>e, <1>5, <1>9, <1>10, <2>3
    <3>2. rest[i - end] = data[end + (i - end)]
      BY <1>5, <3>1
    <3>3. end + (i - end) = i
      BY <1>e
    <3>. QED BY <1>e, <2>3, <3>1, <3>2, <3>3
  <2>. QED BY <1>e, <2>1, <2>2, <2>3
<1>. QED BY <1>3, <1>9, <1>10, <1>11 DEF end, L

(* The table of ramfs.c: the data of each entry fits its block, what is    *)
(* not used is as alloc_ent makes it, and a name has one entry.            *)
Entry == [used : BOOLEAN, name : Seq(STRING), data : Seq(Bytes), cap : 0..RAMFS_MAX_SIZE]
EntryOK(n) == n \in Entry /\ Len(n.data) <= n.cap /\ (~n.used => n = FreeEnt)
RamOK(e) ==
  /\ e \in [RamEnt -> Entry]
  /\ \A i \in RamEnt : EntryOK(e[i])
  /\ \A i, j \in RamEnt : e[i].used /\ e[j].used /\ e[i].name = e[j].name => i = j

LEMMA FreeEntryOK == EntryOK(FreeEnt)
<1>1. <<>> \in Seq(STRING) /\ <<>> \in Seq(Bytes) /\ Len(<<>>) = 0
  BY EmptySeq
<1>2. 0 \in 0..RAMFS_MAX_SIZE
  BY RamfsAssumption
<1>. QED BY <1>1, <1>2 DEF EntryOK, Entry, FreeEnt

LEMMA TruncatedOK ==
  ASSUME NEW n, EntryOK(n), n.used
  PROVE  /\ EntryOK(truncated(n)) /\ truncated(n).used /\ truncated(n).name = n.name
         /\ truncated(n).data = <<>>
<1>1. <<>> \in Seq(Bytes) /\ Len(<<>>) = 0
  BY EmptySeq
<1>2. 0 \in 0..RAMFS_MAX_SIZE
  BY RamfsAssumption
<1>. DEFINE z == <<>>
<1>3. truncated(n) = [n EXCEPT !.data = z, !.cap = 0] /\ z \in Seq(Bytes) /\ Len(z) = 0
  BY <1>1 DEF truncated
<1>. HIDE DEF z
<1>4. truncated(n) \in Entry
  BY <1>2, <1>3 DEF EntryOK, Entry
<1>5. /\ truncated(n).used /\ truncated(n).name = n.name
      /\ truncated(n).data = z /\ truncated(n).cap = 0
  BY <1>3 DEF EntryOK, Entry
<1>. QED BY <1>3, <1>4, <1>5 DEF EntryOK, z

(* A write keeps an entry as it should be, and says how far it went.       *)
LEMMA WriteKeepsEntry ==
  ASSUME NEW n, EntryOK(n), n.used, NEW pos \in Nat, NEW b \in Seq(Byte), NEW ok \in BOOLEAN
  PROVE  LET r == rf_write(n, pos, b, ok)
         IN  /\ EntryOK(r.ent) /\ r.ent.used /\ r.ent.name = n.name
             /\ r.rc = -1 \/ (r.rc = Len(b) /\ pos + Len(b) <= RAMFS_MAX_SIZE)
             /\ r.rc # -1 => r.ent.data = FileWrite(n.data, pos, b)
             /\ r.rc = -1 => r.ent = n
<1>. DEFINE need == pos + Len(b)
            full == need > RAMFS_MAX_SIZE \/ (need > n.cap /\ ~ok)
            ncap == IF need > n.cap THEN grown(n.cap, need) ELSE n.cap
            d == FileWrite(n.data, pos, b)
            m == [n EXCEPT !.cap = ncap, !.data = d]
<1>1. Len(b) \in Nat
  BY LenProperties
<1>2. /\ n \in Entry /\ n.cap \in 0..RAMFS_MAX_SIZE /\ n.data \in Seq(Bytes)
      /\ Len(n.data) \in Nat /\ Len(n.data) <= n.cap
  BY LenProperties DEF EntryOK, Entry
<1>3. CASE full
  <2>1. rf_write(n, pos, b, ok) = [rc |-> -1, ent |-> n]
    BY <1>3 DEF rf_write
  <2>. QED BY <2>1
<1>4. CASE ~full
  <2>1. rf_write(n, pos, b, ok) = [rc |-> Len(b), ent |-> m]
    BY <1>4 DEF rf_write
  <2>2. ncap \in 0..RAMFS_MAX_SIZE /\ need <= ncap /\ n.cap <= ncap
    <3>1. CASE need > n.cap
      <4>1. need \in 1..RAMFS_MAX_SIZE
        BY <1>1, <1>2, <1>4, <3>1, RamfsAssumption
      <4>2. grown(n.cap, need) \in need..RAMFS_MAX_SIZE
        BY <1>2, <4>1, <3>1, GrownFits
      <4>. QED BY <1>2, <3>1, <4>1, <4>2, RamfsAssumption
    <3>2. CASE ~(need > n.cap)
      BY <1>1, <1>2, <3>2, RamfsAssumption
    <3>. QED BY <3>1, <3>2
  <2>3. d \in Seq(Bytes) /\ Len(d) = IF need > Len(n.data) THEN need ELSE Len(n.data)
    BY <1>2, WrittenBytes
  <2>. HIDE DEF d, ncap
  <2>4. m \in Entry /\ m.used /\ m.name = n.name /\ m.data = d /\ m.cap = ncap
    BY <1>2, <2>2, <2>3 DEF Entry
  <2>5. Len(m.data) <= m.cap
    BY <1>1, <1>2, <2>2, <2>3, <2>4
  <2>6. need <= RAMFS_MAX_SIZE
    BY <1>1, <1>4, RamfsAssumption
  <2>. HIDE DEF m
  <2>. QED BY <1>1, <2>1, <2>4, <2>5, <2>6 DEF EntryOK, d
<1>. QED BY <1>3, <1>4

LEMMA SeekStaysInside ==
  ASSUME NEW size \in Nat, NEW pos \in Nat, NEW off \in Int, NEW whence \in Whence
  PROVE  LET np == FileSeek(size, pos, off, whence)
         IN  np >= 0 => np \in 0..size
BY DEF FileSeek, Whence

(* An open leaves a table as it should be, and every entry that was used.  *)
LEMMA OpenKeepsTable ==
  ASSUME NEW e, RamOK(e), NEW name \in Seq(STRING), NEW flags, NEW ok \in BOOLEAN
  PROVE  LET r == rf_open(e, name, flags, ok)
         IN  /\ RamOK(r.ents)
             /\ \A i \in RamEnt : e[i].used => /\ r.ents[i].used
                                               /\ r.ents[i].name = e[i].name
             /\ \A i \in RamEnt : r.ents[i].data \in {e[i].data, <<>>}
             /\ r.rc = 0 => /\ r.file.ent \in RamEnt /\ r.ents[r.file.ent].used
                            /\ r.file.pos \in 0..RAMFS_MAX_SIZE
                            /\ r.file.pos <= Len(r.ents[r.file.ent].data)
<1>. DEFINE found == ram_find_ent(e, name)
            fresh == IF "CREAT" \in flags /\ name /= <<>> THEN alloc_ent(e) ELSE {}
            i == CHOOSE x \in (IF found /= {} THEN found ELSE fresh) : TRUE
            ent == rf_opened(IF found /= {} THEN e[i] ELSE NewEnt(name), flags)
            pos == rf_pos(ent, flags)
            r == rf_open(e, name, flags, ok)
<1>1. CASE found = {} /\ fresh = {}
  <2>1. r = [rc |-> -1, ents |-> e, file |-> [ent |-> 0, pos |-> 0]]
    BY <1>1 DEF rf_open
  <2>. QED BY <2>1
<1>2. CASE ~(found = {} /\ fresh = {})
  <2>1. r = [rc |-> IF ok THEN 0 ELSE -1,
             ents |-> [e EXCEPT ![i] = ent],
             file |-> [ent |-> i, pos |-> pos]]
    BY <1>2 DEF rf_open
  <2>2. /\ i \in RamEnt
        /\ found # {} => e[i].used /\ e[i].name = name
        /\ found = {} => /\ ~e[i].used
                         /\ \A j \in RamEnt : e[j].used => e[j].name # name
    <3>1. CASE found # {}
      <4>1. i \in found
        BY <3>1
      <4>. QED BY <3>1, <4>1 DEF ram_find_ent
    <3>2. CASE found = {}
      <4>1. i \in fresh
        BY <1>2, <3>2
      <4>2. i \in alloc_ent(e) /\ name # <<>>
        BY <4>1
      <4>. QED BY <3>2, <4>2 DEF alloc_ent, ram_find_ent
    <3>. QED BY <3>1, <3>2
  <2>. HIDE DEF found, fresh, i
  <2>3. /\ EntryOK(NewEnt(name)) /\ NewEnt(name).used /\ NewEnt(name).name = name
        /\ NewEnt(name).data = <<>>
    BY FreeEntryOK DEF NewEnt, EntryOK, Entry, FreeEnt
  <2>4. EntryOK(ent) /\ ent.used /\ ent.name = name /\ ent.data \in {e[i].data, <<>>}
    <3>. DEFINE old == IF found /= {} THEN e[i] ELSE NewEnt(name)
    <3>1. EntryOK(old) /\ old.used /\ old.name = name /\ old.data \in {e[i].data, <<>>}
      BY <2>2, <2>3 DEF RamOK
    <3>. HIDE DEF old
    <3>2. EntryOK(rf_opened(old, flags)) /\ rf_opened(old, flags).used
          /\ rf_opened(old, flags).name = name /\ rf_opened(old, flags).data \in {e[i].data, <<>>}
      BY <3>1, TruncatedOK DEF rf_opened
    <3>. QED BY <3>2 DEF old
  <2>. HIDE DEF ent
  <2>5. pos \in 0..RAMFS_MAX_SIZE /\ pos <= Len(ent.data)
    <3>1. ent.data \in Seq(Bytes) /\ ent.cap \in 0..RAMFS_MAX_SIZE /\ Len(ent.data) <= ent.cap
      BY <2>4 DEF EntryOK, Entry
    <3>2. Len(ent.data) \in Nat
      BY <3>1, LenProperties
    <3>. QED BY <3>1, <3>2, RamfsAssumption DEF rf_pos
  <2>6. RamOK([e EXCEPT ![i] = ent])
    BY <2>2, <2>4 DEF RamOK, EntryOK
  <2>. HIDE DEF pos
  <2>. QED BY <2>1, <2>2, <2>4, <2>5, <2>6 DEF RamOK
<1>. QED BY <1>1, <1>2

-----------------------------------------------------------------------------
(* An open file stands in an entry that is used, or in a rom file, and at  *)
(* a position that is no further than it may be.                           *)
HandleOK(f, e) ==
  /\ f \in Block
  /\ f.fs = "ram" => f.ent \in RamEnt /\ f.pos <= RAMFS_MAX_SIZE /\ e[f.ent].used
  /\ f.fs = "rom" => f.ent \in DOMAIN RomFiles /\ f.pos <= Len(RomFiles[f.ent].data)

LEMMA RomData ==
  ASSUME NEW i \in DOMAIN RomFiles
  PROVE  /\ i \in Nat /\ Len(RomFiles[i].data) \in Nat
         /\ \E S : RomFiles[i].data \in Seq(S)
<1>1. \E S : RomFiles \in Seq(S)
  BY VfsAssumption DEF IsSequence
<1>2. DOMAIN RomFiles \subseteq Nat
  BY <1>1, LenProperties
<1>3. \E S : RomFiles[i].data \in Seq(S)
  BY VfsAssumption DEF IsSequence
<1>4. PICK S : RomFiles[i].data \in Seq(S)
  BY <1>3
<1>5. Len(RomFiles[i].data) \in Nat
  BY <1>4, LenProperties
<1>. QED BY <1>2, <1>3, <1>5

LEMMA DataOfHandle ==
  ASSUME RamOK(ents), NEW f, HandleOK(f, ents), f.fs # "none"
  PROVE  /\ \E S : DataOf(f) \in Seq(S)
         /\ Len(DataOf(f)) \in Nat
         /\ f.fs = "ram" => Len(DataOf(f)) <= RAMFS_MAX_SIZE
         /\ f.fs = "rom" => DataOf(f) = RomFiles[f.ent].data
<1>1. CASE f.fs = "ram"
  <2>1. EntryOK(ents[f.ent]) /\ DataOf(f) = ents[f.ent].data
    BY <1>1 DEF HandleOK, RamOK, DataOf
  <2>2. /\ DataOf(f) \in Seq(Bytes) /\ ents[f.ent].cap \in 0..RAMFS_MAX_SIZE
        /\ Len(DataOf(f)) <= ents[f.ent].cap
    BY <2>1 DEF EntryOK, Entry
  <2>3. Len(DataOf(f)) \in Nat
    BY <2>2, LenProperties
  <2>. QED BY <1>1, <2>2, <2>3, RamfsAssumption
<1>2. CASE f.fs = "rom"
  BY <1>2, RomData DEF HandleOK, DataOf
<1>. QED BY <1>1, <1>2 DEF HandleOK, Block, Fs

(* The open of either file system.                                         *)
LEMMA FsOpenKeepsTable ==
  ASSUME RamOK(ents), NEW fs \in Fs, NEW rel \in Seq(STRING), NEW flags, NEW ok \in BOOLEAN
  PROVE  LET r == fs_open(fs, rel, flags, ok)
         IN  /\ RamOK(r.ents)
             /\ \A i \in RamEnt : ents[i].used => r.ents[i].used
             /\ \A i \in RamEnt : r.ents[i].data \in {ents[i].data, <<>>}
             /\ r.rc = 0 => /\ ok
                            /\ HandleOK([fs |-> fs, ent |-> r.file.ent, pos |-> r.file.pos], r.ents)
                            /\ fs = "ram" => r.file.pos <= Len(r.ents[r.file.ent].data)
<1>1. CASE fs = "ram"
  <2>. DEFINE r == rf_open(ents, rel, flags, ok)
  <2>1. fs_open(fs, rel, flags, ok) = r
    BY <1>1 DEF fs_open
  <2>2. /\ RamOK(r.ents)
        /\ \A i \in RamEnt : ents[i].used => r.ents[i].used
        /\ \A i \in RamEnt : r.ents[i].data \in {ents[i].data, <<>>}
        /\ r.rc = 0 => /\ r.file.ent \in RamEnt /\ r.ents[r.file.ent].used
                       /\ r.file.pos \in 0..RAMFS_MAX_SIZE
                       /\ r.file.pos <= Len(r.ents[r.file.ent].data)
    BY OpenKeepsTable
  <2>3. r.rc = 0 => ok
    BY DEF rf_open
  <2>. HIDE DEF r
  <2>4. RamEnt \subseteq Nat
    BY RamfsAssumption DEF RamEnt
  <2>5. ASSUME r.rc = 0
        PROVE  HandleOK([fs |-> fs, ent |-> r.file.ent, pos |-> r.file.pos], r.ents)
    <3>. DEFINE f == [fs |-> fs, ent |-> r.file.ent, pos |-> r.file.pos]
    <3>1. /\ r.file.ent \in RamEnt /\ r.ents[r.file.ent].used
          /\ r.file.pos \in Nat /\ r.file.pos <= RAMFS_MAX_SIZE
      BY <2>2, <2>5, RamfsAssumption
    <3>2. f \in Block /\ f.fs = "ram" /\ f.ent = r.file.ent /\ f.pos = r.file.pos
      BY <1>1, <2>4, <3>1 DEF Block, Fs
    <3>. HIDE DEF f
    <3>3. HandleOK(f, r.ents)
      BY <3>1, <3>2 DEF HandleOK
    <3>. QED BY <3>3 DEF f
  <2>. QED BY <2>1, <2>2, <2>3, <2>5
<1>2. CASE fs = "rom"
  <2>. DEFINE o == rom_open(RomFiles, rel, ok)
              r == fs_open(fs, rel, flags, ok)
  <2>1. r = [rc |-> o.rc, ents |-> ents, file |-> o.file]
    BY <1>2 DEF fs_open
  <2>2. o.rc = 0 => ok /\ o.file.ent \in DOMAIN RomFiles /\ o.file.pos = 0
    <3>. DEFINE found == rom_find_ent(RomFiles, rel)
    <3>1. o = IF found = {} \/ ~ok
              THEN [rc |-> -1, file |-> [ent |-> 0, pos |-> 0]]
              ELSE [rc |-> 0, file |-> [ent |-> CHOOSE i \in found : TRUE, pos |-> 0]]
      BY DEF rom_open
    <3>2. found \subseteq DOMAIN RomFiles
      BY DEF rom_find_ent
    <3>. HIDE DEF o, found
    <3>3. found # {} => (CHOOSE i \in found : TRUE) \in found
      OBVIOUS
    <3>. QED BY <3>1, <3>2, <3>3
  <2>. HIDE DEF o
  <2>3. ASSUME o.rc = 0
        PROVE  HandleOK([fs |-> fs, ent |-> o.file.ent, pos |-> o.file.pos], ents)
    BY <1>2, <2>2, <2>3, RomData DEF HandleOK, Block, Fs
  <2>. HIDE DEF r
  <2>. QED BY <2>1, <2>2, <2>3 DEF r
<1>. QED BY <1>1, <1>2 DEF Fs

(* A handle that moves.                                                    *)
LEMMA HandleMoves ==
  ASSUME NEW f, NEW e, HandleOK(f, e), NEW p \in Nat,
         f.fs = "ram" => p <= RAMFS_MAX_SIZE,
         f.fs = "rom" => p <= Len(RomFiles[f.ent].data)
  PROVE  HandleOK([f EXCEPT !.pos = p], e)
BY DEF HandleOK, Block

-----------------------------------------------------------------------------
(* At most one client is inside vfs_open: the application takes care that  *)
(* there are no two, or there is one client only, the shell.               *)
VfsUse == Alone \/ \A c, e \in Client : c = e

MountOK(m) ==
  /\ m \in [used : BOOLEAN, path : {RomMount, RamMount, <<>>}, fs : Fs \union {"none"}]
  /\ m.used => m.fs \in Fs
FdRec == [used : BOOLEAN, fs : Fs \union {"none"}, file : Handle \union {NoHandle}]
Opening == [fd : Fd, fs : Fs, file : Handle]

TablesTyped ==
  /\ mounts = [i \in Slot |-> mounts[i]]
  /\ \A i \in Slot : MountOK(mounts[i])
  /\ fds \in [Fd -> FdRec]
  /\ pend \in [Client -> Opening \union {NoPend}]
  /\ own \in [Client -> SUBSET Fd]

(* Who holds which handle: of a handle, fsOf says whose it is.             *)
Held(fsOf, fd, pe) ==
  /\ \A d \in Fd : fd[d].used => /\ fd[d].file \in Handle /\ fd[d].fs \in Fs
                                 /\ fsOf[fd[d].file] = fd[d].fs
  /\ \A d, e \in Fd : fd[d].used /\ fd[e].used /\ fd[d].file = fd[e].file => d = e
  /\ \A c \in Client : pe[c] # NoPend =>
       /\ ~fd[pe[c].fd].used /\ fsOf[pe[c].file] = pe[c].fs
       /\ \A d \in Fd : fd[d].used => fd[d].file # pe[c].file
       /\ \A e \in Client : pe[e] # NoPend => e = c
  /\ \A h \in Handle : fsOf[h] # "none" =>
       \/ \E d \in Fd : fd[d].used /\ fd[d].file = h
       \/ \E c \in Client : pe[c] # NoPend /\ pe[c].file = h

Owned ==
  /\ \A d \in Fd : fds[d].used <=> \E c \in Client : d \in own[c]
  /\ \A c, e \in Client : c # e => own[c] \intersect own[e] = {}

FsOf(f) == [h \in Handle |-> f[h].fs]

VfsInv ==
  /\ TablesTyped
  /\ RamOK(ents)
  /\ file \in [Handle -> Block] /\ \A h \in Handle : HandleOK(file[h], ents)
  /\ Held(FsOf(file), fds, pend)
  /\ Owned

LEMMA InitVfsInv == Init => VfsInv
<1>. SUFFICES ASSUME Init PROVE VfsInv
  OBVIOUS
<1>. USE DEF Init
<1>1. TablesTyped
  <2>1. \A i \in Slot : MountOK(mounts[i])
    BY DEF MountOK, NoMount, Fs
  <2>2. fds \in [Fd -> FdRec]
    BY DEF FdRec, FreeFd
  <2>3. pend \in [Client -> Opening \union {NoPend}] /\ own \in [Client -> SUBSET Fd]
    OBVIOUS
  <2>4. mounts = [i \in Slot |-> mounts[i]]
    OBVIOUS
  <2>. QED BY <2>1, <2>2, <2>3, <2>4 DEF TablesTyped
<1>2. RamOK(ents)
  <2>1. FreeEnt \in Entry /\ ~FreeEnt.used
    BY FreeEntryOK DEF EntryOK, FreeEnt
  <2>2. ents = [i \in RamEnt |-> FreeEnt]
    OBVIOUS
  <2>3. ents \in [RamEnt -> Entry] /\ \A i \in RamEnt : ents[i] = FreeEnt
    BY <2>1, <2>2
  <2>. QED BY ONLY <2>1, <2>3, FreeEntryOK DEF RamOK
<1>3. file \in [Handle -> Block] /\ \A h \in Handle : HandleOK(file[h], ents)
  <2>1. FreeBlock \in Block /\ FreeBlock.fs = "none"
    BY DEF FreeBlock, Block
  <2>. QED BY <2>1 DEF HandleOK
<1>4. Held(FsOf(file), fds, pend)
  BY DEF Held, FsOf, FreeFd, FreeBlock
<1>5. Owned
  BY DEF Owned, FreeFd
<1>. QED BY <1>1, <1>2, <1>3, <1>4, <1>5 DEF VfsInv

(* The handle of an open descriptor.                                       *)
LEMMA HandleOfFd ==
  ASSUME VfsInv, NEW d \in Fd, fds[d].used
  PROVE  LET h == fds[d].file
         IN  /\ h \in Handle /\ file[h].fs = fds[d].fs /\ file[h].fs # "none"
             /\ HandleOK(file[h], ents) /\ file[h].pos \in Nat
<1>. DEFINE h == fds[d].file
<1>1. h \in Handle /\ file[h].fs = fds[d].fs /\ fds[d].fs \in Fs
  BY DEF VfsInv, Held, FsOf
<1>2. file[h] \in Block /\ HandleOK(file[h], ents)
  BY <1>1 DEF VfsInv
<1>. QED BY <1>1, <1>2 DEF Block, Fs

(* A handle that moves, and nothing else but the data of an entry.         *)
LEMMA MoveKeeps ==
  ASSUME VfsInv, NEW h \in Handle, NEW p,
         file' = [file EXCEPT ![h].pos = p], HandleOK([file[h] EXCEPT !.pos = p], ents'),
         RamOK(ents'), \A i \in RamEnt : ents[i].used => ents'[i].used,
         UNCHANGED <<mounts, fds, pend, own>>
  PROVE  VfsInv'
<1>1. TablesTyped' /\ Owned'
  BY DEF VfsInv, TablesTyped, Owned
<1>2. file \in [Handle -> Block] /\ \A x \in Handle : HandleOK(file[x], ents)
  BY DEF VfsInv
<1>3. file'[h] = [file[h] EXCEPT !.pos = p] /\ \A x \in Handle : x # h => file'[x] = file[x]
  BY <1>2
<1>4. \A x \in Handle : HandleOK(file'[x], ents')
  <2>. SUFFICES ASSUME NEW x \in Handle PROVE HandleOK(file'[x], ents')
    OBVIOUS
  <2>1. CASE x = h
    BY <1>3, <2>1
  <2>2. CASE x # h
    BY <1>2, <1>3, <2>2 DEF HandleOK
  <2>. QED BY <2>1, <2>2
<1>5. file' \in [Handle -> Block]
  <2>1. DOMAIN file' = Handle /\ file' = [x \in Handle |-> file'[x]]
    BY <1>2
  <2>2. \A x \in Handle : file'[x] \in Block
    BY <1>4 DEF HandleOK
  <2>. QED BY <2>1, <2>2
<1>6. FsOf(file') = FsOf(file)
  <2>1. \A x \in Handle : file'[x].fs = file[x].fs
    BY <1>2, <1>3 DEF Block
  <2>. QED BY <2>1 DEF FsOf
<1>7. Held(FsOf(file), fds, pend)'
  BY <1>6 DEF VfsInv
<1>. QED BY <1>1, <1>4, <1>5, <1>7 DEF VfsInv

-----------------------------------------------------------------------------
(* What a step may do to the bytes and to the positions: a byte nobody     *)
(* wrote was there, or a handle stood past the end; and a handle stays     *)
(* where it is, or moves to a place inside its file.                       *)
JunkWas(i) ==
  \A n \in DOMAIN ents'[i].data :
    ents'[i].data[n] = Junk => n \in DOMAIN ents[i].data /\ ents[i].data[n] = Junk
StaysInside(f, g, e) == g.fs = "ram" => g = f \/ g.pos <= Len(e[g.ent].data)
GapKept ==
  /\ \A i \in RamEnt : JunkWas(i) \/ Beyond(i)
  /\ \A h \in Handle : StaysInside(file[h], file'[h], ents')

LEMMA SameFiles == ASSUME UNCHANGED <<ents, file>> PROVE GapKept
BY DEF GapKept, JunkWas, StaysInside

LEMMA DataKept ==
  ASSUME NEW i \in RamEnt, ents'[i].data \in {ents[i].data, <<>>} PROVE JunkWas(i)
<1>1. CASE ents'[i].data = ents[i].data
  BY <1>1 DEF JunkWas
<1>2. CASE ents'[i].data = <<>>
  <2>1. DOMAIN ents'[i].data = {}
    BY <1>2
  <2>. QED BY <2>1 DEF JunkWas
<1>. QED BY <1>1, <1>2

LEMMA MoveKeepsGap ==
  ASSUME VfsInv, NEW h \in Handle, NEW p,
         file' = [file EXCEPT ![h].pos = p], UNCHANGED ents,
         p = file[h].pos \/ (file[h].fs = "ram" => p <= Len(ents[file[h].ent].data))
  PROVE  GapKept
<1>1. file \in [Handle -> Block]
  BY DEF VfsInv
<1>2. /\ \A x \in Handle : x # h => file'[x] = file[x]
      /\ file'[h].fs = file[h].fs /\ file'[h].ent = file[h].ent /\ file'[h].pos = p
      /\ p = file[h].pos => file'[h] = file[h]
  BY <1>1 DEF Block
<1>. QED BY <1>2 DEF GapKept, JunkWas, StaysInside

-----------------------------------------------------------------------------
(* The calls, one by one.                                                  *)
LEMMA IdleStep == ASSUME VfsInv, UNCHANGED state PROVE VfsInv' /\ GapKept
<1>1. GapKept
  BY SameFiles DEF state
<1>. QED BY <1>1 DEF VfsInv, state, TablesTyped, Owned

LEMMA OpenStep ==
  ASSUME VfsUse, VfsInv, NEW c \in Client, NEW path \in Path, NEW flags, VfsOpen(c, path, flags)
  PROVE  VfsInv' /\ GapKept
<1>1. CASE Fails("open")
  BY <1>1, IdleStep DEF Fails
<1>2. CASE \E i \in find_mount(path), d \in alloc_fd : OpenOn(c, i, d, path, flags)
  <2>1. PICK i \in find_mount(path), d \in alloc_fd : OpenOn(c, i, d, path, flags)
    BY <1>2
  <2>2. i \in Slot /\ mounts[i].used /\ mounts[i].fs \in Fs
    BY <2>1 DEF find_mount, VfsInv, TablesTyped, MountOK
  <2>3. d \in Fd /\ ~fds[d].used
    BY <2>1 DEF alloc_fd
  <2>4. PICK ok \in BOOLEAN :
          LET fs == mounts[i].fs
              r == fs_open(fs, RelOf(path, i), flags, ok)
              h == CHOOSE x \in Handle : file[x].fs = "none"
          IN  /\ ok => \E x \in Handle : file[x].fs = "none"
              /\ ents' = r.ents
              /\ IF r.rc = 0
                 THEN /\ file' = [file EXCEPT ![h] = [fs |-> fs, ent |-> r.file.ent, pos |-> r.file.pos]]
                      /\ pend' = [pend EXCEPT ![c] = [fd |-> d, fs |-> fs, file |-> h]]
                      /\ UNCHANGED ret
                 ELSE UNCHANGED <<file, pend>> /\ Returns("open", -1, <<>>)
              /\ UNCHANGED <<mounts, fds, own>>
    BY <2>1 DEF OpenOn
  <2>. DEFINE fs == mounts[i].fs
              rel == RelOf(path, i)
              r == fs_open(fs, rel, flags, ok)
              h == CHOOSE x \in Handle : file[x].fs = "none"
              f == [fs |-> fs, ent |-> r.file.ent, pos |-> r.file.pos]
  <2>5. rel \in Seq(STRING)
    <3>1. mounts[i].path \in Seq(STRING) /\ path \in Seq(STRING)
      <4>1. mounts[i].path \in {RomMount, RamMount, <<>>}
        BY <2>2 DEF VfsInv, TablesTyped, MountOK
      <4>. QED BY <4>1, VfsAssumption, EmptySeq
    <3>2. Len(mounts[i].path) \in Nat /\ Len(path) \in Nat
          /\ \A n \in 1..Len(path) : path[n] \in STRING
      BY <3>1, LenProperties, ElementOfSeq
    <3>. DEFINE m == Len(mounts[i].path) + 1
    <3>3. m \in Int /\ \A n \in m..Len(path) : path[n] \in STRING
      BY <3>2
    <3>. HIDE DEF m
    <3>4. SubSeq(path, m, Len(path)) \in Seq(STRING)
      BY <3>2, <3>3, SubSeqProperties
    <3>. QED BY <3>4 DEF RelOf, m
  <2>6. /\ RamOK(r.ents)
        /\ \A j \in RamEnt : ents[j].used => r.ents[j].used
        /\ \A j \in RamEnt : r.ents[j].data \in {ents[j].data, <<>>}
        /\ r.rc = 0 => /\ ok /\ HandleOK(f, r.ents)
                       /\ fs = "ram" => r.file.pos <= Len(r.ents[r.file.ent].data)
    <3>. HIDE DEF rel, fs
    <3>1. fs \in Fs
      BY <2>2 DEF fs
    <3>. QED BY <2>5, <3>1, FsOpenKeepsTable DEF VfsInv
  <2>. HIDE DEF rel, r, h
  <2>7. ents' = r.ents /\ UNCHANGED <<mounts, fds, own>>
    BY <2>4 DEF r, rel
  <2>8. \A x \in Handle : HandleOK(file[x], ents')
    BY <2>6, <2>7 DEF VfsInv, HandleOK
  <2>9. Owned'
    BY <2>7 DEF VfsInv, Owned
  <2>10. RamOK(ents') /\ \A j \in RamEnt : JunkWas(j)
    BY <2>6, <2>7, DataKept
  <2>11. CASE r.rc # 0
    <3>1. UNCHANGED <<file, pend>>
      BY <2>4, <2>11 DEF r, rel, h
    <3>2. TablesTyped' /\ Held(FsOf(file), fds, pend)'
      BY <2>7, <3>1 DEF VfsInv, TablesTyped
    <3>3. (file \in [Handle -> Block])' /\ \A x \in Handle : HandleOK(file'[x], ents')
      BY <2>8, <3>1 DEF VfsInv
    <3>4. GapKept
      BY <2>10, <3>1 DEF GapKept, StaysInside
    <3>. QED BY <2>9, <2>10, <3>2, <3>3, <3>4 DEF VfsInv
  <2>12. CASE r.rc = 0
    <3>1. file' = [file EXCEPT ![h] = f] /\ pend' = [pend EXCEPT ![c] = [fd |-> d, fs |-> fs, file |-> h]]
      BY <2>4, <2>12 DEF r, rel, h
    <3>2. h \in Handle /\ file[h].fs = "none"
      <4>1. \E x \in Handle : file[x].fs = "none"
        BY <2>4, <2>6, <2>12 DEF r, rel
      <4>. QED BY <4>1 DEF h
    <3>3. /\ HandleOK(f, ents') /\ f \in Block /\ f.fs = fs
          /\ fs = "ram" => f.pos <= Len(ents'[f.ent].data)
      BY <2>6, <2>7, <2>12 DEF HandleOK
    <3>. HIDE DEF f
    <3>4. file' \in [Handle -> Block] /\ \A x \in Handle : HandleOK(file'[x], ents')
      BY <2>8, <3>1, <3>2, <3>3 DEF VfsInv
    <3>. DEFINE p == [fd |-> d, fs |-> fs, file |-> h]
    <3>5. p \in Opening /\ p # NoPend /\ p.fd = d /\ p.fs = fs /\ p.file = h
      <4>1. p.fd # NoPend.fd
        BY <2>3 DEF Fd, NoPend
      <4>. QED BY <2>2, <2>3, <3>2, <4>1 DEF Opening
    <3>. HIDE DEF p
    <3>6. pend' = [pend EXCEPT ![c] = p] /\ pend \in [Client -> Opening \union {NoPend}]
      BY <3>1 DEF VfsInv, TablesTyped, p
    <3>7. TablesTyped'
      BY <2>7, <3>5, <3>6 DEF VfsInv, TablesTyped
    <3>8. \A e \in Client : pend[e] = NoPend
      BY DEF VfsOpen, VfsUse
    <3>9. Held(FsOf(file), fds, pend)'
      <4>1. \A x \in Handle : FsOf(file')[x] = IF x = h THEN fs ELSE FsOf(file)[x]
        BY <3>1, <3>2, <3>3 DEF FsOf, VfsInv
      <4>2. FsOf(file)[h] = "none"
        BY <3>2 DEF FsOf
      <4>3. /\ \A x \in Fd : fds[x].used => fds[x].file \in Handle /\ fds[x].file # h
            /\ \A x \in Fd : fds[x].used => FsOf(file')[fds[x].file] = fds[x].fs /\ fds[x].fs \in Fs
        BY <3>2, <4>1, <4>2 DEF VfsInv, Held, Fs
      <4>4. \A e \in Client : pend'[e] # NoPend => e = c
        BY <3>6, <3>8
      <4>5. pend'[c] = p
        BY <3>6
      <4>6. \A x \in Handle : FsOf(file')[x] # "none" =>
              x = h \/ \E y \in Fd : fds[y].used /\ fds[y].file = x
        BY <3>8, <4>1 DEF VfsInv, Held
      <4>7. fds' = fds
        BY <2>7
      <4>8. \A x, y \in Fd : fds[x].used /\ fds[y].used /\ fds[x].file = fds[y].file => x = y
        BY DEF VfsInv, Held
      <4>. HIDE DEF fs
      <4>. QED BY <2>3, <3>2, <3>5, <4>1, <4>3, <4>4, <4>5, <4>6, <4>7, <4>8 DEF Held
    <3>10. GapKept
      <4>1. file \in [Handle -> Block]
        BY DEF VfsInv
      <4>2. \A x \in Handle : file'[x] = IF x = h THEN f ELSE file[x]
        BY <3>1, <3>2, <4>1
      <4>. QED BY <2>10, <3>3, <4>2 DEF GapKept, StaysInside
    <3>. QED BY <2>9, <2>10, <3>4, <3>7, <3>9, <3>10 DEF VfsInv
  <2>. QED BY <2>11, <2>12
<1>. QED BY <1>1, <1>2 DEF VfsOpen

LEMMA MarkStep ==
  ASSUME VfsInv, NEW c \in Client, VfsOpenMark(c) PROVE VfsInv' /\ GapKept
<1>. DEFINE p == pend[c]
<1>1. /\ p # NoPend
      /\ fds' = [fds EXCEPT ![p.fd] = [used |-> TRUE, fs |-> p.fs, file |-> p.file]]
      /\ own' = [own EXCEPT ![c] = @ \union {p.fd}]
      /\ pend' = [pend EXCEPT ![c] = NoPend]
      /\ UNCHANGED <<mounts, ents, file>>
  BY DEF VfsOpenMark
<1>2. p \in Opening /\ p.fd \in Fd /\ p.fs \in Fs /\ p.file \in Handle
  BY <1>1 DEF VfsInv, TablesTyped, Opening
<1>3. /\ pend \in [Client -> Opening \union {NoPend}] /\ fds \in [Fd -> FdRec]
      /\ own \in [Client -> SUBSET Fd]
  BY DEF VfsInv, TablesTyped
<1>4. /\ ~fds[p.fd].used /\ FsOf(file)[p.file] = p.fs
      /\ \A d \in Fd : fds[d].used => fds[d].file # p.file
      /\ \A e \in Client : pend[e] # NoPend => e = c
  BY <1>1 DEF VfsInv, Held
<1>. HIDE DEF p
<1>. DEFINE m == [used |-> TRUE, fs |-> p.fs, file |-> p.file]
<1>5. m \in FdRec /\ m.used /\ m.fs = p.fs /\ m.file = p.file
  BY <1>2 DEF FdRec
<1>. HIDE DEF m
<1>6. fds' = [fds EXCEPT ![p.fd] = m]
  BY <1>1 DEF m
<1>7. TablesTyped'
  <2>1. fds' \in [Fd -> FdRec] /\ pend' \in [Client -> Opening \union {NoPend}]
        /\ own' \in [Client -> SUBSET Fd]
    BY <1>1, <1>2, <1>3, <1>5, <1>6
  <2>. QED BY <1>1, <2>1 DEF VfsInv, TablesTyped
<1>8. \A e \in Client : pend'[e] = NoPend
  BY <1>1, <1>3, <1>4
<1>9. \A d \in Fd : fds'[d] = IF d = p.fd THEN m ELSE fds[d]
  BY <1>2, <1>3, <1>6
<1>10. Held(FsOf(file), fds, pend)'
  <2>1. FsOf(file') = FsOf(file)
    BY <1>1
  <2>2. \A d \in Fd : fds[d].used => /\ fds[d].file \in Handle /\ fds[d].fs \in Fs
                                     /\ FsOf(file)[fds[d].file] = fds[d].fs
    BY DEF VfsInv, Held
  <2>3. \A d, e \in Fd : fds[d].used /\ fds[e].used /\ fds[d].file = fds[e].file => d = e
    BY DEF VfsInv, Held
  <2>4. \A d \in Fd : fds'[d].used => /\ fds'[d].file \in Handle /\ fds'[d].fs \in Fs
                                      /\ FsOf(file)[fds'[d].file] = fds'[d].fs
    BY <1>2, <1>4, <1>5, <1>9, <2>2
  <2>5. \A d, e \in Fd : fds'[d].used /\ fds'[e].used /\ fds'[d].file = fds'[e].file => d = e
    BY <1>4, <1>5, <1>9, <2>3
  <2>6. \A h \in Handle : FsOf(file)[h] # "none" =>
          \E d \in Fd : fds'[d].used /\ fds'[d].file = h
    <3>. SUFFICES ASSUME NEW h \in Handle, FsOf(file)[h] # "none"
                  PROVE  \E d \in Fd : fds'[d].used /\ fds'[d].file = h
      OBVIOUS
    <3>1. CASE \E d \in Fd : fds[d].used /\ fds[d].file = h
      BY <1>4, <1>9, <3>1
    <3>2. CASE \E e \in Client : pend[e] # NoPend /\ pend[e].file = h
      <4>1. h = p.file
        BY <1>4, <3>2 DEF p
      <4>. QED BY <1>2, <1>5, <1>9, <4>1
    <3>. QED BY <3>1, <3>2 DEF VfsInv, Held
  <2>. QED BY <1>8, <2>1, <2>4, <2>5, <2>6 DEF Held
<1>11. Owned'
  <2>1. \A e \in Client : own'[e] = IF e = c THEN own[e] \union {p.fd} ELSE own[e]
    BY <1>1, <1>3
  <2>2. \A e \in Client : p.fd \notin own[e]
    BY <1>2, <1>4 DEF VfsInv, Owned
  <2>3. ASSUME NEW d \in Fd PROVE fds'[d].used <=> \E e \in Client : d \in own'[e]
    <3>1. CASE d = p.fd
      <4>1. d \in own'[c]
        BY <2>1, <3>1
      <4>. QED BY <1>5, <1>9, <3>1, <4>1
    <3>2. CASE d # p.fd
      <4>1. fds'[d] = fds[d] /\ \A e \in Client : d \in own'[e] <=> d \in own[e]
        BY <1>9, <2>1, <3>2
      <4>. QED BY <4>1 DEF VfsInv, Owned
    <3>. QED BY <3>1, <3>2
  <2>4. \A x, y \in Client : x # y => own[x] \intersect own[y] = {}
    BY DEF VfsInv, Owned
  <2>5. \A x, y \in Client : x # y => own'[x] \intersect own'[y] = {}
    BY <2>1, <2>2, <2>4
  <2>. QED BY <2>3, <2>5 DEF Owned
<1>12. RamOK(ents') /\ (file \in [Handle -> Block])' /\ \A h \in Handle : HandleOK(file'[h], ents')
  BY <1>1 DEF VfsInv
<1>13. GapKept
  BY <1>1, SameFiles
<1>. QED BY <1>7, <1>10, <1>11, <1>12, <1>13 DEF VfsInv

LEMMA ReadStep ==
  ASSUME VfsInv, NEW c \in Client, NEW d \in Fd, NEW n \in Lens, VfsRead(c, d, n)
  PROVE  VfsInv' /\ GapKept
<1>. DEFINE h == fds[d].file
            data == DataOf(file[h])
            pos == file[h].pos
            got == FileRead(data, pos, n)
<1>1. fds[d].used /\ file' = [file EXCEPT ![h].pos = pos + Len(got)]
      /\ UNCHANGED <<mounts, fds, ents, pend, own>>
  BY DEF VfsRead, Calls
<1>2. /\ h \in Handle /\ file[h].fs # "none" /\ HandleOK(file[h], ents) /\ pos \in Nat
  BY <1>1, HandleOfFd
<1>3. RamOK(ents)
  BY DEF VfsInv
<1>4. /\ \E S : data \in Seq(S)
      /\ Len(data) \in Nat
      /\ file[h].fs = "ram" => Len(data) <= RAMFS_MAX_SIZE
      /\ file[h].fs = "rom" => data = RomFiles[file[h].ent].data
      /\ file[h].fs = "ram" => data = ents[file[h].ent].data
  BY <1>2, <1>3, DataOfHandle DEF DataOf
<1>5. /\ Len(got) \in Nat
      /\ pos + Len(got) <= (IF pos <= Len(data) THEN Len(data) ELSE pos)
  <2>1. PICK S : data \in Seq(S)
    BY <1>4
  <2>2. n \in Nat
    BY VfsAssumption
  <2>. HIDE DEF data, pos
  <2>. QED BY <1>2, <2>1, <2>2, ReadEnds
<1>. HIDE DEF h, data, got
<1>6. HandleOK([file[h] EXCEPT !.pos = pos + Len(got)], ents)
  <2>1. pos + Len(got) \in Nat
    BY <1>2, <1>5
  <2>2. file[h].fs = "ram" => pos + Len(got) <= RAMFS_MAX_SIZE
    BY <1>2, <1>4, <1>5, RamfsAssumption DEF HandleOK
  <2>3. file[h].fs = "rom" => pos + Len(got) <= Len(RomFiles[file[h].ent].data)
    BY <1>2, <1>4, <1>5 DEF HandleOK
  <2>. QED BY <1>2, <2>1, <2>2, <2>3, HandleMoves
<1>7. pos + Len(got) = pos \/ pos + Len(got) <= Len(data)
  BY <1>2, <1>4, <1>5
<1>8. GapKept
  <2>1. pos + Len(got) = file[h].pos
        \/ (file[h].fs = "ram" => pos + Len(got) <= Len(ents[file[h].ent].data))
    BY <1>4, <1>7
  <2>. HIDE DEF pos
  <2>. QED BY <1>1, <1>2, <2>1, MoveKeepsGap
<1>. QED BY <1>1, <1>2, <1>3, <1>6, <1>8, MoveKeeps

LEMMA SeekStep ==
  ASSUME VfsInv, NEW c \in Client, NEW d \in Fd, NEW off \in -1..1, NEW w \in Whence,
         VfsLseek(c, d, off, w)
  PROVE  VfsInv' /\ GapKept
<1>. DEFINE h == fds[d].file
            data == DataOf(file[h])
            np == FileSeek(Len(data), file[h].pos, off, w)
<1>1. fds[d].used
  BY DEF VfsLseek, Calls
<1>2. h \in Handle /\ file[h].fs # "none" /\ HandleOK(file[h], ents) /\ file[h].pos \in Nat
  BY <1>1, HandleOfFd
<1>3. RamOK(ents)
  BY DEF VfsInv
<1>4. /\ Len(data) \in Nat
      /\ file[h].fs = "ram" => Len(data) <= RAMFS_MAX_SIZE
      /\ file[h].fs = "rom" => data = RomFiles[file[h].ent].data
      /\ file[h].fs = "ram" => data = ents[file[h].ent].data
  BY <1>2, <1>3, DataOfHandle DEF DataOf
<1>5. np >= 0 => np \in 0..Len(data)
  <2>1. off \in Int
    OBVIOUS
  <2>. HIDE DEF h, data
  <2>. QED BY <1>2, <1>4, <2>1, SeekStaysInside
<1>6. CASE np < 0
  BY <1>6, IdleStep DEF VfsLseek, Fails
<1>7. CASE ~(np < 0)
  <2>1. file' = [file EXCEPT ![h].pos = np] /\ UNCHANGED <<mounts, fds, ents, pend, own>>
    BY <1>7 DEF VfsLseek
  <2>2. np \in 0..Len(data)
    <3>1. np \in Int
      <4>1. off \in Int
        OBVIOUS
      <4>. HIDE DEF h, data
      <4>. QED BY <1>2, <1>4, <4>1 DEF FileSeek, Whence
    <3>. HIDE DEF np
    <3>. QED BY <1>5, <1>7, <3>1
  <2>. HIDE DEF h, data, np
  <2>3. HandleOK([file[h] EXCEPT !.pos = np], ents)
    <3>1. np \in Nat
      BY <1>4, <2>2
    <3>2. file[h].fs = "ram" => np <= RAMFS_MAX_SIZE
      BY <1>4, <2>2, RamfsAssumption
    <3>3. file[h].fs = "rom" => np <= Len(RomFiles[file[h].ent].data)
      BY <1>4, <2>2
    <3>. QED BY <1>2, <3>1, <3>2, <3>3, HandleMoves
  <2>4. file[h].fs = "ram" => np <= Len(ents[file[h].ent].data)
    BY <1>4, <2>2
  <2>5. GapKept
    BY <1>2, <2>1, <2>4, MoveKeepsGap
  <2>. QED BY <1>2, <1>3, <2>1, <2>3, <2>5, MoveKeeps
<1>. QED BY <1>6, <1>7

LEMMA WriteStep ==
  ASSUME VfsInv, NEW c \in Client, NEW d \in Fd, NEW b \in Seq(Byte), VfsWrite(c, d, b)
  PROVE  VfsInv' /\ GapKept
<1>. DEFINE h == fds[d].file
            i == file[h].ent
            pos == file[h].pos
<1>1. fds[d].used
  BY DEF VfsWrite, Calls
<1>2. h \in Handle /\ file[h].fs = fds[d].fs /\ HandleOK(file[h], ents) /\ pos \in Nat
  BY <1>1, HandleOfFd
<1>3. CASE Fails("write")
  BY <1>3, IdleStep DEF Fails
<1>4. CASE fds[d].fs = "ram" /\ ~Fails("write")
  <2>1. PICK ok \in BOOLEAN :
          LET r == rf_write(ents[i], pos, b, ok)
          IN  ~(r.rc < 0) /\ ents' = [ents EXCEPT ![i] = r.ent]
              /\ file' = [file EXCEPT ![h].pos = @ + r.rc] /\ UNCHANGED <<mounts, fds, pend, own>>
    BY <1>4 DEF VfsWrite, WriteRam
  <2>. DEFINE r == rf_write(ents[i], pos, b, ok)
  <2>2. i \in RamEnt /\ ents[i].used
    BY <1>2, <1>4 DEF HandleOK
  <2>3. EntryOK(ents[i]) /\ ents \in [RamEnt -> Entry]
    BY <2>2 DEF VfsInv, RamOK
  <2>4. /\ EntryOK(r.ent) /\ r.ent.used /\ r.ent.name = ents[i].name
        /\ r.rc = -1 \/ (r.rc = Len(b) /\ pos + Len(b) <= RAMFS_MAX_SIZE)
        /\ r.rc # -1 => r.ent.data = FileWrite(ents[i].data, pos, b)
    <3>. HIDE DEF i, pos
    <3>. QED BY <1>2, <2>2, <2>3, WriteKeepsEntry
  <2>5. ~(r.rc < 0) /\ ents' = [ents EXCEPT ![i] = r.ent]
        /\ file' = [file EXCEPT ![h].pos = pos + r.rc] /\ UNCHANGED <<mounts, fds, pend, own>>
    BY <2>1
  <2>. HIDE DEF r
  <2>6. r.rc = Len(b) /\ pos + r.rc <= RAMFS_MAX_SIZE /\ pos + r.rc \in Nat
    <3>1. Len(b) \in Nat
      BY LenProperties
    <3>. QED BY <1>2, <2>4, <2>5, <3>1
  <2>7. RamOK(ents')
    BY <2>2, <2>3, <2>4, <2>5 DEF VfsInv, RamOK, EntryOK
  <2>8. \A j \in RamEnt : ents[j].used => ents'[j].used
    BY <2>2, <2>3, <2>4, <2>5
  <2>9. HandleOK([file[h] EXCEPT !.pos = pos + r.rc], ents')
    <3>1. HandleOK(file[h], ents')
      BY <1>2, <2>8 DEF HandleOK
    <3>2. file[h].fs # "rom"
      BY <1>2, <1>4
    <3>. QED BY <2>6, <3>1, <3>2, HandleMoves
  <2>10. GapKept
    <3>. DEFINE old == ents[i].data
                new == FileWrite(old, pos, b)
                end == pos + Len(b)
    <3>1. old \in Seq(Bytes) /\ Len(old) \in Nat /\ DOMAIN old = 1..Len(old) /\ Len(b) \in Nat
      BY <2>3, LenProperties DEF EntryOK, Entry
    <3>2. /\ new \in Seq(Bytes) /\ Len(new) = IF end > Len(old) THEN end ELSE Len(old)
          /\ \A n \in 1..Len(new) : /\ n <= pos /\ n <= Len(old) => new[n] = old[n]
                                    /\ pos < n /\ n <= end => new[n] \in Byte
                                    /\ end < n => new[n] = old[n]
      <4>. HIDE DEF old, pos
      <4>. QED BY <1>2, <3>1, WrittenBytes
    <3>3. ents'[i].data = new /\ \A j \in RamEnt : j # i => ents'[j].data = ents[j].data
      BY <2>2, <2>3, <2>4, <2>5, <2>6
    <3>. HIDE DEF new
    <3>4. DOMAIN new = 1..Len(new) /\ Len(new) \in Nat
      BY <3>2, LenProperties
    <3>5. pos > Len(old) => Beyond(i)
      BY <1>2, <1>4 DEF Beyond
    <3>6. pos <= Len(old) => JunkWas(i)
      <4>. SUFFICES ASSUME pos <= Len(old), NEW n \in 1..Len(new), new[n] = Junk
                    PROVE  n \in 1..Len(old) /\ old[n] = Junk
        BY <3>1, <3>3, <3>4 DEF JunkWas
      <4>1. ~(pos < n /\ n <= end)
        BY <3>2, RamfsAssumption
      <4>. HIDE DEF old, pos
      <4>2. CASE n <= pos
        BY <1>2, <3>1, <3>2, <3>4, <4>2
      <4>3. CASE end < n
        BY <1>2, <3>1, <3>2, <3>4, <4>3
      <4>. QED BY <1>2, <3>1, <3>4, <4>1, <4>2, <4>3
    <3>7. \A j \in RamEnt : JunkWas(j) \/ Beyond(j)
      <4>1. \A j \in RamEnt : j # i => JunkWas(j)
        BY <3>3, DataKept
      <4>2. JunkWas(i) \/ Beyond(i)
        BY <1>2, <3>1, <3>5, <3>6
      <4>. QED BY <4>1, <4>2
    <3>8. file \in [Handle -> Block]
      BY DEF VfsInv
    <3>9. /\ \A x \in Handle : x # h => file'[x] = file[x]
          /\ file'[h].ent = i /\ file'[h].pos = end
      BY <1>2, <2>5, <2>6, <3>8 DEF Block
    <3>10. end <= Len(new)
      <4>1. end \in Nat
        BY <1>2, <3>1
      <4>. HIDE DEF old, end
      <4>. QED BY <3>1, <3>2, <4>1
    <3>. QED BY <3>3, <3>7, <3>9, <3>10 DEF GapKept, StaysInside
  <2>. HIDE DEF h, pos
  <2>. QED BY <1>2, <2>5, <2>7, <2>8, <2>9, <2>10, MoveKeeps
<1>. QED BY <1>3, <1>4 DEF VfsWrite

LEMMA CloseStep ==
  ASSUME VfsInv, NEW c \in Client, NEW d \in Fd, VfsClose(c, d)
  PROVE  VfsInv' /\ GapKept
<1>. DEFINE h == fds[d].file
<1>1. /\ fds[d].used /\ d \in own[c]
      /\ file' = [file EXCEPT ![h] = FreeBlock] /\ fds' = [fds EXCEPT ![d] = FreeFd]
      /\ own' = [own EXCEPT ![c] = @ \ {d}] /\ UNCHANGED <<mounts, ents, pend>>
  BY DEF VfsClose, Calls
<1>2. /\ fds \in [Fd -> FdRec] /\ own \in [Client -> SUBSET Fd]
      /\ file \in [Handle -> Block] /\ \A x \in Handle : HandleOK(file[x], ents)
  BY DEF VfsInv, TablesTyped
<1>3. h \in Handle
  BY <1>1, HandleOfFd
<1>4. FreeFd \in FdRec /\ ~FreeFd.used
  BY DEF FreeFd, FdRec
<1>5. FreeBlock \in Block /\ FreeBlock.fs = "none" /\ HandleOK(FreeBlock, ents)
  BY DEF FreeBlock, Block, HandleOK
<1>. HIDE DEF h
<1>6. /\ \A x \in Handle : file'[x] = IF x = h THEN FreeBlock ELSE file[x]
      /\ \A x \in Fd : fds'[x] = IF x = d THEN FreeFd ELSE fds[x]
      /\ \A e \in Client : own'[e] = IF e = c THEN own[e] \ {d} ELSE own[e]
  BY <1>1, <1>2, <1>3
<1>7. TablesTyped'
  <2>1. fds' \in [Fd -> FdRec] /\ own' \in [Client -> SUBSET Fd]
    BY <1>1, <1>2, <1>4
  <2>. QED BY <1>1, <2>1 DEF VfsInv, TablesTyped
<1>8. (file \in [Handle -> Block])' /\ \A x \in Handle : HandleOK(file'[x], ents')
  BY <1>1, <1>2, <1>3, <1>5, <1>6
<1>9. Held(FsOf(file), fds, pend)'
  <2>1. \A x \in Handle : FsOf(file')[x] = IF x = h THEN "none" ELSE FsOf(file)[x]
    BY <1>5, <1>6 DEF FsOf
  <2>2. \A x \in Fd : fds[x].used /\ x # d => fds[x].file # h
    BY <1>1 DEF VfsInv, Held, h
  <2>3. \A e \in Client : pend[e] # NoPend => pend[e].file # h
    BY <1>1 DEF VfsInv, Held, h
  <2>4. \A e \in Client : pend[e] # NoPend => pend[e].file \in Handle /\ pend[e].fd \in Fd
    BY DEF VfsInv, TablesTyped, Opening
  <2>5. ASSUME NEW x \in Fd, fds'[x].used
        PROVE  x # d /\ fds'[x] = fds[x] /\ fds[x].used /\ fds[x].file # h
    BY <1>4, <1>6, <2>2, <2>5
  <2>6. \A x \in Fd : fds'[x].used => /\ fds'[x].file \in Handle /\ fds'[x].fs \in Fs
                                      /\ FsOf(file')[fds'[x].file] = fds'[x].fs
    BY <2>1, <2>5 DEF VfsInv, Held
  <2>7. \A x, y \in Fd : fds'[x].used /\ fds'[y].used /\ fds'[x].file = fds'[y].file => x = y
    BY <2>5 DEF VfsInv, Held
  <2>8. ASSUME NEW e \in Client, pend[e] # NoPend
        PROVE  /\ ~fds'[pend[e].fd].used /\ FsOf(file')[pend[e].file] = pend[e].fs
               /\ \A x \in Fd : fds'[x].used => fds'[x].file # pend[e].file
               /\ \A y \in Client : pend[y] # NoPend => y = e
    <3>1. /\ ~fds[pend[e].fd].used /\ FsOf(file)[pend[e].file] = pend[e].fs
          /\ \A x \in Fd : fds[x].used => fds[x].file # pend[e].file
          /\ \A y \in Client : pend[y] # NoPend => y = e
      BY <2>8 DEF VfsInv, Held
    <3>. QED BY <2>1, <2>3, <2>4, <2>5, <2>8, <3>1
  <2>9. ASSUME NEW x \in Handle, FsOf(file')[x] # "none"
        PROVE  \/ \E y \in Fd : fds'[y].used /\ fds'[y].file = x
               \/ \E e \in Client : pend[e] # NoPend /\ pend[e].file = x
    <3>1. x # h /\ FsOf(file)[x] # "none"
      BY <2>1, <2>9
    <3>2. CASE \E y \in Fd : fds[y].used /\ fds[y].file = x
      <4>1. PICK y \in Fd : fds[y].used /\ fds[y].file = x
        BY <3>2
      <4>2. y # d
        BY <3>1, <4>1 DEF h
      <4>3. fds'[y] = fds[y]
        BY <1>6, <4>2
      <4>. QED BY <4>1, <4>3
    <3>. QED BY <3>1, <3>2 DEF VfsInv, Held
  <2>10. pend' = pend
    BY <1>1
  <2>. QED BY <2>6, <2>7, <2>8, <2>9, <2>10 DEF Held
<1>10. Owned'
  <2>1. \A e \in Client : e # c => d \notin own[e]
    BY <1>1 DEF VfsInv, Owned
  <2>2. ASSUME NEW x \in Fd PROVE fds'[x].used <=> \E e \in Client : x \in own'[e]
    <3>1. CASE x = d
      BY <1>4, <1>6, <2>1, <3>1
    <3>2. CASE x # d
      <4>1. fds'[x] = fds[x] /\ \A e \in Client : x \in own'[e] <=> x \in own[e]
        BY <1>6, <3>2
      <4>. QED BY <4>1 DEF VfsInv, Owned
    <3>. QED BY <3>1, <3>2
  <2>3. \A x, y \in Client : x # y => own'[x] \intersect own'[y] = {}
    BY <1>6 DEF VfsInv, Owned
  <2>. QED BY <2>2, <2>3 DEF Owned
<1>11. RamOK(ents')
  BY <1>1 DEF VfsInv
<1>12. GapKept
  BY <1>1, <1>5, <1>6 DEF GapKept, JunkWas, StaysInside
<1>. QED BY <1>7, <1>8, <1>9, <1>10, <1>11, <1>12 DEF VfsInv

LEMMA MountsStep ==
  ASSUME VfsInv, \A i \in Slot : MountOK(mounts'[i]), mounts' = [i \in Slot |-> mounts'[i]],
         UNCHANGED <<fds, file, pend, own>>, RamOK(ents'),
         \A h \in Handle : HandleOK(file[h], ents')
  PROVE  VfsInv'
BY DEF VfsInv, TablesTyped, Owned

LEMMA UmountStep ==
  ASSUME VfsInv, NEW c \in Client, NEW path, VfsUmount(c, path) PROVE VfsInv' /\ GapKept
<1>. DEFINE at == {i \in Slot : mounts[i].used /\ mounts[i].path = path}
<1>1. CASE Fails("umount")
  BY <1>1, IdleStep DEF Fails
<1>2. CASE ~Fails("umount")
  <2>1. /\ mounts' = [i \in Slot |-> IF i \in at THEN NoMount ELSE mounts[i]]
        /\ UNCHANGED <<fds, ents, file, pend, own>>
    BY <1>2 DEF VfsUmount
  <2>2. MountOK(NoMount)
    BY DEF MountOK, NoMount
  <2>3. \A i \in Slot : MountOK(mounts'[i])
    BY <2>1, <2>2 DEF VfsInv, TablesTyped
  <2>4. RamOK(ents') /\ \A h \in Handle : HandleOK(file[h], ents')
    BY <2>1 DEF VfsInv
  <2>5. GapKept
    BY <2>1, SameFiles
  <2>. QED BY <2>1, <2>3, <2>4, <2>5, MountsStep
<1>. QED BY <1>1, <1>2

LEMMA RamfsMountStep ==
  ASSUME VfsInv, NEW c \in Client, RamfsMount(c, RamMount) PROVE VfsInv' /\ GapKept
<1>1. /\ ents' = [i \in RamEnt |-> FreeEnt] /\ mounts' = vfs_mount(RamMount, "ram")
      /\ \A h \in Handle : file[h].fs # "ram"
      /\ UNCHANGED <<fds, file, pend, own>>
  BY DEF RamfsMount
<1>2. (\A i \in Slot : MountOK(mounts'[i])) /\ mounts' = [i \in Slot |-> mounts'[i]]
  <2>. DEFINE free == {i \in Slot : ~mounts[i].used /\ \A j \in Slot : ~mounts[j].used => i <= j}
              new == [used |-> TRUE, path |-> RamMount, fs |-> "ram"]
  <2>1. \/ mounts' = mounts
        \/ mounts' = [i \in Slot |-> IF i \in free THEN new ELSE mounts[i]]
    BY <1>1 DEF vfs_mount
  <2>2. MountOK(new)
    BY DEF MountOK, Fs
  <2>3. (\A i \in Slot : MountOK(mounts[i])) /\ mounts = [i \in Slot |-> mounts[i]]
    BY DEF VfsInv, TablesTyped
  <2>. HIDE DEF free, new
  <2>. QED BY <2>1, <2>2, <2>3
<1>3. RamOK(ents')
  <2>1. FreeEnt \in Entry /\ ~FreeEnt.used
    BY FreeEntryOK DEF EntryOK, FreeEnt
  <2>2. ents' \in [RamEnt -> Entry] /\ \A i \in RamEnt : ents'[i] = FreeEnt
    BY <1>1, <2>1
  <2>. QED BY <2>1, <2>2, FreeEntryOK DEF RamOK
<1>4. \A h \in Handle : HandleOK(file[h], ents')
  BY <1>1 DEF VfsInv, HandleOK
<1>5. GapKept
  <2>1. \A i \in RamEnt : ents'[i].data = <<>>
    BY <1>1 DEF FreeEnt
  <2>. QED BY <1>1, <2>1, DataKept DEF GapKept, StaysInside
<1>. QED BY <1>1, <1>2, <1>3, <1>4, <1>5, MountsStep

LEMMA NextVfsInv == VfsUse /\ VfsInv /\ [Next]_vars => VfsInv' /\ GapKept
<1>. SUFFICES ASSUME VfsUse, VfsInv, [Next]_vars PROVE VfsInv' /\ GapKept
  OBVIOUS
<1>1. CASE UNCHANGED vars
  BY <1>1, IdleStep DEF vars
<1>2. CASE Next
  <2>. SUFFICES ASSUME NEW c \in Client,
         \/ \E path \in Path, flags \in Flags : VfsOpen(c, path, flags)
         \/ VfsOpenMark(c)
         \/ \E d \in Fd, n \in Lens : VfsRead(c, d, n)
         \/ \E d \in Fd, n \in Lens, b \in Byte : VfsWrite(c, d, [i \in 1..n |-> b])
         \/ \E d \in Fd, off \in -1..1, w \in Whence : VfsLseek(c, d, off, w)
         \/ \E d \in Fd : VfsClose(c, d)
         \/ \E path \in Path \union {RomMount, RamMount} : VfsStat(c, path)
         \/ \E path \in {RomMount, RamMount}, idx \in 0..RAMFS_MAX_FILES : VfsListdir(c, path, idx)
         \/ \E path \in {RamMount} : VfsUmount(c, path) \/ RamfsMount(c, path)
       PROVE  VfsInv' /\ GapKept
    BY <1>2 DEF Next
  <2>1. CASE \E path \in Path, flags \in Flags : VfsOpen(c, path, flags)
    BY <2>1, OpenStep
  <2>2. CASE VfsOpenMark(c)
    BY <2>2, MarkStep
  <2>3. CASE \E d \in Fd, n \in Lens : VfsRead(c, d, n)
    BY <2>3, ReadStep
  <2>4. CASE \E d \in Fd, n \in Lens, b \in Byte : VfsWrite(c, d, [i \in 1..n |-> b])
    <3>1. PICK d \in Fd, n \in Lens, b \in Byte : VfsWrite(c, d, [i \in 1..n |-> b])
      BY <2>4
    <3>2. n \in Nat
      BY VfsAssumption
    <3>. DEFINE s == [i \in 1..n |-> b]
    <3>3. s \in [1..n -> Byte]
      OBVIOUS
    <3>. HIDE DEF s
    <3>4. s \in Seq(Byte)
      BY <3>2, <3>3, SeqDef
    <3>. QED BY <3>1, <3>4, WriteStep DEF s
  <2>5. CASE \E d \in Fd, off \in -1..1, w \in Whence : VfsLseek(c, d, off, w)
    BY <2>5, SeekStep
  <2>6. CASE \E d \in Fd : VfsClose(c, d)
    BY <2>6, CloseStep
  <2>7. CASE \E path \in Path \union {RomMount, RamMount} : VfsStat(c, path)
    <3>1. UNCHANGED state
      BY <2>7 DEF VfsStat, Fails
    <3>. QED BY <3>1, IdleStep
  <2>8. CASE \E path \in {RomMount, RamMount}, idx \in 0..RAMFS_MAX_FILES : VfsListdir(c, path, idx)
    <3>1. UNCHANGED state
      BY <2>8 DEF VfsListdir, Fails
    <3>. QED BY <3>1, IdleStep
  <2>9. CASE \E path \in {RamMount} : VfsUmount(c, path) \/ RamfsMount(c, path)
    BY <2>9, UmountStep, RamfsMountStep
  <2>. QED BY <2>1, <2>2, <2>3, <2>4, <2>5, <2>6, <2>7, <2>8, <2>9
<1>. QED BY <1>1, <1>2

-----------------------------------------------------------------------------
(* What the invariant says of the tables, handle by handle, is what        *)
(* HandlesExact counts.                                                    *)
LEMMA InvHandlesExact == VfsInv => HandlesExact
<1>. SUFFICES ASSUME VfsInv PROVE HandlesExact
  OBVIOUS
<1>. DEFINE live == {h \in Handle : file[h].fs /= "none"}
            used == {d \in Fd : fds[d].used}
            opening == {c \in Client : pend[c] /= NoPend}
            ofUsed == {fds[d].file : d \in used}
            ofOpening == {pend[c].file : c \in opening}
<1>1. \A h \in Handle : FsOf(file)[h] = file[h].fs
  BY DEF FsOf
<1>2. \A d \in used : /\ fds[d].file \in Handle /\ fds[d].fs \in Fs
                      /\ file[fds[d].file].fs = fds[d].fs
  BY <1>1 DEF VfsInv, Held
<1>3. \A c \in opening : /\ pend[c].file \in Handle /\ pend[c].fs \in Fs
                         /\ file[pend[c].file].fs = pend[c].fs
  <2>1. \A c \in opening : pend[c] \in Opening
    BY DEF VfsInv, TablesTyped
  <2>. QED BY <1>1, <2>1 DEF VfsInv, Held, Opening
<1>4. live = ofUsed \union ofOpening
  <2>1. live \subseteq ofUsed \union ofOpening
    BY <1>1 DEF VfsInv, Held
  <2>2. ofUsed \subseteq live
    BY <1>2 DEF Fs
  <2>3. ofOpening \subseteq live
    BY <1>3 DEF Fs
  <2>. QED BY <2>1, <2>2, <2>3
<1>5. ofUsed \intersect ofOpening = {}
  BY DEF VfsInv, Held
<1>6. IsFiniteSet(used)
  <2>1. IsFiniteSet(Fd)
    BY FS_Interval, VfsAssumption DEF Fd
  <2>. QED BY <2>1, FS_Subset
<1>7. IsFiniteSet(opening)
  <2>1. \A c, e \in opening : c = e
    BY DEF VfsInv, Held
  <2>2. opening = {} \/ \E c : opening = {c}
    BY <2>1
  <2>. HIDE DEF opening
  <2>. QED BY <2>2, FS_EmptySet, FS_Singleton
<1>8. IsFiniteSet(ofUsed) /\ Cardinality(ofUsed) = Cardinality(used)
  <2>. DEFINE f == [d \in used |-> fds[d].file]
  <2>1. f \in Bijection(used, ofUsed)
    <3>1. f \in Injection(used, ofUsed)
      BY DEF Injection, IsInjective, VfsInv, Held
    <3>2. f \in Surjection(used, ofUsed)
      BY DEF Surjection
    <3>. QED BY <3>1, <3>2 DEF Bijection
  <2>2. ExistsBijection(used, ofUsed)
    BY <2>1 DEF ExistsBijection
  <2>. HIDE DEF used, ofUsed
  <2>. QED BY <1>6, <2>2, FS_Bijection
<1>9. IsFiniteSet(ofOpening) /\ Cardinality(ofOpening) = Cardinality(opening)
  <2>. DEFINE f == [c \in opening |-> pend[c].file]
  <2>1. f \in Bijection(opening, ofOpening)
    <3>1. f \in Injection(opening, ofOpening)
      BY DEF Injection, IsInjective, VfsInv, Held
    <3>2. f \in Surjection(opening, ofOpening)
      BY DEF Surjection
    <3>. QED BY <3>1, <3>2 DEF Bijection
  <2>2. ExistsBijection(opening, ofOpening)
    BY <2>1 DEF ExistsBijection
  <2>. HIDE DEF opening, ofOpening
  <2>. QED BY <1>7, <2>2, FS_Bijection
<1>10. Cardinality(live) = Cardinality(used) + Cardinality(opening)
  <2>1. Cardinality(ofUsed \union ofOpening)
          = Cardinality(ofUsed) + Cardinality(ofOpening) - Cardinality(ofUsed \intersect ofOpening)
    <3>. HIDE DEF ofUsed, ofOpening
    <3>. QED BY <1>8, <1>9, FS_Union
  <2>2. Cardinality(ofUsed \intersect ofOpening) = 0
    <3>1. Cardinality({}) = 0
      BY FS_EmptySet
    <3>. QED BY <1>5, <3>1
  <2>3. Cardinality(ofUsed) \in Nat /\ Cardinality(ofOpening) \in Nat
    <3>. HIDE DEF ofUsed, ofOpening
    <3>. QED BY <1>8, <1>9, FS_CardinalityType
  <2>. HIDE DEF live, used, opening, ofUsed, ofOpening
  <2>. QED BY <1>4, <1>8, <1>9, <2>1, <2>2, <2>3
<1>11. \A d \in used : fds[d].fs = file[fds[d].file].fs
  BY <1>2
<1>12. used = UNION {own[c] : c \in Client}
  <2>1. \A c \in Client : own[c] \subseteq Fd
    BY DEF VfsInv, TablesTyped
  <2>2. \A d \in Fd : fds[d].used <=> \E c \in Client : d \in own[c]
    BY DEF VfsInv, Owned
  <2>. QED BY <2>1, <2>2
<1>13. \A c, e \in Client : c /= e => own[c] \intersect own[e] = {}
  BY DEF VfsInv, Owned
<1>. QED BY <1>4, <1>10, <1>11, <1>12, <1>13 DEF HandlesExact

LEMMA InvTypeOK == VfsInv => TypeOK
<1>. SUFFICES ASSUME VfsInv PROVE TypeOK
  OBVIOUS
<1>1. mounts \in [Slot -> [used : BOOLEAN, path : {RomMount, RamMount, <<>>}, fs : Fs \union {"none"}]]
  BY DEF VfsInv, TablesTyped, MountOK
<1>2. \A i \in RamEnt : /\ ents[i].cap \in 0..RAMFS_MAX_SIZE
                        /\ Len(ents[i].data) <= ents[i].cap
                        /\ ents[i].data \in Seq(Byte \union {Junk})
                        /\ ~ents[i].used => ents[i] = FreeEnt
  BY DEF VfsInv, RamOK, EntryOK, Entry, Bytes
<1>3. \A h \in Handle :
        /\ file[h].fs = "ram" => file[h].ent \in RamEnt /\ file[h].pos <= RAMFS_MAX_SIZE
        /\ file[h].fs = "rom" => /\ file[h].ent \in DOMAIN RomFiles
                                 /\ file[h].pos <= Len(RomFiles[file[h].ent].data)
  BY DEF VfsInv, HandleOK
<1>4. /\ fds \in [Fd -> [used : BOOLEAN, fs : Fs \union {"none"}, file : Handle \union {NoHandle}]]
      /\ file \in [Handle -> Block] /\ \A c \in Client : own[c] \subseteq Fd
  BY DEF VfsInv, TablesTyped, FdRec
<1>. QED BY <1>1, <1>2, <1>3, <1>4 DEF TypeOK

(* Through every open, write, close, mount and failure, the descriptors,   *)
(* the handles of open files and the entries of ramfs.c agree: nothing     *)
(* leaks, nothing is shared, no name is in the table twice (vfs.c, ramfs.c).*)
THEOREM VfsTablesExact ==
  ASSUME VfsUse
  PROVE  Spec => []TablesExact
<1>1. VfsInv => TablesExact
  <2>1. VfsInv => EntriesDistinct
    BY DEF VfsInv, RamOK, HandleOK, EntriesDistinct
  <2>. QED BY <2>1, InvHandlesExact, InvTypeOK DEF TablesExact
<1>. QED BY <1>1, InitVfsInv, NextVfsInv, PTL DEF Spec

-----------------------------------------------------------------------------
(* Fewer bytes that nobody wrote, where each of them was there.            *)
LEMMA FewerJunk ==
  ASSUME RamOK(ents), NEW i \in RamEnt, JunkWas(i)
  PROVE  ~(JunkIn(i)' > JunkIn(i))
<1>. DEFINE old == {n \in DOMAIN ents[i].data : ents[i].data[n] = Junk}
            new == {n \in DOMAIN ents'[i].data : ents'[i].data[n] = Junk}
<1>1. IsFiniteSet(old)
  <2>1. ents[i].data \in Seq(Bytes)
    BY DEF RamOK, EntryOK, Entry
  <2>2. DOMAIN ents[i].data = 1..Len(ents[i].data) /\ Len(ents[i].data) \in Nat
    BY <2>1, LenProperties
  <2>3. IsFiniteSet(1..Len(ents[i].data))
    BY <2>2, FS_Interval
  <2>. QED BY <2>2, <2>3, FS_Subset
<1>2. new \subseteq old
  BY DEF JunkWas
<1>3. JunkIn(i) = Cardinality(old) /\ JunkIn(i)' = Cardinality(new)
  BY DEF JunkIn
<1>. HIDE DEF old, new
<1>4. /\ IsFiniteSet(new) /\ Cardinality(new) <= Cardinality(old)
      /\ Cardinality(old) \in Nat /\ Cardinality(new) \in Nat
  BY <1>1, <1>2, FS_Subset, FS_CardinalityType
<1>. QED BY <1>3, <1>4

LEMMA KeptNoNewGap ==
  ASSUME VfsInv, VfsInv', GapKept PROVE NoNewGap
<1>1. ASSUME NEW i \in RamEnt PROVE JunkIn(i)' > JunkIn(i) => Beyond(i)
  BY FewerJunk DEF GapKept, VfsInv
<1>2. ASSUME NEW i \in RamEnt, Beyond(i)', ~Beyond(i)
      PROVE  Len(ents'[i].data) < Len(ents[i].data)
  <2>1. PICK h \in Handle : file'[h].fs = "ram" /\ file'[h].ent = i
                            /\ file'[h].pos > Len(ents'[i].data)
    BY <1>2 DEF Beyond
  <2>2. file'[h] \in Block /\ file[h] \in Block
    BY DEF VfsInv
  <2>3. Len(ents'[i].data) \in Nat /\ Len(ents[i].data) \in Nat
    BY LenProperties DEF VfsInv, RamOK, EntryOK, Entry
  <2>4. file'[h] = file[h]
    BY <2>1, <2>2, <2>3 DEF GapKept, StaysInside, Block
  <2>5. ~(file[h].pos > Len(ents[i].data))
    BY <1>2, <2>1, <2>4 DEF Beyond
  <2>. QED BY <2>1, <2>2, <2>3, <2>4, <2>5 DEF Block
<1>. QED BY <1>1, <1>2 DEF NoNewGap

(* A byte that no caller wrote gets into a file only behind a handle that  *)
(* an O_TRUNC of another opener left standing past the end: no open, read, *)
(* write or seek takes a handle there (rf_open, rf_read, rf_write,         *)
(* rf_lseek).                                                              *)
THEOREM VfsOnlyTruncationLeavesGap ==
  ASSUME VfsUse
  PROVE  Spec => OnlyTruncationLeavesGap
<1>1. VfsUse /\ VfsInv /\ VfsInv' /\ [Next]_vars => [NoNewGap]_vars
  BY NextVfsInv, KeptNoNewGap
<1>. QED BY <1>1, InitVfsInv, NextVfsInv, PTL DEF Spec, OnlyTruncationLeavesGap

-----------------------------------------------------------------------------
(* Paths. *)

(* What follows a mount point in a path.                                   *)
LEMMA PathTail ==
  ASSUME NEW m \in Seq(STRING), NEW x \in Seq(STRING)
  PROVE  /\ m \o x \in Seq(STRING) /\ Len(m \o x) = Len(m) + Len(x) /\ Len(m) \in Nat /\ Len(x) \in Nat
         /\ SubSeq(m \o x, Len(m) + 1, Len(m \o x)) = x
         /\ IsPrefix(m, m \o x)
<1>1. /\ m \o x \in Seq(STRING) /\ Len(m \o x) = Len(m) + Len(x) /\ Len(m) \in Nat /\ Len(x) \in Nat
  BY ConcatProperties, LenProperties
<1>2. SubSeq(m \o x, Len(m) + 1, Len(m \o x)) = x
  <2>1. CASE Len(x) = 0
    <3>1. x = <<>>
      BY <2>1, EmptySeq
    <3>2. SubSeq(m \o x, Len(m) + 1, Len(m \o x)) = <<>>
      <4>1. Len(m) + 1 \in Int /\ Len(m \o x) \in Int /\ Len(m \o x) < Len(m) + 1
        BY <1>1, <2>1
      <4>. QED BY <4>1, SubSeqEmpty
    <3>. QED BY <3>1, <3>2
  <2>2. CASE Len(x) # 0
    <3>1. Len(m) + 1 \in (Len(m) + 1)..(Len(m) + Len(x)) /\ Len(m) + Len(x) \in (Len(m) + 1)..(Len(m) + Len(x))
      BY <1>1, <2>2
    <3>2. SubSeq(m \o x, Len(m) + 1, Len(m) + Len(x))
            = SubSeq(x, Len(m) + 1 - Len(m), Len(m) + Len(x) - Len(m))
      BY <3>1, SubSeqOfConcat2
    <3>3. Len(m) + 1 - Len(m) = 1 /\ Len(m) + Len(x) - Len(m) = Len(x)
      BY <1>1
    <3>. QED BY <1>1, <3>2, <3>3, SubSeqFull
  <2>. QED BY <2>1, <2>2
<1>3. IsPrefix(m, m \o x)
  <2>1. CASE Len(m) = 0
    <3>1. SubSeq(m, 1, 0) = <<>> /\ SubSeq(m \o x, 1, 0) = <<>>
      BY SubSeqEmpty
    <3>. QED BY <1>1, <2>1, <3>1 DEF IsPrefix
  <2>2. CASE Len(m) # 0
    <3>1. 1 \in 1..Len(m) /\ Len(m) \in 1..Len(m)
      BY <1>1, <2>2
    <3>2. SubSeq(m \o x, 1, Len(m)) = SubSeq(m, 1, Len(m))
      BY <3>1, SubSeqOfConcat1
    <3>. QED BY <1>1, <3>2 DEF IsPrefix
  <2>. QED BY <2>1, <2>2
<1>. QED BY <1>1, <1>2, <1>3

(* A mount point is followed by one thing in a path.                       *)
LEMMA SameTail ==
  ASSUME NEW m \in Seq(STRING), NEW x \in Seq(STRING), NEW y \in Seq(STRING), m \o x = m \o y PROVE x = y
<1>1. SubSeq(m \o x, Len(m) + 1, Len(m \o x)) = x
  BY PathTail
<1>2. SubSeq(m \o y, Len(m) + 1, Len(m \o y)) = y
  BY PathTail
<1>. QED BY <1>1, <1>2

(* And a path is the mount point and what follows.                         *)
LEMMA PathParts ==
  ASSUME NEW m \in Seq(STRING), NEW p \in Seq(STRING), IsPrefix(m, p)
  PROVE  /\ SubSeq(p, Len(m) + 1, Len(p)) \in Seq(STRING)
         /\ m \o SubSeq(p, Len(m) + 1, Len(p)) = p
<1>1. Len(m) \in Nat /\ Len(p) \in Nat /\ Len(m) <= Len(p) /\ SubSeq(m, 1, Len(m)) = SubSeq(p, 1, Len(m))
  BY LenProperties DEF IsPrefix
<1>2. SubSeq(p, 1, Len(m)) = m
  BY <1>1, SubSeqFull
<1>3. SubSeq(p, 1, Len(m)) \o SubSeq(p, Len(m) + 1, Len(p)) = SubSeq(p, 1, Len(p))
  <2>1. 1 \in 1..Len(p) + 1 /\ Len(m) \in 1 - 1..Len(p) /\ Len(p) \in Len(m)..Len(p)
    BY <1>1
  <2>. QED BY <2>1, ConcatAdjacentSubSeq
<1>4. SubSeq(p, Len(m) + 1, Len(p)) \in Seq(STRING)
  <2>1. \A i \in (Len(m) + 1)..Len(p) : p[i] \in STRING
    <3>1. \A i \in 1..Len(p) : p[i] \in STRING
      BY ElementOfSeq
    <3>. QED BY <1>1, <3>1
  <2>2. Len(m) + 1 \in Int /\ Len(p) \in Int
    BY <1>1
  <2>. QED BY <2>1, <2>2, SubSeqProperties
<1>. QED BY <1>2, <1>3, <1>4, SubSeqFull

(* Two prefixes of one path that are as long as each other are the same.   *)
LEMMA SamePrefix ==
  ASSUME NEW m \in Seq(STRING), NEW k \in Seq(STRING), NEW p, IsPrefix(m, p), IsPrefix(k, p), Len(m) = Len(k)
  PROVE  m = k
<1>1. SubSeq(m, 1, Len(m)) = SubSeq(k, 1, Len(k))
  BY DEF IsPrefix
<1>. QED BY <1>1, SubSeqFull

-----------------------------------------------------------------------------
(* What FileStore says of bytes is what the drivers do.                    *)

(* A read copies the bytes there are at the position.                      *)
LEMMA ReadIs ==
  ASSUME NEW S, NEW data \in Seq(S), NEW pos \in Nat, NEW n \in Nat
  PROVE  Store!BytesAt(data, pos, n) = FileRead(data, pos, n)
<1>. DEFINE end == IF pos + n < Len(data) THEN pos + n ELSE Len(data)
            k == IF pos + 1 <= end THEN end - pos ELSE 0
            got == FileRead(data, pos, n)
<1>1. Len(data) \in Nat /\ DOMAIN data = 1..Len(data) /\ \A i \in 1..Len(data) : data[i] \in S
  BY LenProperties, ElementOfSeq
<1>2. end \in Int /\ end <= Len(data) /\ end <= pos + n /\ k \in Nat
  BY <1>1
<1>3. \A i \in (pos + 1)..end : data[i] \in S
  BY <1>1, <1>2
<1>4. got = SubSeq(data, pos + 1, end)
  BY DEF FileRead
<1>5. {j \in 1..n : pos + j <= Len(data)} = 1..k
  BY <1>1, <1>2
<1>. HIDE DEF end, k
<1>6. /\ SubSeq(data, pos + 1, end) \in Seq(S)
      /\ Len(SubSeq(data, pos + 1, end)) = IF pos + 1 <= end THEN end - (pos + 1) + 1 ELSE 0
      /\ \A i \in 1..(end - (pos + 1) + 1) : SubSeq(data, pos + 1, end)[i] = data[(pos + 1) + i - 1]
  BY <1>2, <1>3, SubSeqProperties
<1>. HIDE DEF got
<1>7. got \in Seq(S) /\ Len(got) = k
  BY <1>2, <1>4, <1>6 DEF k
<1>8. DOMAIN got = 1..k /\ got = [i \in 1..k |-> got[i]]
  BY <1>7, LenProperties
<1>9. ASSUME NEW i \in 1..k PROVE got[i] = data[pos + i]
  <2>1. i \in 1..(end - (pos + 1) + 1) /\ (pos + 1) + i - 1 = pos + i
    BY <1>2 DEF k
  <2>. QED BY <1>4, <1>6, <2>1
<1>10. Store!BytesAt(data, pos, n) = [i \in 1..k |-> data[pos + i]]
  BY <1>5 DEF Store!BytesAt
<1>11. [i \in 1..k |-> got[i]] = [i \in 1..k |-> data[pos + i]]
  BY ONLY <1>9
<1>. QED BY ONLY <1>8, <1>10, <1>11 DEF got

(* A write lays bytes over those that were there.                          *)
LEMMA WriteIs ==
  ASSUME NEW data \in Seq(Bytes), NEW pos \in Nat, NEW b \in Seq(Byte)
  PROVE  Store!Overlaid(data, pos, b) = FileWrite(data, pos, b)
<1>. DEFINE end == pos + Len(b)
            L == IF end > Len(data) THEN end ELSE Len(data)
            d == FileWrite(data, pos, b)
<1>1. Len(data) \in Nat /\ Len(b) \in Nat
  BY LenProperties
<1>2. /\ d \in Seq(Bytes) /\ Len(d) = L
      /\ \A i \in 1..Len(d) : /\ i <= pos => d[i] = IF i <= Len(data) THEN data[i] ELSE Junk
                              /\ pos < i /\ i <= end => d[i] = b[i - pos]
                              /\ end < i => d[i] = data[i]
  BY WrittenBytes
<1>. HIDE DEF d
<1>3. d = [i \in 1..L |-> d[i]]
  BY <1>2, LenProperties
<1>4. Store!Overlaid(data, pos, b)
        = [i \in 1..L |-> IF i \in (pos + 1)..end THEN b[i - pos] ELSE IF i <= Len(data) THEN data[i] ELSE Junk]
  BY DEF Store!Overlaid
<1>5. ASSUME NEW i \in 1..L
      PROVE  d[i] = IF i \in (pos + 1)..end THEN b[i - pos] ELSE IF i <= Len(data) THEN data[i] ELSE Junk
  <2>1. CASE i <= pos
    BY <1>1, <1>2, <2>1
  <2>2. CASE pos < i /\ i <= end
    BY <1>1, <1>2, <2>2
  <2>3. CASE end < i
    BY <1>1, <1>2, <2>3
  <2>. QED BY <1>1, <2>1, <2>2, <2>3
<1>6. [i \in 1..L |-> d[i]]
        = [i \in 1..L |-> IF i \in (pos + 1)..end THEN b[i - pos] ELSE IF i <= Len(data) THEN data[i] ELSE Junk]
  <2>. HIDE DEF L, end
  <2>. QED BY ONLY <1>5
<1>. QED BY ONLY <1>3, <1>4, <1>6 DEF d

-----------------------------------------------------------------------------
(* The refinement.  There is one client, as on the boards; their two       *)
(* mounts have a slot each; and the files of the table that is built in    *)
(* have names, by which they are not found below the ram file system.      *)
StoreUse ==
  /\ \A c, e \in Client : c = e
  /\ VFS_MAX_MOUNTS # 1
  /\ \A i \in DOMAIN RomFiles :
       /\ RomFiles[i].name # <<>>
       /\ Len(RomMount) < Len(RamMount) => ~IsPrefix(RamMount, RomMount \o RomFiles[i].name)

RomSlot == [used |-> TRUE, path |-> RomMount, fs |-> "rom"]
RamSlot == [used |-> TRUE, path |-> RamMount, fs |-> "ram"]
Mounted == \A i \in Slot : IF i = 1 THEN mounts[i] = RomSlot ELSE mounts[i] \in {NoMount, RamSlot}

(* A ram file has a name that callers gave, and none of the rom's.         *)
Named(e) ==
  \A i \in RamEnt : e[i].used =>
    /\ e[i].name # <<>>
    /\ RamMount \o e[i].name \in Path /\ RomFile(RamMount \o e[i].name) = {}

(* An open rom file is the first of its name.                              *)
FirstOfName(f) ==
  f.fs = "rom" => f.ent = CHOOSE i \in RomFile(RomMount \o RomFiles[f.ent].name) : TRUE

(* An open that is not over yet stands at the start or the end.            *)
AtAnEnd == \A c \in Client : pend[c] # NoPend =>
             file[pend[c].file].pos \in {0, Len(DataOf(file[pend[c].file]))}

StoreInv ==
  VfsInv /\ Mounted /\ Named(ents) /\ (\A h \in Handle : FirstOfName(file[h])) /\ AtAnEnd

(* What is there under a path: a ram file, or a rom file.                  *)
LEMMA EntryAt ==
  ASSUME NEW e, RamOK(e), Named(e), NEW i \in RamEnt, e[i].used, NEW p, p = RamMount \o e[i].name
  PROVE  /\ p \in Path /\ p \in Files /\ p \notin DOMAIN FixedFiles
         /\ RamFile(e, p) = {i} /\ e[i].name # <<>> /\ e[i].name \in Seq(STRING)
         /\ Contents(e, p) = [there |-> TRUE, data |-> e[i].data]
<1>1. p \in Path /\ RomFile(p) = {} /\ e[i].name # <<>>
  BY DEF Named
<1>2. p \notin DOMAIN FixedFiles
  BY <1>1 DEF FixedFiles, RomFile
<1>3. \A j \in RamEnt : e[j].name \in Seq(STRING)
  BY DEF RamOK, Entry
<1>4. RamFile(e, p) = {i}
  <2>1. i \in RamFile(e, p)
    BY DEF RamFile
  <2>2. ASSUME NEW j \in RamFile(e, p) PROVE j = i
    <3>1. j \in RamEnt /\ e[j].used /\ RamMount \o e[j].name = RamMount \o e[i].name
      BY DEF RamFile
    <3>2. e[j].name = e[i].name
      BY <1>3, <3>1, SameTail, VfsAssumption
    <3>. QED BY <3>1, <3>2 DEF RamOK
  <2>. QED BY <2>1, <2>2
<1>5. Contents(e, p) = [there |-> TRUE, data |-> e[i].data]
  BY <1>1, <1>4 DEF Contents
<1>. QED BY <1>1, <1>2, <1>3, <1>4, <1>5 DEF Files

(* The same of a rom file.                                                 *)
LEMMA RomAt ==
  ASSUME NEW e, NEW i \in DOMAIN RomFiles, NEW p, p = RomMount \o RomFiles[i].name
  PROVE  /\ p \in DOMAIN FixedFiles /\ p \in Files /\ i \in RomFile(p)
         /\ Contents(e, p) = [there |-> TRUE, data |-> RomFiles[CHOOSE j \in RomFile(p) : TRUE].data]
<1>1. i \in RomFile(p)
  BY DEF RomFile
<1>2. p \in DOMAIN FixedFiles /\ FixedFiles[p] = RomFiles[CHOOSE j \in RomFile(p) : TRUE].data
  BY DEF FixedFiles
<1>. QED BY <1>1, <1>2 DEF Contents, Files

(* The table e becomes g in entry i, which becomes n.                      *)
Changes(e, g, i, n) ==
  /\ RamOK(e) /\ RamOK(g) /\ Named(g)
  /\ i \in RamEnt /\ g = [e EXCEPT ![i] = n]
  /\ n.used /\ (e[i].used => e[i].name = n.name)

(* What is there changes with it, under the name of that entry.            *)
LEMMA EntryChanges ==
  ASSUME NEW e, NEW g, NEW i, NEW n, Changes(e, g, i, n), NEW p \in Files
  PROVE  Contents(g, p) = IF p = RamMount \o n.name THEN [there |-> TRUE, data |-> n.data]
                          ELSE Contents(e, p)
<1>0. /\ RamOK(e) /\ RamOK(g) /\ Named(g)
      /\ i \in RamEnt /\ g = [e EXCEPT ![i] = n]
      /\ n.used /\ (e[i].used => e[i].name = n.name)
  BY DEF Changes
<1>1. g[i] = n /\ \A j \in RamEnt : j # i => g[j] = e[j]
  BY <1>0 DEF RamOK
<1>2. CASE p = RamMount \o n.name
  <2>1. /\ RamOK(g) /\ Named(g) /\ i \in RamEnt
        /\ g[i].used /\ p = RamMount \o g[i].name /\ g[i].data = n.data
    BY <1>0, <1>1, <1>2
  <2>2. Contents(g, p) = [there |-> TRUE, data |-> g[i].data]
    BY ONLY <2>1, EntryAt
  <2>. QED BY <1>2, <2>1, <2>2
<1>3. CASE p # RamMount \o n.name
  <2>1. RamFile(g, p) = RamFile(e, p) /\ i \notin RamFile(e, p)
    BY <1>0, <1>1, <1>3 DEF RamFile
  <2>2. RamFile(e, p) # {} => g[CHOOSE j \in RamFile(e, p) : TRUE] = e[CHOOSE j \in RamFile(e, p) : TRUE]
    <3>1. RamFile(e, p) \subseteq RamEnt
      BY DEF RamFile
    <3>. QED BY <1>0, <1>1, <2>1, <3>1
  <2>. QED BY <1>3, <2>1, <2>2 DEF Contents
<1>. QED BY <1>2, <1>3

(* An open file is where its descriptor says.                              *)
LEMMA HandleAt ==
  ASSUME StoreInv, NEW h \in Handle, NEW f, f = file[h], f.fs # "none", NEW p, p = FullPath(ents, f)
  PROVE  /\ p \in Files /\ Contents(ents, p) = [there |-> TRUE, data |-> DataOf(f)]
         /\ (p \in DOMAIN FixedFiles <=> f.fs = "rom")
<1>1. RamOK(ents) /\ Named(ents) /\ HandleOK(f, ents) /\ FirstOfName(f)
  BY DEF StoreInv, VfsInv
<1>2. CASE f.fs = "ram"
  <2>1. f.ent \in RamEnt /\ ents[f.ent].used /\ p = RamMount \o ents[f.ent].name /\ DataOf(f) = ents[f.ent].data
    BY <1>1, <1>2 DEF HandleOK, FullPath, DataOf
  <2>2. PICK i \in RamEnt : i = f.ent
    BY <2>1
  <2>3. ents[i].used /\ p = RamMount \o ents[i].name
    BY <2>1, <2>2
  <2>4. p \in Files /\ p \notin DOMAIN FixedFiles /\ Contents(ents, p) = [there |-> TRUE, data |-> ents[i].data]
    BY <1>1, <2>3, EntryAt
  <2>. QED BY <1>2, <2>1, <2>2, <2>4
<1>3. CASE f.fs = "rom"
  <2>1. /\ f.ent \in DOMAIN RomFiles /\ p = RomMount \o RomFiles[f.ent].name /\ DataOf(f) = RomFiles[f.ent].data
        /\ f.ent = CHOOSE i \in RomFile(p) : TRUE
    BY <1>1, <1>3 DEF HandleOK, FullPath, DataOf, FirstOfName
  <2>. QED BY <1>3, <2>1, RomAt
<1>. QED BY <1>1, <1>2, <1>3 DEF HandleOK, Block, Fs

(* What a used descriptor is for, and what is there.                       *)
LEMMA OpenedAt ==
  ASSUME StoreInv, NEW d \in Fd, fds[d].used, NEW f, f = file[fds[d].file]
  PROVE  /\ DescNow[d] = [open |-> TRUE, path |-> FullPath(ents, f), pos |-> f.pos]
         /\ FullPath(ents, f) \in Files
         /\ StoreNow[FullPath(ents, f)] = [there |-> TRUE, data |-> DataOf(f)]
         /\ (FullPath(ents, f) \in DOMAIN FixedFiles <=> f.fs = "rom")
         /\ f.fs = fds[d].fs /\ f.fs \in Fs /\ fds[d].file \in Handle /\ HandleOK(f, ents) /\ f.pos \in Nat
<1>1. /\ fds[d].file \in Handle /\ f.fs = fds[d].fs /\ f.fs # "none" /\ HandleOK(f, ents) /\ f.pos \in Nat
  BY HandleOfFd DEF StoreInv
<1>2. DescNow[d] = [open |-> TRUE, path |-> FullPath(ents, f), pos |-> f.pos]
  BY DEF DescNow, Opened
<1>3. /\ FullPath(ents, f) \in Files /\ Contents(ents, FullPath(ents, f)) = [there |-> TRUE, data |-> DataOf(f)]
      /\ (FullPath(ents, f) \in DOMAIN FixedFiles <=> f.fs = "rom")
  BY <1>1, HandleAt
<1>4. StoreNow[FullPath(ents, f)] = [there |-> TRUE, data |-> DataOf(f)]
  BY <1>3 DEF StoreNow
<1>5. f.fs \in Fs
  BY <1>1 DEF HandleOK, Block
<1>. QED BY <1>1, <1>2, <1>3, <1>4, <1>5

(* What a path comes to.                                                   *)
LEMMA FoundAt ==
  ASSUME StoreInv, StoreUse, NEW path \in Seq(STRING), NEW i \in find_mount(path), NEW rel, rel = RelOf(path, i)
  PROVE  /\ i \in Slot /\ rel \in Seq(STRING) /\ mounts[i].path \o rel = path
         /\ mounts[i] \in {RomSlot, RamSlot}
         /\ mounts[i].fs = "ram" => RomFile(path) = {}
<1>1. i \in Slot /\ mounts[i].used /\ IsPrefix(mounts[i].path, path)
      /\ \A j \in Slot : mounts[j].used /\ IsPrefix(mounts[j].path, path) => Len(mounts[j].path) <= Len(mounts[i].path)
  BY DEF find_mount, path_eq_prefix
<1>2. mounts[i] \in {RomSlot, RamSlot} /\ mounts[i].path \in Seq(STRING)
  BY <1>1, VfsAssumption DEF StoreInv, Mounted, RomSlot, RamSlot, NoMount
<1>3. rel \in Seq(STRING) /\ mounts[i].path \o rel = path
  BY <1>1, <1>2, PathParts DEF RelOf
<1>4. ASSUME mounts[i].fs = "ram", NEW r \in RomFile(path) PROVE FALSE
  <2>1. r \in DOMAIN RomFiles /\ RomMount \o RomFiles[r].name = path /\ RomFiles[r].name \in Seq(STRING)
    BY <1>4, VfsAssumption DEF RomFile
  <2>2. IsPrefix(RomMount, path)
    BY <2>1, PathTail, VfsAssumption
  <2>3. 1 \in Slot /\ mounts[1] = RomSlot
    BY VfsAssumption DEF Slot, StoreInv, Mounted
  <2>4. Len(RomMount) <= Len(RamMount) /\ IsPrefix(RamMount, path)
    BY <1>1, <1>2, <1>4, <2>2, <2>3 DEF RomSlot, RamSlot
  <2>5. Len(RomMount) # Len(RamMount)
    BY <2>2, <2>4, SamePrefix, VfsAssumption
  <2>6. Len(RomMount) \in Nat /\ Len(RamMount) \in Nat
    BY VfsAssumption, LenProperties
  <2>7. Len(RomMount) < Len(RamMount)
    BY <2>4, <2>5, <2>6
  <2>. QED BY <2>1, <2>4, <2>7 DEF StoreUse
<1>. QED BY <1>1, <1>2, <1>3, <1>4

(* Names of ram files and of rom files, and what is found by them.         *)
LEMMA RamFound ==
  ASSUME NEW e, RamOK(e), NEW rel \in Seq(STRING), rel # <<>>
  PROVE  ram_find_ent(e, rel) = RamFile(e, RamMount \o rel)
<1>1. ASSUME NEW j \in RamEnt, RamMount \o e[j].name = RamMount \o rel PROVE e[j].name = rel
  <2>1. e[j].name \in Seq(STRING)
    BY DEF RamOK, Entry
  <2>. QED BY <1>1, <2>1, SameTail, VfsAssumption
<1>. QED BY <1>1 DEF ram_find_ent, RamFile

(* The same of the table that is built in.                                 *)
LEMMA RomFound ==
  ASSUME NEW rel \in Seq(STRING), rel # <<>>
  PROVE  rom_find_ent(RomFiles, rel) = RomFile(RomMount \o rel)
<1>1. ASSUME NEW j \in DOMAIN RomFiles, RomMount \o RomFiles[j].name = RomMount \o rel PROVE RomFiles[j].name = rel
  BY <1>1, SameTail, VfsAssumption
<1>. QED BY <1>1 DEF rom_find_ent, RomFile

(* The descriptors, when the files they are for keep names and places.     *)
LEMMA SameDesc ==
  ASSUME UNCHANGED fds,
         \A d \in Fd : fds[d].used =>
            /\ FullPath(ents', file'[fds[d].file]) = FullPath(ents, file[fds[d].file])
            /\ file'[fds[d].file].pos = file[fds[d].file].pos
  PROVE  DescNow' = DescNow
<1>1. \A d \in Fd : Opened(fds[d])' = Opened(fds[d])
  BY DEF Opened
<1>. QED BY <1>1 DEF DescNow

(* At boot: the files that are built in, and nothing open.                 *)
LEMMA StoreStart == ASSUME Init, StoreUse PROVE StoreInv /\ Store!Init
<1>1. VfsInv
  BY InitVfsInv
<1>2. Mounted
  BY DEF Init, Mounted, RomSlot, RamSlot
<1>3. \A i \in RamEnt : ~ents[i].used
  BY DEF Init, FreeEnt
<1>4. Named(ents)
  BY <1>3 DEF Named
<1>5. (\A h \in Handle : FirstOfName(file[h])) /\ AtAnEnd
  BY DEF Init, FreeBlock, FirstOfName, AtAnEnd
<1>6. ASSUME NEW p \in Files PROVE Contents(ents, p) = IF p \in DOMAIN FixedFiles THEN [there |-> TRUE, data |-> FixedFiles[p]]
                                                      ELSE [there |-> FALSE, data |-> <<>>]
  <2>1. RamFile(ents, p) = {}
    BY <1>3 DEF RamFile
  <2>2. p \in DOMAIN FixedFiles <=> RomFile(p) # {}
    BY DEF FixedFiles, RomFile
  <2>. QED BY <2>1, <2>2 DEF Contents
<1>7. StoreNow = [p \in Files |-> IF p \in DOMAIN FixedFiles THEN [there |-> TRUE, data |-> FixedFiles[p]]
                                 ELSE [there |-> FALSE, data |-> <<>>]]
  BY <1>6 DEF StoreNow
<1>8. DescNow = [d \in Fd |-> [open |-> FALSE, path |-> <<>>, pos |-> 0]]
  BY DEF Init, DescNow, Opened, FreeFd
<1>9. ret = [op |-> "init", rc |-> 0, data |-> <<>>]
  BY DEF Init
<1>10. Store!Init
  BY <1>7, <1>8, <1>9 DEF Store!Init, Store!Gone, Store!Closed
<1>. QED BY <1>1, <1>2, <1>4, <1>5, <1>10 DEF StoreInv

(* Calls that change no file and no descriptor.                            *)
LEMMA SameStore == ASSUME UNCHANGED state PROVE StoreNow' = StoreNow /\ DescNow' = DescNow
<1>1. ents' = ents /\ file' = file /\ fds' = fds
  BY DEF state
<1>2. StoreNow' = StoreNow
  BY <1>1 DEF StoreNow
<1>. QED BY <1>1, <1>2, SameDesc

(* A call that failed.                                                     *)
LEMMA Refused ==
  ASSUME UNCHANGED <<StoreNow, DescNow>>, NEW op \in {"open", "write", "lseek", "stat", "list", "mount", "umount"},
         ret' = [op |-> op, rc |-> -1, data |-> <<>>]
  PROVE  Store!Next
<1>1. Store!Fails(op)
  BY DEF Store!Fails, Store!Returns
<1>2. Store!Refuse
  BY <1>1 DEF Store!Refuse
<1>. QED BY <1>2 DEF Store!Next

(* What StoreInv adds to VfsInv.                                           *)
StoreRest == Mounted /\ Named(ents) /\ (\A h \in Handle : FirstOfName(file[h])) /\ AtAnEnd

(* And they keep the rest of the invariant.                                *)
LEMMA SameRest == ASSUME StoreInv, UNCHANGED state PROVE StoreRest'
BY DEF StoreInv, StoreRest, Mounted, Named, AtAnEnd, DataOf, state

(* The one client is not inside vfs_open.                                  *)
LEMMA NotOpening == ASSUME StoreUse, NEW c \in Client, pend[c] = NoPend, UNCHANGED pend PROVE AtAnEnd'
<1>1. \A e \in Client : pend'[e] = NoPend
  BY DEF StoreUse
<1>. QED BY <1>1 DEF AtAnEnd

(* A call that fails before it does anything.                              *)
LEMMA FailedCall ==
  ASSUME StoreInv, NEW op \in {"open", "write", "lseek", "stat", "list", "mount", "umount"}, Fails(op)
  PROVE  StoreRest' /\ Store!Next
<1>1. UNCHANGED state /\ ret' = [op |-> op, rc |-> -1, data |-> <<>>]
  BY DEF Fails, Returns
<1>2. UNCHANGED <<StoreNow, DescNow>>
  BY <1>1, SameStore
<1>. QED BY <1>1, <1>2, SameRest, Refused

(* vfs_open: an entry was made, or emptied, or left as it is.              *)
OpensEntry(e, name, r) ==
  \/ r.rc = -1 /\ r.ents = e
  \/ \E i \in RamEnt, n \in Entry :
       /\ r.ents = [e EXCEPT ![i] = n] /\ n.used /\ n.name = name /\ name # <<>>
       /\ IF e[i].used THEN e[i].name = name /\ n.data \in {e[i].data, <<>>} ELSE n.data = <<>>
       /\ r.rc \in {0, -1}
       /\ r.file.ent = i /\ r.file.pos \in {0, Len(n.data)}

(* That is what rf_open does.                                              *)
LEMMA OpenedEntry ==
  ASSUME NEW e, RamOK(e), NEW name \in Seq(STRING), NEW flags, NEW ok \in BOOLEAN
  PROVE  OpensEntry(e, name, rf_open(e, name, flags, ok))
<1>0. PICK r : r = rf_open(e, name, flags, ok)
  OBVIOUS
<1>. SUFFICES \/ r.rc = -1 /\ r.ents = e
              \/ \E i \in RamEnt, n \in Entry :
                   /\ r.ents = [e EXCEPT ![i] = n] /\ n.used /\ n.name = name /\ name # <<>>
                   /\ IF e[i].used THEN e[i].name = name /\ n.data \in {e[i].data, <<>>} ELSE n.data = <<>>
                   /\ r.rc \in {0, -1}
                   /\ r.file.ent = i /\ r.file.pos \in {0, Len(n.data)}
  BY <1>0 DEF OpensEntry
<1>. DEFINE found == ram_find_ent(e, name)
            fresh == IF "CREAT" \in flags /\ name /= <<>> THEN alloc_ent(e) ELSE {}
            i == CHOOSE x \in (IF found /= {} THEN found ELSE fresh) : TRUE
            old == IF found /= {} THEN e[i] ELSE NewEnt(name)
            n == rf_opened(old, flags)
<1>1. CASE found = {} /\ fresh = {}
  BY <1>0, <1>1 DEF rf_open
<1>2. CASE ~(found = {} /\ fresh = {})
  <2>1. r = [rc |-> IF ok THEN 0 ELSE -1, ents |-> [e EXCEPT ![i] = n],
             file |-> [ent |-> i, pos |-> rf_pos(n, flags)]]
    BY <1>0, <1>2 DEF rf_open
  <2>2. /\ i \in RamEnt /\ name # <<>>
        /\ IF found # {} THEN e[i].used /\ e[i].name = name ELSE ~e[i].used
    <3>1. CASE found # {}
      <4>1. i \in found
        BY <3>1
      <4>. QED BY <3>1, <4>1 DEF ram_find_ent
    <3>2. CASE found = {}
      <4>1. i \in fresh
        BY <1>2, <3>2
      <4>2. i \in alloc_ent(e) /\ name # <<>>
        BY <4>1
      <4>. QED BY <3>2, <4>2 DEF alloc_ent
    <3>. QED BY <3>1, <3>2
  <2>. HIDE DEF found, fresh, i
  <2>3. EntryOK(old) /\ old.used /\ old.name = name /\ (found = {} => old.data = <<>>) /\ (found # {} => old = e[i])
    <3>1. EntryOK(NewEnt(name)) /\ NewEnt(name).used /\ NewEnt(name).name = name /\ NewEnt(name).data = <<>>
      BY FreeEntryOK DEF NewEnt, EntryOK, Entry, FreeEnt
    <3>. QED BY <2>2, <3>1 DEF RamOK
  <2>. HIDE DEF old
  <2>4. EntryOK(n) /\ n.used /\ n.name = name /\ n.data \in {old.data, <<>>}
    BY <2>3, TruncatedOK DEF rf_opened
  <2>5. n \in Entry
    BY <2>4 DEF EntryOK
  <2>. HIDE DEF n
  <2>6. rf_pos(n, flags) \in {0, Len(n.data)}
    BY DEF rf_pos
  <2>7. IF e[i].used THEN e[i].name = name /\ n.data \in {e[i].data, <<>>} ELSE n.data = <<>>
    BY <2>2, <2>3, <2>4
  <2>8. /\ r.ents = [e EXCEPT ![i] = n] /\ r.rc \in {0, -1} /\ r.file.ent = i /\ r.file.pos = rf_pos(n, flags)
    BY <2>1
  <2>. QED BY <2>2, <2>4, <2>5, <2>6, <2>7, <2>8
<1>. QED BY <1>1, <1>2

(* An entry that changes as an open changes it is a file that is touched.  *)
LEMMA OpenTouches ==
  ASSUME RamOK(ents), RamOK(ents'), Named(ents'), NEW i \in RamEnt, NEW n, ents' = [ents EXCEPT ![i] = n], n.used,
         IF ents[i].used THEN ents[i].name = n.name /\ n.data \in {ents[i].data, <<>>} ELSE n.data = <<>>,
         Named(ents), UNCHANGED DescNow,
         UNCHANGED ret \/ Store!Fails("open")
  PROVE  Store!Next
<1>. DEFINE p == RamMount \o n.name
<1>1. ents'[i] = n
  BY DEF RamOK
<1>2. p \in Files /\ p \notin DOMAIN FixedFiles
  <2>1. ents'[i].used /\ p = RamMount \o ents'[i].name
    BY <1>1
  <2>2. RamOK(ents') /\ Named(ents') /\ i \in RamEnt
    OBVIOUS
  <2>. QED BY ONLY <2>1, <2>2, EntryAt
<1>3. \A q \in Files : Contents(ents', q) = IF q = p THEN [there |-> TRUE, data |-> n.data] ELSE Contents(ents, q)
  <2>1. Changes(ents, ents', i, n)
    BY DEF Changes
  <2>. QED BY ONLY <2>1, EntryChanges
<1>. HIDE DEF p
<1>4. StoreNow' = [StoreNow EXCEPT ![p] = [there |-> TRUE, data |-> n.data]]
  <2>1. StoreNow' = [q \in Files |-> Contents(ents', q)] /\ StoreNow = [q \in Files |-> Contents(ents, q)]
    BY DEF StoreNow
  <2>. QED BY <1>2, <1>3, <2>1
<1>5. CASE n.data = <<>>
  <2>1. Store!Touch(p)
    BY <1>2, <1>4, <1>5 DEF Store!Touch
  <2>. QED BY <1>2, <2>1 DEF Store!Next
<1>6. CASE n.data # <<>>
  <2>1. ents[i].used /\ ents[i].name = n.name /\ n.data = ents[i].data
    BY <1>6
  <2>2. RamOK(ents) /\ Named(ents) /\ i \in RamEnt /\ p = RamMount \o ents[i].name
    BY <2>1 DEF p
  <2>3. Contents(ents, p) = [there |-> TRUE, data |-> ents[i].data]
    BY ONLY <2>1, <2>2, EntryAt
  <2>4. StoreNow[p] = [there |-> TRUE, data |-> n.data]
    BY <1>2, <2>1, <2>3 DEF StoreNow
  <2>5. n.data = StoreNow[p].data
    BY <2>4
  <2>6. Store!Touch(p)
    BY <1>2, <1>4, <2>5 DEF Store!Touch
  <2>. QED BY <1>2, <2>6 DEF Store!Next
<1>. QED BY <1>5, <1>6

(* An open handle's path stays, as the names of used entries do.           *)
LEMMA PathStays ==
  ASSUME NEW f, HandleOK(f, ents), NEW e, \A j \in RamEnt : ents[j].used => e[j].name = ents[j].name
  PROVE  FullPath(e, f) = FullPath(ents, f)
BY DEF HandleOK, FullPath

(* vfs_open up to the mark: no file changes, or one is touched.            *)
LEMMA OpenStores ==
  ASSUME StoreUse, StoreInv, NEW c \in Client, NEW path \in Path, NEW flags \in Flags, VfsOpen(c, path, flags)
  PROVE  StoreRest' /\ (Store!Next \/ UNCHANGED <<StoreNow, DescNow, ret>>)
<1>1. CASE Fails("open")
  BY <1>1, FailedCall
<1>2. CASE \E i \in find_mount(path), d \in alloc_fd : OpenOn(c, i, d, path, flags)
  <2>1. PICK i \in find_mount(path), d \in alloc_fd : OpenOn(c, i, d, path, flags)
    BY <1>2
  <2>. DEFINE rel == RelOf(path, i)
  <2>2. /\ i \in Slot /\ rel \in Seq(STRING) /\ mounts[i].path \o rel = path
        /\ mounts[i] \in {RomSlot, RamSlot} /\ mounts[i].fs \in Fs
        /\ mounts[i].fs = "ram" => RomFile(path) = {} /\ mounts[i].path = RamMount
        /\ mounts[i].fs = "rom" => mounts[i].path = RomMount
    <3>1. path \in Seq(STRING)
      BY VfsAssumption
    <3>2. /\ i \in Slot /\ rel \in Seq(STRING) /\ mounts[i].path \o rel = path
          /\ mounts[i] \in {RomSlot, RamSlot} /\ (mounts[i].fs = "ram" => RomFile(path) = {})
      BY <3>1, FoundAt
    <3>. HIDE DEF rel
    <3>. QED BY <3>2 DEF RomSlot, RamSlot, Fs
  <2>3. PICK ok \in BOOLEAN :
          LET fs == mounts[i].fs
              r == fs_open(fs, rel, flags, ok)
              h == CHOOSE x \in Handle : file[x].fs = "none"
          IN  /\ ok => \E x \in Handle : file[x].fs = "none"
              /\ ents' = r.ents
              /\ IF r.rc = 0
                 THEN /\ file' = [file EXCEPT ![h] = [fs |-> fs, ent |-> r.file.ent, pos |-> r.file.pos]]
                      /\ pend' = [pend EXCEPT ![c] = [fd |-> d, fs |-> fs, file |-> h]]
                      /\ UNCHANGED ret
                 ELSE UNCHANGED <<file, pend>> /\ Returns("open", -1, <<>>)
              /\ UNCHANGED <<mounts, fds, own>>
    BY <2>1 DEF OpenOn
  <2>. DEFINE fs == mounts[i].fs
              r == fs_open(fs, rel, flags, ok)
              h == CHOOSE x \in Handle : file[x].fs = "none"
              f == [fs |-> fs, ent |-> r.file.ent, pos |-> r.file.pos]
  <2>4. /\ RamOK(ents) /\ Named(ents) /\ Mounted /\ file \in [Handle -> Block]
        /\ \A x \in Handle : HandleOK(file[x], ents) /\ FirstOfName(file[x])
        /\ DOMAIN ents = RamEnt
        /\ pend \in [Client -> Opening \union {NoPend}]
    BY DEF StoreInv, VfsInv, TablesTyped, RamOK
  <2>5. RamOK(r.ents) /\ (r.rc = 0 => ok /\ HandleOK(f, r.ents))
    <3>. HIDE DEF rel, fs
    <3>1. fs \in Fs
      BY <2>2 DEF fs
    <3>. QED BY <2>2, <2>4, <3>1, FsOpenKeepsTable
  <2>6. fs = "ram" =>
          \/ r.rc = -1 /\ r.ents = ents
          \/ \E j \in RamEnt, n \in Entry :
               /\ r.ents = [ents EXCEPT ![j] = n] /\ n.used /\ n.name = rel /\ rel # <<>>
               /\ IF ents[j].used THEN ents[j].name = rel /\ n.data \in {ents[j].data, <<>>} ELSE n.data = <<>>
               /\ r.rc \in {0, -1}
               /\ r.file.ent = j /\ r.file.pos \in {0, Len(n.data)}
    <3>1. fs = "ram" => r = rf_open(ents, rel, flags, ok)
      BY DEF fs_open
    <3>. HIDE DEF rel, fs, r
    <3>2. OpensEntry(ents, rel, rf_open(ents, rel, flags, ok))
      BY <2>2, <2>4, OpenedEntry
    <3>3. ASSUME fs = "ram"
          PROVE  \/ r.rc = -1 /\ r.ents = ents
                 \/ \E j \in RamEnt, n \in Entry :
                      /\ r.ents = [ents EXCEPT ![j] = n] /\ n.used /\ n.name = rel /\ rel # <<>>
                      /\ IF ents[j].used THEN ents[j].name = rel /\ n.data \in {ents[j].data, <<>>} ELSE n.data = <<>>
                      /\ r.rc \in {0, -1}
                      /\ r.file.ent = j /\ r.file.pos \in {0, Len(n.data)}
      <4>1. r = rf_open(ents, rel, flags, ok)
        BY <3>1, <3>3
      <4>. QED BY ONLY <4>1, <3>2 DEF OpensEntry
    <3>. QED BY <3>3
  <2>7. fs = "rom" => /\ r.ents = ents
                      /\ r.rc = 0 => rel # <<>> /\ r.file.ent = (CHOOSE x \in RomFile(path) : TRUE) /\ r.file.pos = 0
                                     /\ RomFile(path) # {}
    <3>. HIDE DEF rel, r, fs
    <3>. DEFINE o == rom_open(RomFiles, rel, ok)
                found == rom_find_ent(RomFiles, rel)
    <3>1. fs = "rom" => r = [rc |-> o.rc, ents |-> ents, file |-> o.file]
      BY DEF fs_open, r
    <3>2. o = IF found = {} \/ ~ok
              THEN [rc |-> -1, file |-> [ent |-> 0, pos |-> 0]]
              ELSE [rc |-> 0, file |-> [ent |-> CHOOSE x \in found : TRUE, pos |-> 0]]
      BY DEF rom_open
    <3>3. rel = <<>> => found = {}
      BY DEF rom_find_ent
    <3>4. fs = "rom" /\ rel # <<>> => found = RomFile(path)
      <4>1. fs = "rom" => RomMount \o rel = path
        BY <2>2 DEF fs
      <4>. QED BY <2>2, <4>1, RomFound
    <3>. HIDE DEF o, found
    <3>. QED BY <3>1, <3>2, <3>3, <3>4
  <2>. HIDE DEF rel, r, h
  <2>8. /\ ents' = r.ents /\ UNCHANGED <<mounts, fds, own>>
        /\ IF r.rc = 0 THEN /\ file' = [file EXCEPT ![h] = f]
                            /\ pend' = [pend EXCEPT ![c] = [fd |-> d, fs |-> fs, file |-> h]] /\ UNCHANGED ret
           ELSE UNCHANGED <<file, pend>> /\ Returns("open", -1, <<>>)
    BY <2>3 DEF r, h
  <2>9. pend[c] = NoPend
    BY DEF VfsOpen
  <2>10. r.rc = 0 => h \in Handle /\ file[h].fs = "none"
    <3>1. r.rc = 0 => \E x \in Handle : file[x].fs = "none"
      BY <2>3, <2>5 DEF r
    <3>. QED BY <3>1 DEF h
  <2>11. Mounted'
    BY <2>4, <2>8 DEF Mounted
  <2>. HIDE DEF f
  <2>12. \A j \in RamEnt : ents[j].used => ents'[j].name = ents[j].name
    <3>1. CASE ents' = ents
      BY <3>1
    <3>2. CASE ents' # ents
      <4>1. PICK j \in RamEnt, n \in Entry :
               r.ents = [ents EXCEPT ![j] = n] /\ n.name = rel /\ (ents[j].used => ents[j].name = rel)
        BY <2>2, <2>6, <2>7, <2>8, <3>2 DEF Fs
      <4>. QED BY <2>4, <2>8, <4>1 DEF RamOK
    <3>. QED BY <3>1, <3>2
  <2>13. Named(ents')
    <3>1. CASE ents' = ents
      BY <2>4, <3>1
    <3>2. CASE ents' # ents
      <4>1. fs = "ram"
        BY <2>2, <2>7, <2>8, <3>2 DEF Fs
      <4>2. PICK j \in RamEnt, n \in Entry : r.ents = [ents EXCEPT ![j] = n] /\ n.name = rel /\ rel # <<>>
        BY <2>6, <2>8, <3>2, <4>1
      <4>3. ents'[j].name = rel /\ \A k \in RamEnt : k # j => ents'[k] = ents[k]
        BY <2>4, <2>8, <4>2 DEF RamOK
      <4>4. RamMount \o rel = path /\ RomFile(path) = {}
        BY <2>2, <4>1
      <4>. QED BY <2>4, <4>2, <4>3, <4>4 DEF Named
    <3>. QED BY <3>1, <3>2
  <2>14. \A x \in Handle : FirstOfName(file'[x])
    <3>1. CASE r.rc # 0
      BY <2>4, <2>8, <3>1
    <3>2. CASE r.rc = 0
      <4>1. \A x \in Handle : file'[x] = IF x = h THEN f ELSE file[x]
        BY <2>4, <2>8, <2>10, <3>2
      <4>2. FirstOfName(f)
        <5>1. f.fs = fs /\ f.ent = r.file.ent
          BY DEF f
        <5>2. CASE fs = "ram"
          BY <5>1, <5>2 DEF FirstOfName
        <5>3. CASE fs = "rom"
          <6>1. f.ent \in RomFile(path) /\ f.ent = CHOOSE x \in RomFile(path) : TRUE
            BY <2>7, <3>2, <5>1, <5>3
          <6>2. RomMount \o RomFiles[f.ent].name = path
            BY <6>1 DEF RomFile
          <6>. QED BY <6>1, <6>2 DEF FirstOfName
        <5>. QED BY <2>2, <5>2, <5>3 DEF Fs
      <4>. QED BY <2>4, <4>1, <4>2
    <3>. QED BY <3>1, <3>2
  <2>15. AtAnEnd'
    <3>1. CASE r.rc # 0
      BY <2>8, <2>9, <3>1, NotOpening
    <3>2. CASE r.rc = 0
      <4>1. \A e \in Client : e = c
        BY DEF StoreUse
      <4>2. pend'[c].file = h /\ file'[h] = f
        BY <2>4, <2>8, <2>10, <3>2
      <4>3. f.pos = r.file.pos /\ f.fs = fs /\ f.ent = r.file.ent
        BY DEF f
      <4>4. f.pos \in {0, Len(IF f.fs = "ram" THEN ents'[f.ent].data ELSE RomFiles[f.ent].data)}
        <5>1. CASE fs = "rom"
          BY <2>7, <3>2, <4>3, <5>1
        <5>2. CASE fs = "ram"
          <6>0. r.rc # -1
            BY <3>2
          <6>1. PICK j \in RamEnt, n \in Entry : r.ents = [ents EXCEPT ![j] = n] /\ r.file.ent = j /\ r.file.pos \in {0, Len(n.data)}
            BY ONLY <2>6, <5>2, <6>0
          <6>2. j \in RamEnt
            OBVIOUS
          <6>3. ents'[j] = n
            BY ONLY <2>4, <2>8, <6>1, <6>2
          <6>. QED BY <4>3, <5>2, <6>1, <6>3
        <5>. QED BY <2>2, <5>1, <5>2 DEF Fs
      <4>. QED BY <4>1, <4>2, <4>4 DEF AtAnEnd, DataOf
    <3>. QED BY <3>1, <3>2
  <2>16. DescNow' = DescNow
    <3>. SUFFICES ASSUME NEW k \in Fd, fds[k].used
                  PROVE  /\ FullPath(ents', file'[fds[k].file]) = FullPath(ents, file[fds[k].file])
                         /\ file'[fds[k].file].pos = file[fds[k].file].pos
      BY <2>8, SameDesc
    <3>1. fds[k].file \in Handle /\ file[fds[k].file].fs # "none" /\ HandleOK(file[fds[k].file], ents)
      BY HandleOfFd DEF StoreInv
    <3>2. file'[fds[k].file] = file[fds[k].file]
      BY <2>4, <2>8, <2>10, <3>1
    <3>. QED BY <2>12, <3>1, <3>2, PathStays
  <2>17. Store!Next \/ UNCHANGED <<StoreNow, DescNow, ret>>
    <3>1. UNCHANGED ret \/ Store!Fails("open")
      BY <2>8 DEF Returns, Store!Fails, Store!Returns
    <3>2. CASE ents' = ents
      <4>1. StoreNow' = StoreNow
        BY <3>2 DEF StoreNow
      <4>2. CASE UNCHANGED ret
        BY <2>16, <4>1, <4>2
      <4>3. CASE Store!Fails("open")
        BY <2>16, <4>1, <4>3, Refused DEF Store!Fails, Store!Returns
      <4>. QED BY <3>1, <4>2, <4>3
    <3>3. CASE ents' # ents
      <4>1. fs = "ram"
        BY <2>2, <2>7, <2>8, <3>3 DEF Fs
      <4>2. PICK j \in RamEnt, n \in Entry :
              /\ r.ents = [ents EXCEPT ![j] = n] /\ n.used /\ n.name = rel
              /\ IF ents[j].used THEN ents[j].name = rel /\ n.data \in {ents[j].data, <<>>} ELSE n.data = <<>>
        BY <2>6, <2>8, <3>3, <4>1
      <4>3. RamOK(ents')
        BY <2>5, <2>8
      <4>. QED BY <2>4, <2>8, <2>13, <2>16, <3>1, <4>2, <4>3, OpenTouches
    <3>. QED BY <3>2, <3>3
  <2>. QED BY <2>11, <2>13, <2>14, <2>15, <2>17 DEF StoreRest
<1>. QED BY <1>1, <1>2 DEF VfsOpen

(* What a call leaves of the rest of the invariant when it is not an open. *)
LEMMA CallRest ==
  ASSUME StoreUse, StoreInv, NEW c \in Client, pend[c] = NoPend, UNCHANGED <<mounts, pend>>,
         Named(ents'), \A x \in Handle : FirstOfName(file'[x])
  PROVE  StoreRest'
<1>1. AtAnEnd'
  BY NotOpening
<1>. QED BY <1>1 DEF StoreRest, StoreInv, Mounted

(* A handle that moves is a descriptor that moves.                         *)
LEMMA MovedDesc ==
  ASSUME StoreInv, NEW d \in Fd, fds[d].used, NEW h, h = fds[d].file, NEW np,
         file' = [file EXCEPT ![h].pos = np], UNCHANGED fds,
         \A j \in RamEnt : ents[j].used => ents'[j].name = ents[j].name
  PROVE  /\ Store!Moves(d, np)
         /\ \A x \in Handle : FirstOfName(file'[x])
<1>1. /\ file \in [Handle -> Block] /\ h \in Handle
      /\ \A x \in Handle : HandleOK(file[x], ents) /\ FirstOfName(file[x])
  BY HandleOfFd DEF StoreInv, VfsInv
<1>2. \A x \in Handle : x # h => file'[x] = file[x]
  BY <1>1
<1>3. file'[h].fs = file[h].fs /\ file'[h].ent = file[h].ent /\ file'[h].pos = np
  BY <1>1 DEF Block
<1>4. \A x \in Handle : FirstOfName(file'[x])
  BY <1>1, <1>2, <1>3 DEF FirstOfName
<1>5. \A x \in Handle : FullPath(ents', file'[x]) = FullPath(ents, file[x])
  <2>1. \A x \in Handle : FullPath(ents', file[x]) = FullPath(ents, file[x])
    BY <1>1, PathStays
  <2>2. FullPath(ents', file'[h]) = FullPath(ents', file[h])
    BY <1>3 DEF FullPath
  <2>. QED BY <1>2, <2>1, <2>2
<1>6. DescNow[d].open /\ DescNow[d].path = FullPath(ents, file[h])
  BY DEF DescNow, Opened
<1>7. Opened(fds[d])' = [open |-> TRUE, path |-> DescNow[d].path, pos |-> np]
  BY <1>1, <1>3, <1>5, <1>6 DEF Opened
<1>8. ASSUME NEW k \in Fd, k # d PROVE Opened(fds[k])' = Opened(fds[k])
  <2>1. fds[k].used => fds[k].file \in Handle /\ fds[k].file # h
    BY <1>8 DEF StoreInv, VfsInv, Held
  <2>. QED BY <1>2, <1>5, <2>1 DEF Opened
<1>9. DescNow' = [DescNow EXCEPT ![d] = [open |-> TRUE, path |-> DescNow[d].path, pos |-> np]]
  <2>1. DescNow' = [k \in Fd |-> Opened(fds[k])'] /\ DescNow = [k \in Fd |-> Opened(fds[k])]
    BY DEF DescNow
  <2>. QED BY <1>7, <1>8, <2>1
<1>. QED BY <1>4, <1>6, <1>9 DEF Store!Moves

(* vfs_read: the bytes at the descriptor's position.                       *)
LEMMA ReadStores ==
  ASSUME StoreUse, StoreInv, NEW c \in Client, NEW d \in Fd, NEW n \in Lens, VfsRead(c, d, n)
  PROVE  StoreRest' /\ Store!Next
<1>. DEFINE h == fds[d].file
            f == file[h]
            p == FullPath(ents, f)
            got == FileRead(DataOf(f), f.pos, n)
            np == f.pos + Len(got)
<1>1. /\ pend[c] = NoPend /\ fds[d].used
      /\ file' = [file EXCEPT ![h].pos = np]
      /\ ret' = [op |-> "read", rc |-> Len(got), data |-> got]
      /\ UNCHANGED <<mounts, fds, ents, pend, own>>
  BY DEF VfsRead, Calls, Returns
<1>2. /\ DescNow[d] = [open |-> TRUE, path |-> p, pos |-> f.pos]
      /\ StoreNow[p] = [there |-> TRUE, data |-> DataOf(f)]
      /\ HandleOK(f, ents) /\ f.pos \in Nat /\ f.fs # "none"
  BY <1>1, OpenedAt DEF Fs
<1>3. Store!BytesAt(DataOf(f), f.pos, n) = got
  <2>1. PICK S : DataOf(f) \in Seq(S)
    BY <1>2, DataOfHandle DEF StoreInv, VfsInv
  <2>2. n \in Nat
    BY VfsAssumption
  <2>. QED BY <1>2, <2>1, <2>2, ReadIs
<1>. HIDE DEF got, np, p
<1>4. Store!Moves(d, np) /\ \A x \in Handle : FirstOfName(file'[x])
  BY <1>1, MovedDesc
<1>5. UNCHANGED StoreNow
  BY <1>1 DEF StoreNow
<1>6. Store!Read(d, n)
  <2>1. StoreNow[DescNow[d].path].data = DataOf(f) /\ DescNow[d].pos = f.pos
    BY <1>2
  <2>2. ret'.op = "read"
    BY <1>1
  <2>. QED BY <1>1, <1>3, <1>4, <1>5, <2>1, <2>2 DEF Store!Read, Store!Returns, np
<1>7. StoreRest'
  <2>1. Named(ents')
    BY <1>1 DEF StoreInv
  <2>. QED BY <1>1, <1>4, <2>1, CallRest
<1>. QED BY <1>6, <1>7 DEF Store!Next

(* vfs_lseek: the descriptor stays inside its file.                        *)
LEMMA LseekStores ==
  ASSUME StoreUse, StoreInv, NEW c \in Client, NEW d \in Fd, NEW off \in -1..1, NEW w \in Whence, VfsLseek(c, d, off, w)
  PROVE  StoreRest' /\ Store!Next
<1>. DEFINE h == fds[d].file
            f == file[h]
            p == FullPath(ents, f)
            np == FileSeek(Len(DataOf(f)), f.pos, off, w)
<1>1. CASE np < 0
  <2>1. Fails("lseek")
    BY <1>1 DEF VfsLseek
  <2>. QED BY <2>1, FailedCall
<1>2. CASE ~(np < 0)
  <2>1. /\ pend[c] = NoPend /\ fds[d].used
        /\ file' = [file EXCEPT ![h].pos = np]
        /\ ret' = [op |-> "lseek", rc |-> np, data |-> <<>>]
        /\ UNCHANGED <<mounts, fds, ents, pend, own>>
    BY <1>2 DEF VfsLseek, Calls, Returns
  <2>2. /\ DescNow[d] = [open |-> TRUE, path |-> p, pos |-> f.pos]
        /\ StoreNow[p] = [there |-> TRUE, data |-> DataOf(f)]
        /\ HandleOK(f, ents) /\ f.pos \in Nat /\ f.fs # "none"
    BY <2>1, OpenedAt DEF Fs
  <2>3. np \in 0..Len(DataOf(f))
    <3>1. Len(DataOf(f)) \in Nat
      BY <2>2, DataOfHandle DEF StoreInv, VfsInv
    <3>2. np \in Int
      BY <2>2, <3>1 DEF FileSeek, Whence
    <3>3. np >= 0
      BY <1>2, <3>2
    <3>. QED BY <2>2, <3>1, <3>3, SeekStaysInside
  <2>. HIDE DEF np, p
  <2>4. Store!Moves(d, np) /\ \A x \in Handle : FirstOfName(file'[x])
    BY <2>1, MovedDesc
  <2>5. UNCHANGED StoreNow
    BY <2>1 DEF StoreNow
  <2>6. Store!Seek(d)
    <3>1. StoreNow[DescNow[d].path].data = DataOf(f) /\ DescNow[d].open
      BY <2>2
    <3>2. ret'.op = "lseek"
      BY <2>1
    <3>. QED BY <2>1, <2>3, <2>4, <2>5, <3>1, <3>2 DEF Store!Seek, Store!Returns
  <2>7. StoreRest'
    <3>1. Named(ents')
      BY <2>1 DEF StoreInv
    <3>. QED BY <2>1, <2>4, <3>1, CallRest
  <2>. QED BY <2>6, <2>7 DEF Store!Next
<1>. QED BY <1>1, <1>2

(* vfs_write: the bytes laid over the file's at the position.              *)
LEMMA WriteStores ==
  ASSUME StoreUse, StoreInv, VfsInv', NEW c \in Client, NEW d \in Fd, NEW n \in Lens, NEW b \in Byte,
         VfsWrite(c, d, [j \in 1..n |-> b])
  PROVE  StoreRest' /\ Store!Next
<1>. DEFINE bytes == [j \in 1..n |-> b]
            h == fds[d].file
            f == file[h]
            i == f.ent
            p == FullPath(ents, f)
<1>0. bytes \in Seq(Byte)
  BY VfsAssumption
<1>. HIDE DEF bytes
<1>1. CASE Fails("write")
  BY <1>1, FailedCall
<1>2. CASE ~Fails("write")
  <2>1. pend[c] = NoPend /\ fds[d].used /\ fds[d].fs = "ram" /\ WriteRam(h, bytes)
    BY <1>2 DEF VfsWrite, Calls, bytes
  <2>2. PICK ok \in BOOLEAN :
          LET r == rf_write(ents[i], f.pos, bytes, ok)
          IN  /\ ents' = [ents EXCEPT ![i] = r.ent]
              /\ file' = [file EXCEPT ![h].pos = @ + r.rc]
              /\ ret' = [op |-> "write", rc |-> r.rc, data |-> <<>>]
              /\ UNCHANGED <<mounts, fds, pend, own>> /\ ~(r.rc < 0)
    BY <1>2, <2>1 DEF WriteRam, Returns
  <2>. DEFINE r == rf_write(ents[i], f.pos, bytes, ok)
  <2>3. /\ DescNow[d] = [open |-> TRUE, path |-> p, pos |-> f.pos]
        /\ StoreNow[p] = [there |-> TRUE, data |-> DataOf(f)]
        /\ HandleOK(f, ents) /\ f.pos \in Nat /\ f.fs = "ram"
        /\ p \in Files /\ p \notin DOMAIN FixedFiles
    BY <2>1, OpenedAt
  <2>4. i \in RamEnt /\ EntryOK(ents[i]) /\ ents[i].used /\ DataOf(f) = ents[i].data /\ p = RamMount \o ents[i].name
    BY <2>3 DEF HandleOK, StoreInv, VfsInv, RamOK, DataOf, FullPath
  <2>5. /\ r.ent.used /\ r.ent.name = ents[i].name
        /\ r.rc = Len(bytes) /\ f.pos + Len(bytes) <= RAMFS_MAX_SIZE
        /\ r.ent.data = FileWrite(ents[i].data, f.pos, bytes)
    <3>1. /\ EntryOK(r.ent) /\ r.ent.used /\ r.ent.name = ents[i].name
          /\ r.rc = -1 \/ (r.rc = Len(bytes) /\ f.pos + Len(bytes) <= RAMFS_MAX_SIZE)
          /\ r.rc # -1 => r.ent.data = FileWrite(ents[i].data, f.pos, bytes)
      <4>1. PICK e : e = ents[i]
        OBVIOUS
      <4>2. EntryOK(e) /\ e.used /\ f.pos \in Nat /\ bytes \in Seq(Byte) /\ ok \in BOOLEAN
        BY <1>0, <2>3, <2>4, <4>1
      <4>. HIDE DEF f
      <4>3. LET w == rf_write(e, f.pos, bytes, ok)
            IN  /\ EntryOK(w.ent) /\ w.ent.used /\ w.ent.name = e.name
                /\ w.rc = -1 \/ (w.rc = Len(bytes) /\ f.pos + Len(bytes) <= RAMFS_MAX_SIZE)
                /\ w.rc # -1 => w.ent.data = FileWrite(e.data, f.pos, bytes)
        BY <4>2, WriteKeepsEntry
      <4>. QED BY <4>1, <4>3
    <3>2. r.rc # -1
      BY <2>2
    <3>. QED BY <3>1, <3>2
  <2>6. /\ ents' = [ents EXCEPT ![i] = r.ent]
        /\ file' = [file EXCEPT ![h].pos = f.pos + Len(bytes)]
        /\ ret' = [op |-> "write", rc |-> Len(bytes), data |-> <<>>]
        /\ UNCHANGED <<mounts, fds, pend, own>>
    BY <2>2, <2>5
  <2>. HIDE DEF r
  <2>7. RamOK(ents) /\ RamOK(ents') /\ Named(ents)
    BY DEF StoreInv, VfsInv
  <2>8. (\A j \in RamEnt : ents[j].used => ents'[j].name = ents[j].name) /\ Named(ents')
    <3>1. \A j \in RamEnt : ents'[j] = IF j = i THEN r.ent ELSE ents[j]
      BY <2>4, <2>6, <2>7 DEF RamOK
    <3>2. \A j \in RamEnt : ents'[j].name = ents[j].name /\ ents'[j].used = ents[j].used
      <4>1. ents[i].used = TRUE /\ r.ent.used = TRUE
        <5>1. ents[i].used \in BOOLEAN
          BY <2>4 DEF EntryOK, Entry
        <5>2. r.ent.used \in BOOLEAN
          <6>1. ents'[i] = r.ent
            BY <2>4, <3>1
          <6>. QED BY <2>4, <2>7, <6>1 DEF RamOK, EntryOK, Entry
        <5>. QED BY <2>4, <2>5, <5>1, <5>2
      <4>. QED BY <2>5, <3>1, <4>1
    <3>. QED BY <2>7, <3>2 DEF Named
  <2>9. StoreNow' = [StoreNow EXCEPT ![p] = [there |-> TRUE, data |-> r.ent.data]]
    <3>1. Changes(ents, ents', i, r.ent)
      BY <2>4, <2>5, <2>6, <2>7, <2>8 DEF Changes
    <3>2. \A q \in Files : Contents(ents', q) = IF q = RamMount \o r.ent.name THEN [there |-> TRUE, data |-> r.ent.data]
                                              ELSE Contents(ents, q)
      BY ONLY <3>1, EntryChanges
    <3>3. p = RamMount \o r.ent.name
      BY <2>4, <2>5
    <3>4. StoreNow' = [q \in Files |-> Contents(ents', q)] /\ StoreNow = [q \in Files |-> Contents(ents, q)]
      BY DEF StoreNow
    <3>. HIDE DEF p
    <3>. QED BY <2>3, <3>2, <3>3, <3>4
  <2>. HIDE DEF p
  <2>10. Store!Moves(d, f.pos + Len(bytes)) /\ \A x \in Handle : FirstOfName(file'[x])
    BY <2>1, <2>6, <2>8, MovedDesc
  <2>11. Store!Overlaid(DataOf(f), f.pos, bytes) = r.ent.data
    BY <1>0, <2>3, <2>4, <2>5, WriteIs DEF EntryOK, Entry
  <2>12. Store!Write(d, bytes)
    <3>1. DescNow[d].path = p /\ DescNow[d].pos = f.pos /\ StoreNow[p].data = DataOf(f)
      BY <2>3
    <3>. HIDE DEF f
    <3>. QED BY <2>3, <2>5, <2>6, <2>9, <2>10, <2>11, <3>1 DEF Store!Write, Store!Returns
  <2>13. StoreRest'
    BY <2>1, <2>6, <2>8, <2>10, CallRest
  <2>. QED BY <2>12, <2>13 DEF Store!Next, bytes
<1>. QED BY <1>1, <1>2

(* vfs_open marks the descriptor: it becomes one of its file.              *)
LEMMA MarkStores ==
  ASSUME StoreUse, StoreInv, NEW c \in Client, VfsOpenMark(c)
  PROVE  StoreRest' /\ Store!Next
<1>0. PICK d, h : d = pend[c].fd /\ h = pend[c].file
  OBVIOUS
<1>. DEFINE f == file[h]
            p == FullPath(ents, f)
<1>1. /\ pend[c] # NoPend
      /\ fds' = [fds EXCEPT ![d] = [used |-> TRUE, fs |-> pend[c].fs, file |-> h]]
      /\ pend' = [pend EXCEPT ![c] = NoPend]
      /\ ret' = [op |-> "open", rc |-> d, data |-> <<>>]
      /\ UNCHANGED <<mounts, ents, file>>
  BY <1>0 DEF VfsOpenMark, Returns
<1>2. d \in Fd /\ h \in Handle /\ pend[c].fs \in Fs /\ fds \in [Fd -> FdRec]
      /\ pend \in [Client -> Opening \union {NoPend}]
  BY <1>0, <1>1 DEF StoreInv, VfsInv, TablesTyped, Opening
<1>3. ~fds[d].used /\ FsOf(file)[h] = pend[c].fs
  BY <1>0, <1>1 DEF StoreInv, VfsInv, Held
<1>4. f.fs # "none"
  BY <1>2, <1>3 DEF FsOf, Fs
<1>5. p \in Files /\ Contents(ents, p) = [there |-> TRUE, data |-> DataOf(f)]
  BY <1>2, <1>4, HandleAt
<1>6. f.pos \in {0, Len(DataOf(f))}
  BY <1>0, <1>1 DEF StoreInv, AtAnEnd
<1>. HIDE DEF p
<1>7. StoreNow[p] = [there |-> TRUE, data |-> DataOf(f)] /\ UNCHANGED StoreNow
  BY <1>1, <1>5 DEF StoreNow
<1>8. ~DescNow[d].open
  BY <1>2, <1>3 DEF DescNow, Opened
<1>9. DescNow' = [DescNow EXCEPT ![d] = [open |-> TRUE, path |-> p, pos |-> f.pos]]
  <2>1. Opened(fds[d])' = [open |-> TRUE, path |-> p, pos |-> f.pos]
    <3>1. fds'[d] = [used |-> TRUE, fs |-> pend[c].fs, file |-> h]
      BY <1>1, <1>2
    <3>2. fds'[d].used /\ fds'[d].file = h
      BY <3>1
    <3>3. file'[fds'[d].file] = f /\ ents' = ents
      BY <1>1, <3>2
    <3>. QED BY <3>2, <3>3 DEF Opened, p
  <2>2. \A k \in Fd : k # d => Opened(fds[k])' = Opened(fds[k])
    BY <1>1, <1>2 DEF Opened
  <2>3. DescNow' = [k \in Fd |-> Opened(fds[k])'] /\ DescNow = [k \in Fd |-> Opened(fds[k])]
    BY DEF DescNow
  <2>. QED BY <2>1, <2>2, <2>3
<1>10. Store!Open(d, p)
  <2>1. StoreNow[p].there /\ f.pos \in {0, Len(StoreNow[p].data)}
    BY <1>6, <1>7
  <2>. HIDE DEF f
  <2>. QED BY <1>1, <1>7, <1>8, <1>9, <2>1 DEF Store!Open, Store!Returns
<1>11. Store!Next
  BY <1>2, <1>5, <1>10 DEF Store!Next
<1>12. AtAnEnd'
  <2>1. \A e \in Client : pend'[e] = NoPend
    BY <1>1, <1>2 DEF StoreUse
  <2>. QED BY <2>1 DEF AtAnEnd
<1>13. StoreRest'
  BY <1>1, <1>12 DEF StoreRest, StoreInv, Mounted
<1>. QED BY <1>11, <1>13

(* vfs_close frees the descriptor and the handle, and no file.             *)
LEMMA CloseStores ==
  ASSUME StoreUse, StoreInv, NEW c \in Client, NEW d \in Fd, VfsClose(c, d)
  PROVE  StoreRest' /\ Store!Next
<1>. DEFINE h == fds[d].file
<1>1. /\ pend[c] = NoPend /\ fds[d].used
      /\ file' = [file EXCEPT ![h] = FreeBlock]
      /\ fds' = [fds EXCEPT ![d] = FreeFd]
      /\ ret' = [op |-> "close", rc |-> 0, data |-> <<>>]
      /\ UNCHANGED <<mounts, ents, pend>>
  BY DEF VfsClose, Calls, Returns
<1>2. /\ h \in Handle /\ file \in [Handle -> Block] /\ fds \in [Fd -> FdRec]
      /\ \A x \in Handle : FirstOfName(file[x])
  BY <1>1, HandleOfFd DEF StoreInv, VfsInv, TablesTyped
<1>3. \A x \in Handle : FirstOfName(file'[x])
  <2>1. FirstOfName(FreeBlock)
    BY DEF FirstOfName, FreeBlock
  <2>2. \A x \in Handle : file'[x] = IF x = h THEN FreeBlock ELSE file[x]
    BY <1>1, <1>2
  <2>. QED BY <1>2, <2>1, <2>2
<1>4. Opened(fds[d])' = [open |-> FALSE, path |-> <<>>, pos |-> 0]
  BY <1>1, <1>2 DEF Opened, FreeFd
<1>5. ASSUME NEW k \in Fd, k # d PROVE Opened(fds[k])' = Opened(fds[k])
  <2>1. fds[k].used => fds[k].file \in Handle /\ fds[k].file # h
    BY <1>1, <1>5 DEF StoreInv, VfsInv, Held
  <2>2. fds'[k] = fds[k]
    BY <1>1, <1>2, <1>5
  <2>3. fds[k].used => file'[fds[k].file] = file[fds[k].file]
    BY <1>1, <1>2, <2>1
  <2>. QED BY <1>1, <2>2, <2>3 DEF Opened
<1>6. DescNow' = [DescNow EXCEPT ![d] = [open |-> FALSE, path |-> <<>>, pos |-> 0]]
  <2>1. DescNow' = [k \in Fd |-> Opened(fds[k])'] /\ DescNow = [k \in Fd |-> Opened(fds[k])]
    BY DEF DescNow
  <2>. QED BY <1>4, <1>5, <2>1
<1>7. DescNow[d].open /\ UNCHANGED StoreNow
  BY <1>1 DEF DescNow, Opened, StoreNow
<1>8. Store!Close(d)
  BY <1>1, <1>6, <1>7 DEF Store!Close, Store!Returns, Store!Closed
<1>9. StoreRest'
  <2>1. Named(ents')
    BY <1>1 DEF StoreInv
  <2>. QED BY <1>1, <1>3, <2>1, CallRest
<1>. QED BY <1>8, <1>9 DEF Store!Next

(* vfs_stat and vfs_listdir see what is there.                             *)
LEMMA Answered ==
  ASSUME UNCHANGED <<StoreNow, DescNow>>,
         ret' \in {[op |-> "umount", rc |-> 0, data |-> <<>>], [op |-> "stat", rc |-> 0, data |-> <<"DIR">>],
                   [op |-> "list", rc |-> 1, data |-> <<>>]}
  PROVE  Store!Next
<1>1. Store!Refuse
  BY DEF Store!Refuse, Store!Returns
<1>. QED BY <1>1 DEF Store!Next

(* vfs_stat: a directory, or the length of the file at the path.           *)
LEMMA StatStores ==
  ASSUME StoreUse, StoreInv, NEW c \in Client, NEW path \in Path \union {RomMount, RamMount}, VfsStat(c, path)
  PROVE  StoreRest' /\ Store!Next
<1>0. path \in Seq(STRING)
  BY VfsAssumption
<1>1. CASE Fails("stat")
  BY <1>1, FailedCall
<1>2. CASE ~Fails("stat")
  <2>1. PICK i \in find_mount(path) :
          LET rel == RelOf(path, i)
              st == IF mounts[i].fs = "ram" THEN rf_stat(ents, rel) ELSE rom_stat(RomFiles, rel)
          IN  ~(st.rc < 0) /\ ret' = [op |-> "stat", rc |-> st.size, data |-> <<st.type>>] /\ UNCHANGED state
    BY <1>2 DEF VfsStat, Returns
  <2>2. PICK rel : rel = RelOf(path, i)
    OBVIOUS
  <2>3. /\ rel \in Seq(STRING) /\ mounts[i].path \o rel = path
        /\ mounts[i] \in {RomSlot, RamSlot}
    BY <1>0, <2>2, FoundAt
  <2>4. UNCHANGED <<StoreNow, DescNow>> /\ StoreRest'
    BY <2>1, SameStore, SameRest
  <2>5. CASE mounts[i] = RamSlot
    <3>1. mounts[i].fs = "ram" /\ RamMount \o rel = path
      BY <2>3, <2>5 DEF RamSlot
    <3>2. PICK st : st = rf_stat(ents, rel)
      OBVIOUS
    <3>3. ~(st.rc < 0) /\ ret' = [op |-> "stat", rc |-> st.size, data |-> <<st.type>>]
      BY <2>1, <2>2, <3>1, <3>2
    <3>4. CASE rel = <<>>
      <4>1. ret' = [op |-> "stat", rc |-> 0, data |-> <<"DIR">>]
        BY <3>2, <3>3, <3>4 DEF rf_stat
      <4>. QED BY <2>4, <4>1, Answered
    <3>5. CASE rel # <<>>
      <4>1. RamOK(ents) /\ Named(ents)
        BY DEF StoreInv, VfsInv
      <4>2. ram_find_ent(ents, rel) = RamFile(ents, path)
        BY <2>3, <3>1, <3>5, <4>1, RamFound
      <4>3. st = IF RamFile(ents, path) = {} THEN [rc |-> -1, type |-> "none", size |-> 0]
                 ELSE [rc |-> 0, type |-> "REG", size |-> Len(ents[CHOOSE k \in RamFile(ents, path) : TRUE].data)]
        BY <3>2, <3>5, <4>2 DEF rf_stat
      <4>4. RamFile(ents, path) # {}
        BY <3>3, <4>3
      <4>5. PICK k \in RamEnt : k \in RamFile(ents, path)
        BY <4>4 DEF RamFile
      <4>6. ents[k].used /\ path = RamMount \o ents[k].name
        BY <4>5 DEF RamFile
      <4>7. /\ path \in Files /\ RamFile(ents, path) = {k}
            /\ Contents(ents, path) = [there |-> TRUE, data |-> ents[k].data]
        BY ONLY <4>1, <4>6, k \in RamEnt, EntryAt
      <4>8. ret' = [op |-> "stat", rc |-> Len(ents[k].data), data |-> <<"REG">>]
        <5>1. (CHOOSE x \in {k} : TRUE) = k
          OBVIOUS
        <5>. QED BY <3>3, <4>3, <4>4, <4>7, <5>1
      <4>9. StoreNow[path] = [there |-> TRUE, data |-> ents[k].data]
        BY <4>7 DEF StoreNow
      <4>10. Store!Stat(path)
        BY <2>4, <4>8, <4>9 DEF Store!Stat, Store!Returns
      <4>. QED BY <2>4, <4>7, <4>10 DEF Store!Next
    <3>. QED BY <2>4, <3>4, <3>5
  <2>6. CASE mounts[i] = RomSlot
    <3>1. mounts[i].fs = "rom" /\ RomMount \o rel = path
      BY <2>3, <2>6 DEF RomSlot
    <3>2. PICK st : st = rom_stat(RomFiles, rel)
      OBVIOUS
    <3>3. ~(st.rc < 0) /\ ret' = [op |-> "stat", rc |-> st.size, data |-> <<st.type>>]
      BY <2>1, <2>2, <3>1, <3>2
    <3>4. CASE rel = <<>>
      <4>1. ret' = [op |-> "stat", rc |-> 0, data |-> <<"DIR">>]
        BY <3>2, <3>3, <3>4 DEF rom_stat
      <4>. QED BY <2>4, <4>1, Answered
    <3>5. CASE rel # <<>>
      <4>1. rom_find_ent(RomFiles, rel) = RomFile(path)
        BY <2>3, <3>1, <3>5, RomFound
      <4>2. PICK k : k = CHOOSE x \in RomFile(path) : TRUE
        OBVIOUS
      <4>3. st = IF RomFile(path) = {} THEN [rc |-> -1, type |-> "none", size |-> 0]
                 ELSE [rc |-> 0, type |-> "REG", size |-> Len(RomFiles[k].data)]
        BY <3>2, <3>5, <4>1, <4>2 DEF rom_stat
      <4>4. RomFile(path) # {}
        BY <3>3, <4>3
      <4>5. PICK j \in RomFile(path) : TRUE
        BY <4>4
      <4>6. j \in DOMAIN RomFiles /\ path = RomMount \o RomFiles[j].name
        BY DEF RomFile
      <4>7. path \in Files /\ Contents(ents, path) = [there |-> TRUE, data |-> RomFiles[k].data]
        BY <4>2, <4>6, RomAt
      <4>8. StoreNow[path] = [there |-> TRUE, data |-> RomFiles[k].data]
        BY <4>7 DEF StoreNow
      <4>9. ret' = [op |-> "stat", rc |-> Len(RomFiles[k].data), data |-> <<"REG">>]
        BY <3>3, <4>3, <4>4
      <4>10. Store!Stat(path)
        BY <2>4, <4>8, <4>9 DEF Store!Stat, Store!Returns
      <4>. QED BY <2>4, <4>7, <4>10 DEF Store!Next
    <3>. QED BY <2>4, <3>4, <3>5
  <2>. QED BY <2>3, <2>5, <2>6
<1>. QED BY <1>1, <1>2

(* A name that is listed is what follows the mount point in a file's path. *)
LEMMA Listed ==
  ASSUME UNCHANGED <<StoreNow, DescNow>>, NEW m \in Seq(STRING), NEW name \in Seq(STRING), name # <<>>,
         m \o name \in Files, Contents(ents, m \o name).there,
         ret' = [op |-> "list", rc |-> 0, data |-> name]
  PROVE  Store!Next
<1>. DEFINE p == m \o name
            n == Len(m) + 1
<1>1. /\ Len(p) = Len(m) + Len(name) /\ Len(m) \in Nat /\ Len(name) \in Nat
      /\ SubSeq(p, n, Len(p)) = name
  BY PathTail
<1>2. Len(name) # 0
  BY EmptySeq
<1>3. n \in 1..Len(p)
  BY <1>1, <1>2
<1>4. StoreNow[p].there
  BY DEF StoreNow
<1>. HIDE DEF p, n
<1>5. Store!List(p)
  BY <1>1, <1>3, <1>4 DEF Store!List, Store!Returns
<1>. QED BY <1>5 DEF Store!Next, p

(* vfs_listdir: a name that is there, or the end.                          *)
LEMMA ListdirStores ==
  ASSUME StoreUse, StoreInv, NEW c \in Client, NEW path \in {RomMount, RamMount}, NEW idx \in 0..RAMFS_MAX_FILES,
         VfsListdir(c, path, idx)
  PROVE  StoreRest' /\ Store!Next
<1>0. path \in Seq(STRING) /\ RomMount \in Seq(STRING) /\ RamMount \in Seq(STRING)
  BY VfsAssumption
<1>1. CASE Fails("list")
  BY <1>1, FailedCall
<1>2. CASE ~Fails("list")
  <2>1. PICK i \in find_mount(path) :
          LET rel == RelOf(path, i)
              l == IF mounts[i].fs = "ram" THEN rf_listdir(ents, rel, idx) ELSE rom_listdir(RomFiles, rel, idx)
          IN  ret' = [op |-> "list", rc |-> l.rc, data |-> l.name] /\ UNCHANGED state
    BY <1>2 DEF VfsListdir, Returns
  <2>2. PICK rel : rel = RelOf(path, i)
    OBVIOUS
  <2>3. mounts[i] \in {RomSlot, RamSlot}
    BY <1>0, <2>2, FoundAt
  <2>4. UNCHANGED <<StoreNow, DescNow>> /\ StoreRest'
    BY <2>1, SameStore, SameRest
  <2>5. ASSUME NEW l, ret' = [op |-> "list", rc |-> l.rc, data |-> l.name],
               l \in {[rc |-> -1, name |-> <<>>], [rc |-> 1, name |-> <<>>]}
        PROVE  Store!Next
    <3>1. CASE l = [rc |-> -1, name |-> <<>>]
      <4>1. ret' = [op |-> "list", rc |-> -1, data |-> <<>>]
        BY <2>5, <3>1
      <4>. QED BY <2>4, <4>1, Refused
    <3>2. CASE l = [rc |-> 1, name |-> <<>>]
      <4>1. ret' = [op |-> "list", rc |-> 1, data |-> <<>>]
        BY <2>5, <3>2
      <4>. QED BY <2>4, <4>1, Answered
    <3>. QED BY <2>5, <3>1, <3>2
  <2>6. CASE mounts[i] = RamSlot
    <3>1. mounts[i].fs = "ram"
      BY <2>6 DEF RamSlot
    <3>2. PICK l : l = rf_listdir(ents, rel, idx)
      OBVIOUS
    <3>3. ret' = [op |-> "list", rc |-> l.rc, data |-> l.name]
      BY <2>1, <2>2, <3>1, <3>2
    <3>. DEFINE nth == {k \in RamEnt : ents[k].used /\ Cardinality({j \in 1..(k - 1) : ents[j].used}) = idx}
    <3>4. l = IF rel # <<>> THEN [rc |-> -1, name |-> <<>>]
              ELSE IF nth = {} THEN [rc |-> 1, name |-> <<>>]
              ELSE [rc |-> 0, name |-> ents[CHOOSE k \in nth : TRUE].name]
      BY <3>2 DEF rf_listdir
    <3>5. \A k \in nth : k \in RamEnt /\ ents[k].used
      OBVIOUS
    <3>. HIDE DEF nth
    <3>6. CASE rel # <<>> \/ nth = {}
      <4>1. l \in {[rc |-> -1, name |-> <<>>], [rc |-> 1, name |-> <<>>]}
        BY <3>4, <3>6
      <4>. QED BY <2>4, <2>5, <3>3, <4>1
    <3>7. CASE ~(rel # <<>> \/ nth = {})
      <4>1. PICK k : k = CHOOSE x \in nth : TRUE
        OBVIOUS
      <4>2. k \in RamEnt /\ ents[k].used
        BY <3>5, <3>7, <4>1
      <4>3. ret' = [op |-> "list", rc |-> 0, data |-> ents[k].name]
        BY <3>3, <3>4, <3>7, <4>1
      <4>4. RamOK(ents) /\ Named(ents)
        BY DEF StoreInv, VfsInv
      <4>5. /\ RamMount \o ents[k].name \in Files /\ Contents(ents, RamMount \o ents[k].name).there
            /\ ents[k].name \in Seq(STRING) /\ ents[k].name # <<>>
        <5>1. PICK p : p = RamMount \o ents[k].name
          OBVIOUS
        <5>2. p \in Files /\ Contents(ents, p) = [there |-> TRUE, data |-> ents[k].data]
              /\ ents[k].name \in Seq(STRING) /\ ents[k].name # <<>>
          BY ONLY <4>2, <4>4, <5>1, EntryAt
        <5>3. Contents(ents, p).there
          BY <5>2
        <5>. QED BY ONLY <5>1, <5>2, <5>3
      <4>. QED BY <1>0, <2>4, <4>3, <4>5, Listed
    <3>. QED BY <3>6, <3>7
  <2>7. CASE mounts[i] = RomSlot
    <3>1. mounts[i].fs = "rom"
      BY <2>7 DEF RomSlot
    <3>2. PICK l : l = rom_listdir(RomFiles, rel, idx)
      OBVIOUS
    <3>3. ret' = [op |-> "list", rc |-> l.rc, data |-> l.name]
      BY <2>1, <2>2, <3>1, <3>2
    <3>4. l = IF rel # <<>> THEN [rc |-> -1, name |-> <<>>]
              ELSE IF idx >= Len(RomFiles) THEN [rc |-> 1, name |-> <<>>]
              ELSE [rc |-> 0, name |-> RomFiles[idx + 1].name]
      BY <3>2 DEF rom_listdir
    <3>5. CASE rel # <<>> \/ idx >= Len(RomFiles)
      <4>1. l \in {[rc |-> -1, name |-> <<>>], [rc |-> 1, name |-> <<>>]}
        BY <3>4, <3>5
      <4>. QED BY <2>4, <2>5, <3>3, <4>1
    <3>6. CASE ~(rel # <<>> \/ idx >= Len(RomFiles))
      <4>1. PICK k : k = idx + 1
        OBVIOUS
      <4>2. k \in DOMAIN RomFiles
        <5>1. PICK S : RomFiles \in Seq(S)
          BY VfsAssumption DEF IsSequence
        <5>2. Len(RomFiles) \in Nat /\ DOMAIN RomFiles = 1..Len(RomFiles)
          BY <5>1, LenProperties
        <5>3. idx \in Nat
          BY RamfsAssumption
        <5>. QED BY <3>6, <4>1, <5>2, <5>3
      <4>3. ret' = [op |-> "list", rc |-> 0, data |-> RomFiles[k].name]
        BY <3>3, <3>4, <3>6, <4>1
      <4>4. RomFiles[k].name \in Seq(STRING) /\ RomFiles[k].name # <<>>
        BY <4>2, VfsAssumption DEF StoreUse
      <4>5. RomMount \o RomFiles[k].name \in Files /\ Contents(ents, RomMount \o RomFiles[k].name).there
        <5>1. PICK p : p = RomMount \o RomFiles[k].name
          OBVIOUS
        <5>2. p \in Files /\ Contents(ents, p) = [there |-> TRUE, data |-> RomFiles[CHOOSE j \in RomFile(p) : TRUE].data]
          BY <4>2, <5>1, RomAt
        <5>3. Contents(ents, p).there
          BY <5>2
        <5>. QED BY ONLY <5>1, <5>2, <5>3
      <4>. QED BY <1>0, <2>4, <4>3, <4>4, <4>5, Listed
    <3>. QED BY <3>5, <3>6
  <2>. QED BY <2>3, <2>4, <2>6, <2>7
<1>. QED BY <1>1, <1>2

(* vfs_umount clears a slot, and files stay as they are.                   *)
LEMMA UmountStores ==
  ASSUME StoreUse, StoreInv, NEW c \in Client, VfsUmount(c, RamMount)
  PROVE  StoreRest' /\ Store!Next
<1>. DEFINE at == {i \in Slot : mounts[i].used /\ mounts[i].path = RamMount}
<1>1. CASE Fails("umount")
  BY <1>1, FailedCall
<1>2. CASE ~Fails("umount")
  <2>1. /\ pend[c] = NoPend
        /\ mounts' = [i \in Slot |-> IF i \in at THEN NoMount ELSE mounts[i]]
        /\ ret' = [op |-> "umount", rc |-> 0, data |-> <<>>]
        /\ UNCHANGED <<fds, ents, file, pend, own>>
    BY <1>2 DEF VfsUmount, Returns
  <2>2. Mounted'
    <3>1. 1 \notin at
      BY VfsAssumption DEF StoreInv, Mounted, RomSlot
    <3>. HIDE DEF at
    <3>. QED BY <2>1, <3>1 DEF StoreInv, Mounted
  <2>3. UNCHANGED StoreNow
    BY <2>1 DEF StoreNow
  <2>4. UNCHANGED DescNow
    BY <2>1, SameDesc
  <2>5. Store!Next
    BY <2>1, <2>3, <2>4, Answered
  <2>6. AtAnEnd'
    BY <2>1, NotOpening
  <2>. QED BY <2>1, <2>2, <2>5, <2>6 DEF StoreRest, StoreInv
<1>. QED BY <1>1, <1>2

(* ramfs_mount is the fresh file system: nothing is open on the old one.   *)
LEMMA RamfsMountStores ==
  ASSUME StoreUse, StoreInv, NEW c \in Client, RamfsMount(c, RamMount)
  PROVE  StoreRest' /\ Store!Next
<1>1. /\ pend[c] = NoPend
      /\ \A i \in Slot : mounts[i].used => mounts[i].fs # "ram"
      /\ \A h \in Handle : file[h].fs # "ram"
      /\ ents' = [i \in RamEnt |-> FreeEnt]
      /\ mounts' = vfs_mount(RamMount, "ram")
      /\ ret' = [op |-> "mount", rc |-> IF mounts' = mounts THEN -1 ELSE 0, data |-> <<>>]
      /\ UNCHANGED <<fds, file, pend, own>>
  BY DEF RamfsMount, Returns
<1>2. Mounted /\ 1 \in Slot /\ 2 \in Slot
  BY VfsAssumption DEF StoreInv, StoreUse, Slot
<1>3. mounts[1] = RomSlot /\ \A i \in Slot : i # 1 => mounts[i] = NoMount
  BY <1>1, <1>2 DEF Mounted, RamSlot
<1>. DEFINE free == {i \in Slot : ~mounts[i].used /\ \A j \in Slot : ~mounts[j].used => i <= j}
<1>4. mounts' = [i \in Slot |-> IF i \in free THEN RamSlot ELSE mounts[i]]
  <2>1. ~(\E i \in Slot : mounts[i].used /\ mounts[i].path = RamMount)
    BY <1>3, VfsAssumption DEF RomSlot, NoMount
  <2>2. 2 \in free
    <3>1. ~mounts[2].used /\ \A j \in Slot : ~mounts[j].used => j # 1
      BY <1>2, <1>3 DEF NoMount, RomSlot
    <3>2. \A j \in Slot : ~mounts[j].used => 2 <= j
      BY <3>1 DEF Slot
    <3>. QED BY <1>2, <3>1, <3>2
  <2>. QED BY <1>1, <2>1, <2>2 DEF vfs_mount, RamSlot
<1>5. 1 \notin free /\ 2 \in free
  <2>1. ~mounts[2].used /\ \A j \in Slot : ~mounts[j].used => j # 1
    BY <1>2, <1>3 DEF NoMount, RomSlot
  <2>2. \A j \in Slot : ~mounts[j].used => 2 <= j
    BY <2>1 DEF Slot
  <2>. QED BY <1>2, <1>3, <2>1, <2>2 DEF RomSlot
<1>. HIDE DEF free
<1>6. Mounted'
  BY <1>2, <1>3, <1>4, <1>5 DEF Mounted
<1>7. mounts' # mounts
  <2>1. mounts'[2] = RamSlot /\ mounts[2] = NoMount
    BY <1>2, <1>3, <1>4, <1>5
  <2>. QED BY <2>1 DEF RamSlot, NoMount
<1>8. \A i \in RamEnt : ~ents'[i].used
  BY <1>1 DEF FreeEnt
<1>9. Named(ents')
  BY <1>8 DEF Named
<1>10. \A p \in Files : Contents(ents', p) = IF p \in DOMAIN FixedFiles THEN StoreNow[p] ELSE [there |-> FALSE, data |-> <<>>]
  <2>. SUFFICES ASSUME NEW p \in Files
                PROVE  Contents(ents', p) = IF p \in DOMAIN FixedFiles THEN StoreNow[p] ELSE [there |-> FALSE, data |-> <<>>]
    OBVIOUS
  <2>1. RamFile(ents', p) = {}
    BY <1>8 DEF RamFile
  <2>2. p \in DOMAIN FixedFiles <=> RomFile(p) # {}
    BY DEF FixedFiles, RomFile
  <2>3. StoreNow[p] = Contents(ents, p)
    BY DEF StoreNow
  <2>. QED BY <2>1, <2>2, <2>3 DEF Contents
<1>11. StoreNow' = [p \in Files |-> IF p \in DOMAIN FixedFiles THEN StoreNow[p] ELSE [there |-> FALSE, data |-> <<>>]]
  <2>1. StoreNow' = [p \in Files |-> Contents(ents', p)]
    BY DEF StoreNow
  <2>. QED BY <1>10, <2>1
<1>12. ASSUME NEW d \in Fd, fds[d].used
       PROVE  /\ FullPath(ents', file'[fds[d].file]) = FullPath(ents, file[fds[d].file])
              /\ file'[fds[d].file].pos = file[fds[d].file].pos
              /\ DescNow[d].path \in DOMAIN FixedFiles
  <2>1. PICK f : f = file[fds[d].file]
    OBVIOUS
  <2>2. /\ DescNow[d] = [open |-> TRUE, path |-> FullPath(ents, f), pos |-> f.pos]
        /\ (FullPath(ents, f) \in DOMAIN FixedFiles <=> f.fs = "rom")
        /\ f.fs \in Fs /\ fds[d].file \in Handle
    BY <1>12, <2>1, OpenedAt
  <2>3. f.fs = "rom"
    BY <1>1, <2>1, <2>2 DEF Fs
  <2>4. file'[fds[d].file] = f
    BY <1>1, <2>1
  <2>5. FullPath(ents', f) = FullPath(ents, f)
    BY <2>3 DEF FullPath
  <2>. QED BY <2>1, <2>2, <2>3, <2>4, <2>5
<1>13. UNCHANGED DescNow
  BY <1>1, <1>12, SameDesc
<1>14. \A d \in Fd : DescNow[d].open => DescNow[d].path \in DOMAIN FixedFiles
  <2>1. \A d \in Fd : DescNow[d].open => fds[d].used
    BY DEF DescNow, Opened
  <2>. QED BY <1>12, <2>1
<1>15. Store!Format
  BY <1>1, <1>7, <1>11, <1>13, <1>14 DEF Store!Format, Store!Returns, Store!Gone
<1>16. AtAnEnd'
  BY <1>1, NotOpening
<1>17. StoreRest'
  BY <1>1, <1>6, <1>9, <1>16 DEF StoreRest, StoreInv
<1>. QED BY <1>15, <1>17 DEF Store!Next

(* Every step keeps the invariant, and is one of FileStore or none.        *)
LEMMA NextStores ==
  ASSUME StoreUse, StoreInv, VfsInv', Next
  PROVE  StoreRest' /\ (Store!Next \/ UNCHANGED <<StoreNow, DescNow, ret>>)
<1>1. PICK c \in Client :
        \/ \E path \in Path, flags \in Flags : VfsOpen(c, path, flags)
        \/ VfsOpenMark(c)
        \/ \E d \in Fd, n \in Lens : VfsRead(c, d, n)
        \/ \E d \in Fd, n \in Lens, b \in Byte : VfsWrite(c, d, [i \in 1..n |-> b])
        \/ \E d \in Fd, off \in -1..1, w \in Whence : VfsLseek(c, d, off, w)
        \/ \E d \in Fd : VfsClose(c, d)
        \/ \E path \in Path \union {RomMount, RamMount} : VfsStat(c, path)
        \/ \E path \in {RomMount, RamMount}, idx \in 0..RAMFS_MAX_FILES : VfsListdir(c, path, idx)
        \/ VfsUmount(c, RamMount) \/ RamfsMount(c, RamMount)
  BY DEF Next
<1>2. CASE \E path \in Path, flags \in Flags : VfsOpen(c, path, flags)
  BY <1>2, OpenStores
<1>3. CASE VfsOpenMark(c)
  BY <1>3, MarkStores
<1>4. CASE \E d \in Fd, n \in Lens : VfsRead(c, d, n)
  BY <1>4, ReadStores
<1>5. CASE \E d \in Fd, n \in Lens, b \in Byte : VfsWrite(c, d, [i \in 1..n |-> b])
  BY <1>5, WriteStores
<1>6. CASE \E d \in Fd, off \in -1..1, w \in Whence : VfsLseek(c, d, off, w)
  BY <1>6, LseekStores
<1>7. CASE \E d \in Fd : VfsClose(c, d)
  BY <1>7, CloseStores
<1>8. CASE \E path \in Path \union {RomMount, RamMount} : VfsStat(c, path)
  BY <1>8, StatStores
<1>9. CASE \E path \in {RomMount, RamMount}, idx \in 0..RAMFS_MAX_FILES : VfsListdir(c, path, idx)
  BY <1>9, ListdirStores
<1>10. CASE VfsUmount(c, RamMount)
  BY <1>10, UmountStores
<1>11. CASE RamfsMount(c, RamMount)
  BY <1>11, RamfsMountStores
<1>. QED BY <1>1, <1>2, <1>3, <1>4, <1>5, <1>6, <1>7, <1>8, <1>9, <1>10, <1>11

(* services/include/vfs.h: through mounts, descriptors, entries and        *)
(* blocks, a client sees files that are found by path and descriptors that *)
(* are positions in them (StoreSpec), whatever the sizes of the tables,    *)
(* the paths, the built-in files and the lengths of reads and writes.      *)
THEOREM VfsStoreSpec ==
  ASSUME StoreUse
  PROVE  Spec => StoreSpec
<1>1. Init => StoreInv /\ Store!Init
  BY StoreStart
<1>2. StoreInv /\ [Next]_vars => StoreInv' /\ [Store!Next]_<<StoreNow, DescNow, ret>>
  <2>. SUFFICES ASSUME StoreInv, [Next]_vars PROVE StoreInv' /\ [Store!Next]_<<StoreNow, DescNow, ret>>
    OBVIOUS
  <2>1. VfsInv'
    <3>1. VfsUse /\ VfsInv
      BY DEF StoreUse, VfsUse, StoreInv
    <3>. QED BY <3>1, NextVfsInv
  <2>2. CASE Next
    <3>1. StoreRest' /\ (Store!Next \/ UNCHANGED <<StoreNow, DescNow, ret>>)
      BY <2>1, <2>2, NextStores
    <3>. QED BY <2>1, <3>1 DEF StoreInv, StoreRest
  <2>3. CASE UNCHANGED vars
    <3>1. UNCHANGED state /\ UNCHANGED ret
      BY <2>3 DEF vars
    <3>2. StoreRest' /\ UNCHANGED <<StoreNow, DescNow>>
      BY <3>1, SameStore, SameRest
    <3>. QED BY <2>1, <3>1, <3>2 DEF StoreInv, StoreRest
  <2>. QED BY <2>2, <2>3
<1>. QED BY <1>1, <1>2, PTL DEF Spec, StoreSpec, Store!Spec
=============================================================================
