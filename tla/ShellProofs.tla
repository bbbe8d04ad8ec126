------------------------------ MODULE ShellProofs ------------------------------
(***************************************************************************)
(* The shell, the loader and the network commands of module Services, for  *)
(* any lines and scripts, any heap, number of descriptors, slots and       *)
(* tasks: who holds a descriptor or a block, that a program keeps its      *)
(* memory, which segments of a line run, and what ping leaves behind; and  *)
(* what any number of readers get of the files of /proc and /sys.          *)
(* Last, the users of littlefs, whose listings are whole.                  *)
(***************************************************************************)
EXTENDS Services, SequenceTheorems, FiniteSetTheorems, WellFoundedInduction, TLAPS

(* Every nonempty set of numbers has a least one.                          *)
LEMMA LeastNumber ==
  ASSUME NEW S \in SUBSET Nat, S # {}
  PROVE  \E m \in S : \A x \in S : m <= x
<1> DEFINE T == {0..x : x \in S}
           R == StrictSubsetOrdering(Nat)
           F == FiniteSubsetsOf(Nat)
<1>1. T \subseteq F /\ T # {}
  <2>1. \A x \in S : 0..x \in SUBSET Nat /\ IsFiniteSet(0..x)
    BY FS_Interval
  <2> QED BY <2>1 DEF FiniteSubsetsOf
<1>2. IsWellFoundedOn(R, F)
  BY FS_StrictSubsetOrderingWellFounded
<1> HIDE DEF T, R, F
<1>3. PICK t \in T : \A u \in T : <<u, t>> \notin R
  BY <1>1, <1>2, WFMin
<1>4. PICK m \in S : t = 0..m
  BY DEF T
<1>5. ASSUME NEW x \in S, x < m PROVE FALSE
  <2>1. 0..x \in SUBSET Nat /\ 0..m \in SUBSET Nat /\ 0..x \subseteq 0..m
    BY <1>5
  <2>2. 0..x # 0..m
    <3>1. m \in 0..m /\ m \notin 0..x
      BY <1>5
    <3> QED BY <3>1
  <2>3. <<0..x, 0..m>> \in R
    BY <2>1, <2>2 DEF R, StrictSubsetOrdering
  <2>4. 0..x \in T
    BY DEF T
  <2> QED BY <1>3, <1>4, <2>3, <2>4
<1> QED BY <1>4, <1>5

------------------------------------------------------------------------------
(* Blocks.                                                                 *)
LEMMA LeastIs ==
  ASSUME NEW S \in SUBSET Nat, S # {}
  PROVE  Least(S) \in S
<1>1. PICK m \in S : \A x \in S : m <= x
  BY LeastNumber
<1> QED BY <1>1 DEF Least

(* Blocks are numbers, finitely many; neither null nor the window is one.  *)
LEMMA BlocksAre == Block \subseteq Nat /\ IsFiniteSet(Block) /\ 0 \notin Block /\ Window \notin Block
BY FilesAssumption, ElfAssumption

(* malloc returns a block that is free.                                    *)
LEMMA MallocIs ==
  ASSUME NEW h, HasRoom(h, 1)
  PROVE  malloc(h) \in Block /\ malloc(h) \notin h
<1>1. Block \ h \in SUBSET Nat /\ IsFiniteSet(Block \ h)
  BY BlocksAre, FS_Subset
<1>2. Block \ h # {}
  BY FS_EmptySet DEF HasRoom
<1> QED BY <1>1, <1>2, LeastIs DEF malloc

(* What an open takes for its handle was free.                             *)
LEMMA HandleIs ==
  ASSUME NEW h, NEW p \in Path, HasRoom(h, HandleBlocks[p])
  PROVE  NewHandle(h, p) \in SUBSET Block /\ NewHandle(h, p) \intersect h = {}
<1>1. HandleBlocks[p] \in {1, 2}
  BY FilesAssumption
<1>2. IsFiniteSet(Block \ h) /\ Cardinality(Block \ h) \in Nat
  BY BlocksAre, FS_Subset, FS_CardinalityType
<1>3. HasRoom(h, 1)
  BY <1>1, <1>2 DEF HasRoom
<1>4. PICK b : b = malloc(h) /\ b \in Block /\ b \notin h
  BY <1>3, MallocIs
<1>5. CASE HandleBlocks[p] = 1
  BY <1>4, <1>5 DEF NewHandle
<1>6. CASE HandleBlocks[p] = 2
  <2>1. Cardinality((Block \ h) \ {b}) = Cardinality(Block \ h) - 1
    BY <1>2, <1>4, FS_RemoveElement
  <2>2. Block \ (h \union {b}) = (Block \ h) \ {b}
    OBVIOUS
  <2>3. HasRoom(h \union {b}, 1)
    BY <1>2, <1>6, <2>1, <2>2 DEF HasRoom
  <2>4. PICK c : c = malloc(h \union {b}) /\ c \in Block /\ c \notin h \union {b}
    BY <2>3, MallocIs
  <2>5. NewHandle(h, p) = {b, c}
    BY <1>4, <1>6, <2>4 DEF NewHandle
  <2> QED BY <1>4, <2>4, <2>5
<1> QED BY <1>1, <1>5, <1>6

------------------------------------------------------------------------------
(* Who holds what.                                                         *)
FdsOK ==
  /\ fds \in [Fd -> [used : BOOLEAN, blks : SUBSET Block]]
  /\ \A d \in Fd : ~fds[d].used => fds[d].blks = {}
  /\ \A d, e \in Fd : d # e => fds[d].blks \intersect fds[e].blks = {}
Files == UNION {fds[d].blks : d \in Fd}
Loading == (Held \union {load.buf}) \ {0}
Slots == UNION {Memory(m) : m \in Used}
HeapOK ==
  /\ FdsOK /\ heap \in SUBSET Block
  /\ heap = Files \union Loading \union Slots
  /\ Files \intersect Loading = {} /\ Slots \intersect (Files \union Loading) = {}

(* An open takes a free descriptor, and blocks nobody else has.            *)
LEMMA OpensIs ==
  ASSUME HeapOK, NEW p, Opens(p)
  PROVE  /\ NewFd \in Fd /\ ~fds[NewFd].used /\ p \in Path /\ wild' = wild
         /\ FdsOK' /\ \E B \in SUBSET Block : B \intersect heap = {} /\ heap' = heap \union B /\ Files' = Files \union B
         /\ {d \in Fd : fds'[d].used} = {d \in Fd : fds[d].used} \union {NewFd}
<1>1. p \in Path /\ HasRoom(heap, HandleBlocks[p]) /\ wild' = wild
  BY DEF Opens, CanOpen
<1>2. PICK B \in SUBSET Block : B = NewHandle(heap, p) /\ B \intersect heap = {}
  BY <1>1, HandleIs
<1>3. PICK n : n = NewFd
  OBVIOUS
<1>4. n \in Fd /\ ~fds[n].used
  <2> DEFINE S == {d \in Fd : ~fds[d].used}
  <2>1. S \in SUBSET Nat
    BY FilesAssumption DEF Fd
  <2>2. S # {}
    BY DEF Opens, CanOpen
  <2>3. Least(S) \in S
    BY <2>1, <2>2, LeastIs
  <2> QED BY <1>3, <2>3 DEF NewFd
<1>5. heap' = heap \union B /\ fds' = [fds EXCEPT ![n] = [used |-> TRUE, blks |-> B]]
  BY <1>2, <1>3 DEF Opens
<1>6. fds \in [Fd -> [used : BOOLEAN, blks : SUBSET Block]]
  BY DEF HeapOK, FdsOK
<1>7. /\ fds'[n] = [used |-> TRUE, blks |-> B] /\ \A d \in Fd : d # n => fds'[d] = fds[d]
      /\ fds' \in [Fd -> [used : BOOLEAN, blks : SUBSET Block]]
  BY <1>4, <1>5, <1>6
<1>8. \A d \in Fd : fds[d].blks \subseteq heap
  BY DEF HeapOK, Files
<1>9. fds[n].blks = {}
  BY <1>4 DEF HeapOK, FdsOK
<1>10. FdsOK'
  <2>1. \A d \in Fd : ~fds'[d].used => fds'[d].blks = {}
    BY <1>7 DEF HeapOK, FdsOK
  <2>2. ASSUME NEW d \in Fd, NEW e \in Fd, d # e PROVE fds'[d].blks \intersect fds'[e].blks = {}
    <3>1. CASE d # n /\ e # n
      BY <1>7, <2>2, <3>1 DEF HeapOK, FdsOK
    <3>2. CASE d = n /\ e # n
      BY <1>2, <1>7, <1>8, <3>2
    <3>3. CASE d # n /\ e = n
      BY <1>2, <1>7, <1>8, <3>3
    <3> QED BY <2>2, <3>1, <3>2, <3>3
  <2> QED BY <1>7, <2>1, <2>2 DEF FdsOK
<1>11. Files' = Files \union B
  <2>1. ASSUME NEW x PROVE x \in Files' <=> x \in Files \union B
    BY <1>4, <1>7, <1>9 DEF Files
  <2> QED BY <2>1
<1>12. {d \in Fd : fds'[d].used} = {d \in Fd : fds[d].used} \union {n}
  BY <1>4, <1>7
<1> QED BY <1>1, <1>2, <1>3, <1>4, <1>5, <1>10, <1>11, <1>12

(* A close gives back what the descriptor had.                             *)
LEMMA ClosesIs ==
  ASSUME HeapOK, NEW d \in Fd, fds' = [fds EXCEPT ![d] = FreeFd]
  PROVE  /\ FdsOK' /\ fds[d].blks \subseteq heap /\ Files' = Files \ fds[d].blks
         /\ {e \in Fd : fds'[e].used} = {e \in Fd : fds[e].used} \ {d}
<1>1. fds \in [Fd -> [used : BOOLEAN, blks : SUBSET Block]]
  BY DEF HeapOK, FdsOK
<1>2. /\ fds'[d] = [used |-> FALSE, blks |-> {}] /\ \A e \in Fd : e # d => fds'[e] = fds[e]
      /\ fds' \in [Fd -> [used : BOOLEAN, blks : SUBSET Block]]
  BY <1>1 DEF FreeFd
<1>3. \A e \in Fd : e # d => fds[e].blks \intersect fds[d].blks = {}
  BY DEF HeapOK, FdsOK
<1>4. FdsOK'
  <2>1. \A e \in Fd : ~fds'[e].used => fds'[e].blks = {}
    BY <1>2 DEF HeapOK, FdsOK
  <2>2. ASSUME NEW c \in Fd, NEW e \in Fd, c # e PROVE fds'[c].blks \intersect fds'[e].blks = {}
    <3>1. CASE c # d /\ e # d
      BY <1>2, <2>2, <3>1 DEF HeapOK, FdsOK
    <3>2. CASE c = d \/ e = d
      BY <1>2, <3>2
    <3> QED BY <3>1, <3>2
  <2> QED BY <1>2, <2>1, <2>2 DEF FdsOK
<1>5. Files' = Files \ fds[d].blks
  <2>1. ASSUME NEW x PROVE x \in Files' <=> x \in Files /\ x \notin fds[d].blks
    BY <1>2, <1>3 DEF Files
  <2> QED BY <2>1
<1>6. fds[d].blks \subseteq heap
  BY DEF HeapOK, Files
<1>7. {e \in Fd : fds'[e].used} = {e \in Fd : fds[e].used} \ {d}
  BY <1>2
<1> QED BY <1>4, <1>5, <1>6, <1>7

------------------------------------------------------------------------------
(* The loader.                                                             *)
LoadPc == {"idle", "open", "read", "image", "slot", "create", "activate", "record", "done"}
Args == {s.arg : s \in Segments} \union {""}
LoadType ==
  [pc : LoadPc, path : Args, tid : Task \union {0}, fd : Fd \union {-1},
   buf : Block \union {0}, img : Block \union {0, Window}, owned : BOOLEAN, stk : Block \union {0},
   mod : Mod \union {0}, id : Task \union {0}, rc : Int \union Task]
ImageOK == (load.owned /\ load.img \in Block) \/ (~load.owned /\ load.img = Window)
LoadOK ==
  /\ load \in LoadType
  /\ load.pc \in {"idle", "open", "done"} => load.fd = -1 /\ load.buf = 0 /\ ~load.owned /\ load.stk = 0
  /\ load.pc = "read" => load.fd \in Fd /\ fds[load.fd].used /\ load.buf = 0 /\ ~load.owned /\ load.stk = 0
  /\ load.pc = "image" => load.fd = -1 /\ load.buf \in Block /\ ~load.owned /\ load.stk = 0
  /\ load.pc = "slot" => load.fd = -1 /\ load.buf = 0 /\ load.stk = 0 /\ ImageOK
  /\ load.pc \in {"create", "activate", "record"} =>
       /\ load.fd = -1 /\ load.buf = 0 /\ ImageOK /\ load.stk \in Block /\ load.stk # load.img
       /\ load.mod \in Mod /\ ~mods[load.mod].used
  /\ load.pc \in {"activate", "record"} =>
       /\ load.id \in Task \ {SHELL}
       /\ app[load.id].st # "NOEXS" => app[load.id].img = load.img /\ app[load.id].stk = load.stk

ModType == [used : BOOLEAN, tskid : Task \union {0}, img : Block \union {0, Window}, stk : Block \union {0}]
SlotsOK ==
  /\ mods \in [Mod -> ModType]
  /\ \A m \in Used : /\ mods[m].img \in Block \union {Window} /\ mods[m].stk \in Block
                     /\ mods[m].img # mods[m].stk /\ mods[m].tskid \in Task \ {SHELL}
  /\ \A m, n \in Used : m # n => Memory(m) \intersect Memory(n) = {}

AppType == [st : {"NOEXS", "DMT", "RDY", "RUN"}, img : Block \union {0, Window}, stk : Block \union {0}]
InSlot(t) == \E m \in Used : mods[m].tskid = t /\ mods[m].img = app[t].img /\ mods[m].stk = app[t].stk
InLoad(t) == load.pc \in {"activate", "record"} /\ load.id = t
AppOK ==
  /\ app \in [Task -> AppType] /\ app[SHELL].st = "RUN"
  /\ \A t \in Task \ {SHELL} : app[t].st # "NOEXS" => InSlot(t) \/ InLoad(t)

LoaderInv == HeapOK /\ LoadOK /\ SlotsOK /\ AppOK
(* The descriptors of the shell's calls.                                   *)
Others == {d \in Fd : fds[d].used} \ {load.fd}

(* Numbers that stand for null or an error are none of the others.         *)
LEMMA ShellIs == SHELL \in Task /\ -1 \notin Fd /\ -1 \notin Block /\ Mod \subseteq Nat /\ 0 \notin Mod
BY FilesAssumption, BlocksAre DEF Task, Fd, Mod

(* A task's state and the slots may change while the loader's part stays.  *)
LEMMA SlotsSame ==
  ASSUME SlotsOK, UNCHANGED mods
  PROVE  SlotsOK' /\ Used' = Used /\ Slots' = Slots /\ \A m : Memory(m)' = Memory(m)
BY DEF SlotsOK, Used, Slots, Memory

(* Tasks keep what they have while slots do and the loader's call goes on. *)
LEMMA AppSame ==
  ASSUME AppOK, UNCHANGED <<app, mods>>, \A t \in Task : InLoad(t) => InLoad(t)'
  PROVE  AppOK'
BY DEF AppOK, InSlot, Used

(* A step that leaves the descriptors leaves what they hold.               *)
LEMMA FdsSame ==
  ASSUME HeapOK, UNCHANGED fds PROVE FdsOK' /\ Files' = Files
BY DEF HeapOK, FdsOK, Files

(* A call of the loader that holds nothing has its type.                   *)
LEMMA NewLoadIs ==
  ASSUME NEW pc \in LoadPc, NEW path \in Args, NEW tid \in Task \union {0}, NEW rc \in Int \union Task
  PROVE  NewLoad(pc, path, tid, rc) \in LoadType
BY DEF NewLoad, LoadType

(* elf_run gives up, and everything it held is free again.                 *)
LEMMA Gone ==
  ASSUME LoadOK, NEW rc \in Int \union Task, Returns(rc)
  PROVE  LoadOK' /\ Loading' = {} /\ load'.fd = -1 /\ load'.pc = "done"
<1>1. load' = [pc |-> "done", path |-> "", tid |-> 0, fd |-> -1, buf |-> 0, img |-> 0,
               owned |-> FALSE, stk |-> 0, mod |-> 0, id |-> 0, rc |-> rc]
  BY DEF Returns, NewLoad
<1>2. load' \in LoadType
  <2>1. "" \in Args /\ "done" \in LoadPc
    BY DEF Args, LoadPc
  <2> QED BY <1>1, <2>1 DEF LoadType
<1>3. Loading' = {}
  BY <1>1 DEF Loading, Held
<1> QED BY <1>1, <1>2, <1>3 DEF LoadOK

(* load_file opens, or gives up at once.                                   *)
LEMMA OpenStep ==
  ASSUME LoaderInv, load_open PROVE LoaderInv' /\ Others' = Others /\ wild' = wild
<1>1. HeapOK /\ LoadOK /\ SlotsOK /\ AppOK /\ load.pc = "open" /\ UNCHANGED <<mods, app>>
  BY DEF LoaderInv, load_open, At
<1>2. /\ load \in LoadType /\ load.fd = -1 /\ load.buf = 0 /\ ~load.owned /\ load.stk = 0
      /\ Loading = {} /\ \A t : ~InLoad(t)
  BY <1>1 DEF LoadOK, Loading, Held, InLoad
<1>3. SlotsOK' /\ Slots' = Slots
  BY <1>1, SlotsSame
<1>4. AppOK'
  BY <1>1, <1>2, AppSame
<1>5. CASE Opens(load.path) /\ load' = [load EXCEPT !.pc = "read", !.fd = NewFd]
  <2>1. PICK d \in Fd : d = NewFd
    BY <1>1, <1>5, OpensIs
  <2>2. /\ ~fds[d].used /\ FdsOK' /\ wild' = wild
        /\ {e \in Fd : fds'[e].used} = {e \in Fd : fds[e].used} \union {d}
    BY <1>1, <1>5, <2>1, OpensIs
  <2>3. PICK B \in SUBSET Block : B \intersect heap = {} /\ heap' = heap \union B /\ Files' = Files \union B
    BY <1>1, <1>5, OpensIs
  <2>4. /\ load' \in LoadType /\ load'.pc = "read" /\ load'.fd = d /\ load'.buf = 0 /\ ~load'.owned /\ load'.stk = 0
    BY <1>2, <1>5, <2>1 DEF LoadType, LoadPc
  <2>5. LoadOK'
    BY <2>1, <2>2, <2>4 DEF LoadOK
  <2>6. Loading' = {}
    BY <2>4 DEF Loading, Held
  <2>7. HeapOK'
    BY <1>1, <1>2, <1>3, <2>2, <2>3, <2>6 DEF HeapOK
  <2>8. Others' = Others
    BY <1>2, <2>2, <2>4, ShellIs DEF Others
  <2> QED BY <1>3, <1>4, <2>2, <2>5, <2>7, <2>8 DEF LoaderInv
<1>6. CASE Returns(-1) /\ UNCHANGED <<heap, wild, fds>>
  <2>1. LoadOK' /\ Loading' = {} /\ load'.fd = -1
    BY <1>1, <1>6, Gone
  <2>2. HeapOK'
    BY <1>1, <1>2, <1>3, <1>6, <2>1, FdsSame DEF HeapOK
  <2> QED BY <1>2, <1>3, <1>4, <1>6, <2>1, <2>2 DEF LoaderInv, Others
<1> QED BY <1>5, <1>6 DEF load_open

(* load_file reads and closes: the buffer is taken or given back.          *)
LEMMA ReadStep ==
  ASSUME LoaderInv, load_read PROVE LoaderInv' /\ Others' = Others /\ wild' = wild
<1>1. HeapOK /\ LoadOK /\ SlotsOK /\ AppOK /\ load.pc = "read" /\ UNCHANGED <<mods, app>>
  BY DEF LoaderInv, load_read, At
<1>2. /\ load \in LoadType /\ load.buf = 0 /\ ~load.owned /\ load.stk = 0
      /\ Loading = {} /\ \A t : ~InLoad(t)
  BY <1>1 DEF LoadOK, Loading, Held, InLoad
<1>3. SlotsOK' /\ Slots' = Slots
  BY <1>1, SlotsSame
<1>4. AppOK'
  BY <1>1, <1>2, AppSame
<1>5. PICK d \in Fd : d = load.fd /\ fds[d].used
  BY <1>1 DEF LoadOK
<1>6. fds' = [fds EXCEPT ![d] = FreeFd]
  BY <1>5 DEF load_read, ClosesAndFrees
<1>7. PICK B : B = fds[d].blks
  OBVIOUS
<1>8. /\ FdsOK' /\ B \subseteq heap /\ Files' = Files \ B
      /\ {e \in Fd : fds'[e].used} = {e \in Fd : fds[e].used} \ {d}
  BY <1>1, <1>6, <1>7, ClosesIs
<1>9. B \subseteq Files
  BY <1>7 DEF Files
<1>10. CASE /\ HasRoom(heap, 1) /\ heap' = (heap \union {malloc(heap)}) \ fds[load.fd].blks
            /\ load' = [load EXCEPT !.pc = "image", !.fd = -1, !.buf = malloc(heap)]
            /\ UNCHANGED wild
  <2>1. PICK b \in Block : b = malloc(heap) /\ b \notin heap
    BY <1>10, MallocIs
  <2>2. /\ load' \in LoadType /\ load'.pc = "image" /\ load'.fd = -1 /\ load'.buf = b /\ ~load'.owned /\ load'.stk = 0
    BY <1>2, <1>10, <2>1 DEF LoadType, LoadPc
  <2>3. LoadOK'
    BY <2>2 DEF LoadOK
  <2>4. Loading' = {b}
    BY <2>1, <2>2, BlocksAre DEF Loading, Held
  <2>5. heap' = (heap \union {b}) \ B
    BY <1>5, <1>7, <1>10, <2>1
  <2>6. HeapOK'
    BY <1>1, <1>2, <1>3, <1>8, <1>9, <2>1, <2>4, <2>5 DEF HeapOK
  <2>7. Others' = Others
    BY <1>5, <1>8, <2>2, ShellIs DEF Others
  <2> QED BY <1>3, <1>4, <1>10, <2>3, <2>6, <2>7 DEF LoaderInv
<1>11. CASE Returns(-1) /\ ClosesAndFrees(load.fd, {})
  <2>1. LoadOK' /\ Loading' = {} /\ load'.fd = -1
    BY <1>1, <1>11, Gone
  <2>2. heap' = heap \ B /\ wild' = wild
    BY <1>5, <1>7, <1>8, <1>11 DEF ClosesAndFrees, Frees
  <2>3. HeapOK'
    BY <1>1, <1>2, <1>3, <1>8, <1>9, <2>1, <2>2 DEF HeapOK
  <2>4. Others' = Others
    BY <1>5, <1>8, <2>1, ShellIs DEF Others
  <2> QED BY <1>3, <1>4, <2>1, <2>2, <2>3, <2>4 DEF LoaderInv
<1> QED BY <1>10, <1>11 DEF load_read

(* A free of what is allocated frees no more.                              *)
LEMMA FreesIs == ASSUME NEW S, S \subseteq heap, Frees(S) PROVE heap' = heap \ S /\ wild' = wild
BY DEF Frees

(* elf_load: the image goes into the heap or the window, the buffer goes.  *)
LEMMA ImageStep ==
  ASSUME LoaderInv, load_image PROVE LoaderInv' /\ Others' = Others /\ wild' = wild
<1>1. HeapOK /\ LoadOK /\ SlotsOK /\ AppOK /\ load.pc = "image" /\ UNCHANGED <<fds, mods, app>>
  BY DEF LoaderInv, load_image, At
<1>2. /\ load \in LoadType /\ load.fd = -1 /\ load.buf \in Block /\ ~load.owned /\ load.stk = 0
      /\ \A t : ~InLoad(t)
  BY <1>1 DEF LoadOK, InLoad
<1>3. PICK f \in Block : f = load.buf
  BY <1>2
<1>4. Loading = {f}
  BY <1>2, <1>3, BlocksAre DEF Loading, Held
<1>5. SlotsOK' /\ Slots' = Slots /\ FdsOK' /\ Files' = Files
  BY <1>1, SlotsSame, FdsSame
<1>6. AppOK'
  BY <1>1, <1>2, AppSame
<1>7. f \in heap
  BY <1>1, <1>4 DEF HeapOK
<1>8. CASE /\ HasRoom(heap, 1) /\ heap' = (heap \union {malloc(heap)}) \ {load.buf} /\ wild' = wild
           /\ load' = [load EXCEPT !.pc = "slot", !.buf = 0, !.img = malloc(heap), !.owned = TRUE]
  <2>1. PICK b \in Block : b = malloc(heap) /\ b \notin heap
    BY <1>8, MallocIs
  <2>2. /\ load' \in LoadType /\ load'.pc = "slot" /\ load'.fd = -1 /\ load'.buf = 0 /\ load'.owned /\ load'.stk = 0
        /\ load'.img = b
    <3>1. load' = [pc |-> "slot", path |-> load.path, tid |-> load.tid, fd |-> load.fd, buf |-> 0, img |-> b,
                   owned |-> TRUE, stk |-> load.stk, mod |-> load.mod, id |-> load.id, rc |-> load.rc]
      BY <1>2, <1>8, <2>1 DEF LoadType
    <3> QED BY <1>2, <3>1 DEF LoadType, LoadPc
  <2>3. LoadOK'
    BY <2>2 DEF LoadOK, ImageOK
  <2>4. Loading' = {b}
    BY <2>1, <2>2, BlocksAre DEF Loading, Held
  <2>5. heap' = (heap \union {b}) \ {f}
    BY <1>3, <1>8, <2>1
  <2>6. HeapOK'
    BY <1>1, <1>4, <1>5, <1>7, <2>1, <2>4, <2>5 DEF HeapOK
  <2> QED BY <1>1, <1>2, <1>5, <1>6, <1>8, <2>2, <2>3, <2>6 DEF LoaderInv, Others
<1>9. CASE Frees({load.buf}) /\ load' = [load EXCEPT !.pc = "slot", !.buf = 0, !.img = Window, !.owned = FALSE]
  <2>1. heap' = heap \ {f} /\ wild' = wild
    BY <1>3, <1>7, <1>9, FreesIs
  <2>2. /\ load' \in LoadType /\ load'.pc = "slot" /\ load'.fd = -1 /\ load'.buf = 0 /\ ~load'.owned /\ load'.stk = 0
        /\ load'.img = Window
    BY <1>2, <1>9 DEF LoadType, LoadPc
  <2>3. LoadOK'
    BY <2>2 DEF LoadOK, ImageOK
  <2>4. Loading' = {}
    BY <2>2 DEF Loading, Held
  <2>5. HeapOK'
    BY <1>1, <1>4, <1>5, <2>1, <2>4 DEF HeapOK
  <2> QED BY <1>1, <1>2, <1>5, <1>6, <2>1, <2>2, <2>3, <2>5 DEF LoaderInv, Others
<1>10. CASE Frees({load.buf}) /\ Returns(-1)
  <2>1. heap' = heap \ {f} /\ wild' = wild
    BY <1>3, <1>7, <1>10, FreesIs
  <2>2. LoadOK' /\ Loading' = {} /\ load'.fd = -1
    BY <1>1, <1>10, Gone
  <2>3. HeapOK'
    BY <1>1, <1>4, <1>5, <2>1, <2>2 DEF HeapOK
  <2> QED BY <1>1, <1>2, <1>5, <1>6, <2>1, <2>2, <2>3 DEF LoaderInv, Others
<1> QED BY <1>8, <1>9, <1>10 DEF load_image

(* What elf_run holds is allocated.                                        *)
LEMMA HeldIs == ASSUME LoaderInv PROVE Held \subseteq heap
<1>1. LoadOK /\ HeapOK
  BY DEF LoaderInv
<1>2. load.owned => load.img \in Block
  BY <1>1, BlocksAre DEF LoadOK, ImageOK, LoadType, LoadPc
<1>3. 0 \notin Held
  BY <1>2, BlocksAre DEF Held
<1>4. Held \subseteq Loading
  BY <1>3 DEF Loading
<1> QED BY <1>1, <1>4 DEF HeapOK

(* elf_run finds a slot and allocates the stack, or gives up.              *)
LEMMA AllocStep ==
  ASSUME LoaderInv, run_alloc PROVE LoaderInv' /\ Others' = Others /\ wild' = wild
<1>1. HeapOK /\ LoadOK /\ SlotsOK /\ AppOK /\ load.pc = "slot" /\ UNCHANGED <<fds, mods, app>>
  BY DEF LoaderInv, run_alloc, At
<1>2. /\ load \in LoadType /\ load.fd = -1 /\ load.buf = 0 /\ ImageOK /\ load.stk = 0
      /\ \A t : ~InLoad(t)
  BY <1>1 DEF LoadOK, InLoad
<1>3. SlotsOK' /\ Slots' = Slots /\ FdsOK' /\ Files' = Files
  BY <1>1, SlotsSame, FdsSame
<1>4. AppOK'
  BY <1>1, <1>2, AppSame
<1>5. Loading = Held
  BY <1>2, BlocksAre DEF Loading, Held, ImageOK
<1>6. CASE \E m \in mod_alloc :
             /\ HasRoom(heap, 1) /\ heap' = heap \union {malloc(heap)} /\ wild' = wild
             /\ load' = [load EXCEPT !.pc = "create", !.mod = m, !.stk = malloc(heap)]
  <2>1. PICK m \in mod_alloc :
             /\ HasRoom(heap, 1) /\ heap' = heap \union {malloc(heap)} /\ wild' = wild
             /\ load' = [load EXCEPT !.pc = "create", !.mod = m, !.stk = malloc(heap)]
    BY <1>6
  <2>2. m \in Mod /\ ~mods[m].used
    BY DEF mod_alloc
  <2>3. PICK b \in Block : b = malloc(heap) /\ b \notin heap
    BY <2>1, MallocIs
  <2>4. /\ load' \in LoadType /\ load'.pc = "create" /\ load'.fd = -1 /\ load'.buf = 0 /\ load'.stk = b
        /\ load'.mod = m /\ load'.img = load.img /\ load'.owned = load.owned
    BY <1>2, <2>1, <2>2, <2>3 DEF LoadType, LoadPc
  <2>5. load.img # b
    <3>1. CASE load.owned
      BY <1>1, <1>5, <2>3, <3>1 DEF Held, HeapOK
    <3>2. CASE ~load.owned
      BY <1>2, <2>3, <3>2, BlocksAre DEF ImageOK
    <3> QED BY <3>1, <3>2
  <2>6. LoadOK'
    BY <1>1, <1>2, <2>2, <2>3, <2>4, <2>5 DEF LoadOK, ImageOK
  <2>7. Loading' = Loading \union {b}
    BY <1>2, <1>5, <2>3, <2>4, BlocksAre DEF Loading, Held, ImageOK
  <2>8. HeapOK'
    BY <1>1, <1>3, <2>1, <2>3, <2>7 DEF HeapOK
  <2> QED BY <1>1, <1>2, <1>3, <1>4, <2>1, <2>4, <2>6, <2>8 DEF LoaderInv, Others
<1>7. CASE Frees(Held) /\ Returns(-1)
  <2>1. heap' = heap \ Held /\ wild' = wild
    BY <1>7, HeldIs, FreesIs
  <2>2. LoadOK' /\ Loading' = {} /\ load'.fd = -1
    BY <1>1, <1>7, Gone
  <2>3. HeapOK'
    BY <1>1, <1>3, <1>5, <2>1, <2>2 DEF HeapOK
  <2> QED BY <1>1, <1>2, <1>3, <1>4, <2>1, <2>2, <2>3 DEF LoaderInv, Others
<1> QED BY <1>6, <1>7 DEF run_alloc

(* What elf_run holds from the creation on.                                *)
LEMMA LateIs ==
  ASSUME LoaderInv, load.pc \in {"create", "activate", "record"}
  PROVE  /\ load \in LoadType /\ load.fd = -1 /\ load.buf = 0 /\ ImageOK /\ load.stk \in Block /\ load.stk # load.img
         /\ load.mod \in Mod /\ ~mods[load.mod].used /\ Loading = Held /\ Held = {load.img, load.stk} \ {Window}
<1>1. /\ load \in LoadType /\ load.fd = -1 /\ load.buf = 0 /\ ImageOK /\ load.stk \in Block /\ load.stk # load.img
      /\ load.mod \in Mod /\ ~mods[load.mod].used
  BY DEF LoaderInv, LoadOK
<1>2. load.stk # 0 /\ load.stk # Window
  BY <1>1, BlocksAre
<1>3. Held = {load.img, load.stk} \ {Window}
  <2>1. CASE load.owned
    BY <1>1, <1>2, <2>1, BlocksAre DEF Held, ImageOK
  <2>2. CASE ~load.owned
    BY <1>1, <1>2, <2>2 DEF Held, ImageOK
  <2> QED BY <2>1, <2>2
<1>4. 0 \notin Held
  BY <1>1, <1>2, <1>3, BlocksAre DEF ImageOK
<1>5. Loading = Held
  BY <1>1, <1>4 DEF Loading
<1> QED BY <1>1, <1>3, <1>5

(* elf_run gives up with an image and a stack.                             *)
LEMMA GiveUp ==
  ASSUME LoaderInv, load.pc \in {"create", "activate"}, Frees(Held), Returns(-1), UNCHANGED <<fds, mods, app>>,
         \A t \in Task : InLoad(t) => app[t].st = "NOEXS"
  PROVE  LoaderInv' /\ Others' = Others /\ wild' = wild
<1>1. HeapOK /\ LoadOK /\ SlotsOK /\ AppOK
  BY DEF LoaderInv
<1>2. Loading = Held /\ load.fd = -1
  BY LateIs
<1>3. SlotsOK' /\ Slots' = Slots /\ FdsOK' /\ Files' = Files
  BY <1>1, SlotsSame, FdsSame
<1>4. heap' = heap \ Held /\ wild' = wild
  BY HeldIs, FreesIs
<1>5. LoadOK' /\ Loading' = {} /\ load'.fd = -1
  BY <1>1, Gone
<1>6. HeapOK'
  BY <1>1, <1>2, <1>3, <1>4, <1>5 DEF HeapOK
<1>7. AppOK'
  BY <1>1 DEF AppOK, InSlot, Used
<1> QED BY <1>2, <1>3, <1>4, <1>5, <1>6, <1>7 DEF LoaderInv, Others

Ids(tid) == IF tid = 0 THEN ReservedTask ELSE {tid}
(* An ID that cre_tsk returns was no task's before.                        *)
LEMMA NewIdIs ==
  ASSUME NEW tid \in Task \union {0}, NEW t \in NewId(tid), AppOK
  PROVE  t \in Task \ {SHELL} /\ app[t].st = "NOEXS" /\ t \in Ids(tid)
<1>1. t \in Ids(tid) /\ app[t].st = "NOEXS"
  BY DEF NewId, Ids
<1>2. t \in Task
  BY <1>1 DEF Ids, Task
<1> QED BY <1>1, <1>2 DEF AppOK

(* elf_run creates the task, or gives up.                                  *)
LEMMA CreateStep ==
  ASSUME LoaderInv, run_create PROVE LoaderInv' /\ Others' = Others /\ wild' = wild
<1>1. HeapOK /\ LoadOK /\ SlotsOK /\ AppOK /\ load.pc = "create" /\ UNCHANGED <<fds, mods>>
  BY DEF LoaderInv, run_create, At
<1>2. /\ load \in LoadType /\ load.fd = -1 /\ load.buf = 0 /\ ImageOK /\ load.stk \in Block /\ load.stk # load.img
      /\ load.mod \in Mod /\ ~mods[load.mod].used
  BY <1>1, LateIs
<1>3. SlotsOK' /\ Slots' = Slots /\ FdsOK' /\ Files' = Files /\ Used' = Used
  BY <1>1, SlotsSame, FdsSame
<1>4. \A t : ~InLoad(t)
  BY <1>1 DEF InLoad
<1>5. CASE NewId(load.tid) = {}
  <2>1. Frees(Held) /\ Returns(-1) /\ UNCHANGED app
    BY <1>5 DEF run_create
  <2> QED BY <1>1, <1>4, <2>1, GiveUp
<1>6. CASE NewId(load.tid) # {}
  <2>1. PICK t \in NewId(load.tid) :
            /\ app' = [app EXCEPT ![t] = [st |-> "DMT", img |-> load.img, stk |-> load.stk]]
            /\ load' = [load EXCEPT !.pc = "activate", !.id = t]
            /\ UNCHANGED <<heap, wild>>
    BY <1>6 DEF run_create
  <2>2. load.tid \in Task \union {0}
    BY <1>2 DEF LoadType
  <2>3. t \in Task \ {SHELL} /\ app[t].st = "NOEXS"
    BY <1>1, <2>2, NewIdIs
  <2>4. /\ load' \in LoadType /\ load'.pc = "activate" /\ load'.id = t /\ load'.fd = -1 /\ load'.buf = 0
        /\ load'.img = load.img /\ load'.owned = load.owned /\ load'.stk = load.stk /\ load'.mod = load.mod
    BY <1>2, <2>1, <2>3 DEF LoadType, LoadPc
  <2>5. /\ app \in [Task -> AppType] /\ app' \in [Task -> AppType]
        /\ app'[t] = [st |-> "DMT", img |-> load.img, stk |-> load.stk]
        /\ \A u \in Task : u # t => app'[u] = app[u]
    <3>1. [st |-> "DMT", img |-> load.img, stk |-> load.stk] \in AppType
      BY <1>2 DEF AppType, LoadType
    <3>2. app \in [Task -> AppType]
      BY <1>1 DEF AppOK
    <3> QED BY <2>1, <2>3, <3>1, <3>2
  <2>6. LoadOK'
    BY <1>1, <1>2, <2>3, <2>4, <2>5 DEF LoadOK, ImageOK
  <2>7. AppOK'
    <3>1. app'[SHELL].st = "RUN"
      BY <1>1, <2>3, <2>5, ShellIs DEF AppOK
    <3>2. ASSUME NEW u \in Task \ {SHELL}, app'[u].st # "NOEXS" PROVE InSlot(u)' \/ InLoad(u)'
      <4>1. CASE u = t
        BY <2>4, <4>1 DEF InLoad
      <4>2. CASE u # t
        BY <1>1, <1>3, <1>4, <2>5, <3>2, <4>2 DEF AppOK, InSlot
      <4> QED BY <4>1, <4>2
    <3> QED BY <2>5, <3>1, <3>2 DEF AppOK
  <2>8. Loading' = Loading
    <3>1. load'.buf = load.buf
      BY <1>2, <2>4
    <3>2. Held' = Held
      BY <2>4, Zenon DEF Held
    <3> QED BY <3>1, <3>2 DEF Loading
  <2>9. HeapOK'
    BY <1>1, <1>3, <2>1, <2>8 DEF HeapOK
  <2> QED BY <1>1, <1>2, <1>3, <2>1, <2>4, <2>6, <2>7, <2>9 DEF LoaderInv, Others
<1> QED BY <1>5, <1>6

(* elf_run activates it; the task may run from here.                       *)
LEMMA ActivateStep ==
  ASSUME LoaderInv, run_activate PROVE LoaderInv' /\ Others' = Others /\ wild' = wild
<1>1. HeapOK /\ LoadOK /\ SlotsOK /\ AppOK /\ load.pc = "activate" /\ UNCHANGED <<fds, mods>>
  BY DEF LoaderInv, run_activate, At
<1>2. /\ load \in LoadType /\ load.fd = -1 /\ load.buf = 0 /\ ImageOK /\ load.stk \in Block /\ load.stk # load.img
      /\ load.mod \in Mod /\ ~mods[load.mod].used
  BY <1>1, LateIs
<1>3. /\ load.id \in Task \ {SHELL}
      /\ app[load.id].st # "NOEXS" => app[load.id].img = load.img /\ app[load.id].stk = load.stk
  BY <1>1 DEF LoadOK
<1>4. SlotsOK' /\ Slots' = Slots /\ FdsOK' /\ Files' = Files /\ Used' = Used
  BY <1>1, SlotsSame, FdsSame
<1>5. CASE app[load.id].st = "NOEXS"
  <2>1. Frees(Held) /\ Returns(-1) /\ UNCHANGED app
    BY <1>5 DEF run_activate
  <2>2. \A t \in Task : InLoad(t) => app[t].st = "NOEXS"
    BY <1>5 DEF InLoad
  <2> QED BY <1>1, <2>1, <2>2, GiveUp
<1>6. CASE app[load.id].st # "NOEXS"
  <2>1. app' = [app EXCEPT ![load.id].st = "RDY"] /\ load' = [load EXCEPT !.pc = "record"] /\ UNCHANGED <<heap, wild>>
    BY <1>6 DEF run_activate, Goes
  <2>2. /\ load' \in LoadType /\ load'.pc = "record" /\ load'.id = load.id /\ load'.fd = -1 /\ load'.buf = 0
        /\ load'.img = load.img /\ load'.owned = load.owned /\ load'.stk = load.stk /\ load'.mod = load.mod
    BY <1>2, <2>1 DEF LoadType, LoadPc
  <2>3. PICK t \in Task \ {SHELL} : t = load.id
    BY <1>3
  <2>4. app \in [Task -> AppType] /\ app[t] \in AppType
    BY <1>1, <2>3 DEF AppOK
  <2>5. /\ app' \in [Task -> AppType] /\ app'[t].st = "RDY" /\ app'[t].img = app[t].img /\ app'[t].stk = app[t].stk
        /\ \A u \in Task : u # t => app'[u] = app[u]
    BY <2>1, <2>3, <2>4 DEF AppType
  <2>6. LoadOK'
    BY <1>1, <1>2, <1>3, <1>6, <2>2, <2>3, <2>5 DEF LoadOK, ImageOK
  <2>7. AppOK'
    <3>1. app'[SHELL].st = "RUN"
      BY <1>1, <2>3, <2>5, ShellIs DEF AppOK
    <3>2. ASSUME NEW u \in Task \ {SHELL}, app'[u].st # "NOEXS" PROVE InSlot(u)' \/ InLoad(u)'
      <4>1. CASE u = t
        BY <2>2, <2>3, <4>1 DEF InLoad
      <4>2. CASE u # t
        BY <1>1, <1>4, <2>3, <2>5, <3>2, <4>2 DEF AppOK, InSlot, InLoad
      <4> QED BY <4>1, <4>2
    <3> QED BY <2>5, <3>1, <3>2 DEF AppOK
  <2>8. Loading' = Loading
    <3>1. load'.buf = load.buf
      BY <1>2, <2>2
    <3>2. Held' = Held
      BY <2>2, Zenon DEF Held
    <3> QED BY <3>1, <3>2 DEF Loading
  <2>9. HeapOK'
    BY <1>1, <1>4, <2>1, <2>8 DEF HeapOK
  <2> QED BY <1>1, <1>2, <1>4, <2>1, <2>2, <2>6, <2>7, <2>9 DEF LoaderInv, Others
<1> QED BY <1>5, <1>6

(* elf_run fills its slot, which owns image and stack from here.           *)
LEMMA RecordStep ==
  ASSUME LoaderInv, run_record PROVE LoaderInv' /\ Others' = Others /\ wild' = wild
<1>1. HeapOK /\ LoadOK /\ SlotsOK /\ AppOK /\ load.pc = "record" /\ UNCHANGED <<heap, wild, fds, app>>
  BY DEF LoaderInv, run_record, At
<1>2. /\ load \in LoadType /\ load.fd = -1 /\ load.buf = 0 /\ ImageOK /\ load.stk \in Block /\ load.stk # load.img
      /\ load.mod \in Mod /\ ~mods[load.mod].used /\ Loading = Held /\ Held = {load.img, load.stk} \ {Window}
  BY <1>1, LateIs
<1>3. /\ load.id \in Task \ {SHELL}
      /\ app[load.id].st # "NOEXS" => app[load.id].img = load.img /\ app[load.id].stk = load.stk
  BY <1>1 DEF LoadOK
<1>4. FdsOK' /\ Files' = Files
  BY <1>1, FdsSame
<1>5. LoadOK' /\ Loading' = {} /\ load'.fd = -1 /\ load'.pc = "done"
  BY <1>1, <1>3, Gone DEF run_record
<1>6. PICK m \in Mod : m = load.mod /\ ~mods[m].used
  BY <1>2
<1>7. PICK r \in ModType : r = [used |-> TRUE, tskid |-> load.id, img |-> load.img, stk |-> load.stk]
  BY <1>2, <1>3 DEF ModType, LoadType
<1>8. mods \in [Mod -> ModType] /\ mods' = [mods EXCEPT ![m] = r]
  BY <1>1, <1>6, <1>7 DEF run_record, SlotsOK
<1>9. mods' \in [Mod -> ModType] /\ mods'[m] = r /\ \A n \in Mod : n # m => mods'[n] = mods[n]
  BY <1>6, <1>8
<1>10. r.used /\ r.tskid = load.id /\ r.img = load.img /\ r.stk = load.stk
  BY <1>7
<1>11. Used' = Used \union {m} /\ m \notin Used
  BY <1>6, <1>9, <1>10 DEF Used
<1>12. /\ Memory(m)' = Held /\ \A n \in Used : Memory(n)' = Memory(n)
  BY <1>2, <1>9, <1>10, <1>11 DEF Memory, Used
<1>13. Slots' = Slots \union Held
  BY <1>11, <1>12 DEF Slots
<1>14. \A n \in Used : Memory(n) \subseteq Slots
  BY DEF Slots
<1>15. Slots \intersect Held = {}
  BY <1>1, <1>2 DEF HeapOK
<1>16. SlotsOK'
  <2>1. ASSUME NEW n \in Used'
        PROVE  /\ mods'[n].img \in Block \union {Window} /\ mods'[n].stk \in Block
               /\ mods'[n].img # mods'[n].stk /\ mods'[n].tskid \in Task \ {SHELL}
    <3>1. CASE n = m
      BY <1>2, <1>3, <1>9, <1>10, <3>1 DEF ImageOK
    <3>2. CASE n \in Used
      <4>1. mods'[n] = mods[n]
        BY <1>9, <1>11, <3>2 DEF Used
      <4> QED BY <1>1, <3>2, <4>1 DEF SlotsOK
    <3> QED BY <1>11, <3>1, <3>2
  <2>2. ASSUME NEW n \in Used', NEW o \in Used', n # o PROVE Memory(n)' \intersect Memory(o)' = {}
    <3>1. CASE n \in Used /\ o \in Used
      BY <1>1, <1>12, <2>2, <3>1 DEF SlotsOK
    <3>2. CASE n = m /\ o \in Used
      BY <1>12, <1>14, <1>15, <3>2
    <3>3. CASE n \in Used /\ o = m
      BY <1>12, <1>14, <1>15, <3>3
    <3> QED BY <1>11, <2>2, <3>1, <3>2, <3>3
  <2> QED BY <1>9, <2>1, <2>2 DEF SlotsOK
<1>17. AppOK'
  <2>1. ASSUME NEW t \in Task \ {SHELL}, app[t].st # "NOEXS" PROVE InSlot(t)'
    <3>1. CASE t = load.id
      BY <1>1, <1>3, <1>6, <1>9, <1>10, <1>11, <2>1, <3>1 DEF InSlot
    <3>2. CASE t # load.id
      <4>1. PICK n \in Used : mods[n].tskid = t /\ mods[n].img = app[t].img /\ mods[n].stk = app[t].stk
        BY <1>1, <2>1, <3>2 DEF AppOK, InSlot, InLoad
      <4>2. n \in Used' /\ mods'[n] = mods[n]
        BY <1>9, <1>11, <4>1 DEF Used
      <4> QED BY <1>1, <4>1, <4>2 DEF InSlot
    <3> QED BY <3>1, <3>2
  <2> QED BY <1>1, <2>1 DEF AppOK
<1>18. HeapOK'
  BY <1>1, <1>2, <1>4, <1>5, <1>13 DEF HeapOK
<1> QED BY <1>1, <1>2, <1>5, <1>16, <1>17, <1>18 DEF LoaderInv, Others

(* Every step of elf_run.                                                  *)
LEMMA LoaderKeeps ==
  ASSUME LoaderInv, LoaderStep PROVE LoaderInv' /\ Others' = Others /\ wild' = wild
BY OpenStep, ReadStep, ImageStep, AllocStep, CreateStep, ActivateStep, RecordStep DEF LoaderStep

(* elf_kill frees what the slot has; the window is not in the heap.        *)
LEMMA KillStep ==
  ASSUME LoaderInv, load.pc = "idle", NEW tid, elf_kill(tid)
  PROVE  /\ LoaderInv' /\ Others' = Others
         /\ \E m \in Used : /\ mods[m].tskid = tid /\ (mods[m].img # Window => wild' = wild)
                            /\ Used' = Used \ {m} /\ \A n \in Used \ {m} : mods'[n] = mods[n]
<1>1. HeapOK /\ LoadOK /\ SlotsOK /\ AppOK /\ UNCHANGED <<fds, load>>
  BY DEF LoaderInv, elf_kill
<1>2. PICK m \in mod_find(tid) :
        /\ app' = [app EXCEPT ![tid] = NoTask]
        /\ Frees({mods[m].img, mods[m].stk})
        /\ mods' = [mods EXCEPT ![m] = FreeMod]
  BY DEF elf_kill
<1>3. m \in Used /\ mods[m].tskid = tid /\ m \in Mod
  BY <1>2 DEF mod_find, Used
<1>4. /\ mods[m].img \in Block \union {Window} /\ mods[m].stk \in Block
      /\ mods[m].img # mods[m].stk /\ tid \in Task \ {SHELL}
  BY <1>1, <1>3 DEF SlotsOK
<1>5. Memory(m) \subseteq Slots /\ Slots \subseteq heap
  BY <1>1, <1>3 DEF Slots, HeapOK
<1>6. heap' = heap \ Memory(m) /\ (mods[m].img # Window => wild' = wild)
  <2>1. Window \notin heap
    BY <1>1, BlocksAre DEF HeapOK
  <2>2. PICK S : S = {mods[m].img, mods[m].stk} /\ heap' = heap \ S /\ wild' = wild \union (S \ heap)
    BY <1>2 DEF Frees
  <2>3. Memory(m) = S \ {Window}
    BY <2>2 DEF Memory
  <2>4. heap' = heap \ Memory(m)
    BY <2>1, <2>2, <2>3
  <2>5. ASSUME mods[m].img # Window PROVE wild' = wild
    <3>1. mods[m].stk # Window
      BY <1>4, BlocksAre
    <3>2. S \subseteq heap
      BY <1>5, <2>2, <2>3, <2>5, <3>1
    <3> QED BY <2>2, <3>2
  <2> QED BY <2>4, <2>5
<1>7. mods \in [Mod -> ModType] /\ FreeMod \in ModType
  BY <1>1 DEF SlotsOK, FreeMod, ModType
<1>8. /\ mods' \in [Mod -> ModType] /\ mods'[m] = FreeMod /\ \A n \in Mod : n # m => mods'[n] = mods[n]
  BY <1>2, <1>3, <1>7
<1>9. Used' = Used \ {m} /\ \A n \in Used \ {m} : mods'[n] = mods[n] /\ Memory(n)' = Memory(n)
  BY <1>8 DEF Used, FreeMod, Memory
<1>10. \A n \in Used : n # m => Memory(n) \intersect Memory(m) = {}
  BY <1>1, <1>3 DEF SlotsOK
<1>11. Slots' = Slots \ Memory(m)
  BY <1>3, <1>9, <1>10 DEF Slots
<1>12. SlotsOK'
  BY <1>1, <1>8, <1>9 DEF SlotsOK
<1>13. FdsOK' /\ Files' = Files /\ Loading' = Loading
  BY <1>1, FdsSame DEF Loading, Held
<1>14. HeapOK'
  BY <1>1, <1>5, <1>6, <1>11, <1>13 DEF HeapOK
<1>15. app \in [Task -> AppType] /\ NoTask \in AppType
  BY <1>1 DEF AppOK, NoTask, AppType
<1>16. /\ app' \in [Task -> AppType] /\ app'[tid].st = "NOEXS" /\ \A t \in Task : t # tid => app'[t] = app[t]
  BY <1>2, <1>4, <1>15 DEF NoTask
<1>17. AppOK'
  <2>1. app'[SHELL].st = "RUN"
    BY <1>1, <1>4, <1>16, ShellIs DEF AppOK
  <2>2. ASSUME NEW t \in Task \ {SHELL}, app'[t].st # "NOEXS" PROVE InSlot(t)'
    <3>1. t # tid /\ app'[t] = app[t]
      BY <1>16, <2>2
    <3>2. PICK n \in Used : mods[n].tskid = t /\ mods[n].img = app[t].img /\ mods[n].stk = app[t].stk
      BY <1>1, <2>2, <3>1 DEF AppOK, InSlot, InLoad
    <3>3. n # m
      BY <1>3, <3>1, <3>2
    <3> QED BY <1>9, <3>1, <3>2, <3>3 DEF InSlot
  <2> QED BY <1>16, <2>1, <2>2 DEF AppOK
<1>18. LoadOK'
  BY <1>1 DEF LoadOK, LoadPc
<1>19. Others' = Others
  BY <1>1 DEF Others
<1> QED BY <1>3, <1>6, <1>9, <1>12, <1>14, <1>17, <1>18, <1>19 DEF LoaderInv

(* A program ends, or is deleted.                                          *)
LEMMA EndsStep ==
  ASSUME LoaderInv, NEW t \in Task, AppReturns(t) \/ AppDeleted(t)
  PROVE  LoaderInv' /\ Others' = Others /\ wild' = wild
<1>1. HeapOK /\ LoadOK /\ SlotsOK /\ AppOK /\ UNCHANGED <<heap, wild, fds, mods, load>> /\ t # SHELL
      /\ app[t].st # "NOEXS"
  BY DEF LoaderInv, AppReturns, AppDeleted
<1>2. app \in [Task -> AppType] /\ app[t] \in AppType /\ NoTask \in AppType
  BY <1>1 DEF AppOK, NoTask, AppType
<1>3. /\ app' \in [Task -> AppType] /\ \A u \in Task : u # t => app'[u] = app[u]
      /\ app'[t].st # "NOEXS" => app'[t].img = app[t].img /\ app'[t].stk = app[t].stk
  BY <1>2 DEF AppReturns, AppDeleted, AppType, NoTask
<1>4. SlotsOK' /\ Slots' = Slots /\ FdsOK' /\ Files' = Files /\ Used' = Used /\ Loading' = Loading
  BY <1>1, SlotsSame, FdsSame DEF Loading, Held
<1>5. HeapOK'
  BY <1>1, <1>4 DEF HeapOK
<1>6. LoadOK'
  BY <1>1, <1>3 DEF LoadOK, ImageOK
<1>7. AppOK'
  <2>1. app'[SHELL].st = "RUN"
    BY <1>1, <1>3, ShellIs DEF AppOK
  <2>2. ASSUME NEW u \in Task \ {SHELL}, app'[u].st # "NOEXS" PROVE InSlot(u)' \/ InLoad(u)'
    BY <1>1, <1>3, <1>4, <2>2 DEF AppOK, InSlot, InLoad
  <2> QED BY <1>3, <2>1, <2>2 DEF AppOK
<1> QED BY <1>1, <1>4, <1>5, <1>6, <1>7 DEF LoaderInv, Others

(* elf_run begins, or its result is taken.                                 *)
LEMMA LoadIdles ==
  ASSUME LoaderInv, load.pc \in {"idle", "done"}, UNCHANGED <<files, mods, app>>,
         NEW pc \in {"idle", "open"}, NEW path \in Args, NEW tid \in Task \union {0},
         load' = NewLoad(pc, path, tid, 0)
  PROVE  LoaderInv' /\ Others' = Others /\ wild' = wild
<1>1. HeapOK /\ LoadOK /\ SlotsOK /\ AppOK /\ UNCHANGED <<heap, wild, fds>>
  BY DEF LoaderInv, files
<1>2. load' = [pc |-> pc, path |-> path, tid |-> tid, fd |-> -1, buf |-> 0, img |-> 0,
               owned |-> FALSE, stk |-> 0, mod |-> 0, id |-> 0, rc |-> 0]
  BY DEF NewLoad
<1>3. /\ load' \in LoadType /\ load.fd = -1 /\ load.buf = 0 /\ load.owned = FALSE /\ load.stk = 0
      /\ load'.fd = -1 /\ load'.buf = 0 /\ load'.owned = FALSE /\ load'.stk = 0 /\ load'.pc = pc
  <2>1. load' \in LoadType
    <3>1. pc \in LoadPc /\ 0 \in Int \union Task
      BY DEF LoadPc
    <3>2. NewLoad(pc, path, tid, 0) \in LoadType
      BY <3>1, NewLoadIs
    <3> QED BY <3>2
  <2>2. load.fd = -1 /\ load.buf = 0 /\ load.stk = 0 /\ load.owned = FALSE
    <3>1. load.owned \in BOOLEAN
      BY <1>1 DEF LoadOK, LoadType
    <3> QED BY <1>1, <3>1 DEF LoadOK
  <2>3. /\ load'.fd = -1 /\ load'.buf = 0 /\ load'.owned = FALSE /\ load'.stk = 0 /\ load'.pc = pc
    BY <1>2
  <2> QED BY <2>1, <2>2, <2>3
<1>4. Loading' = {} /\ Loading = {}
  BY <1>3 DEF Loading, Held
<1>5. SlotsOK' /\ Slots' = Slots /\ FdsOK' /\ Files' = Files
  BY <1>1, SlotsSame, FdsSame
<1>6. HeapOK'
  BY <1>1, <1>4, <1>5 DEF HeapOK
<1>7. LoadOK'
  <2>1. load'.pc \in {"idle", "open"}
    BY <1>3
  <2> QED BY <1>3, <2>1 DEF LoadOK
<1>8. AppOK'
  BY <1>1, AppSame DEF InLoad
<1> QED BY <1>1, <1>3, <1>5, <1>6, <1>7, <1>8 DEF LoaderInv, Others

------------------------------------------------------------------------------
(* What is loaded comes from a run of some segment; a program in the fixed *)
(* window has an ID that a run of a fixed image may give it.               *)
FixedIds == UNION {Ids(s.tid) : s \in {r \in Segments : r.cmd = "run" /\ Kind[r.arg] = "fixed"}}
FixedOK ==
  /\ load.pc \notin {"idle", "done"} => \E s \in Segments : s.cmd = "run" /\ s.arg = load.path /\ s.tid = load.tid
  /\ load.pc \in {"slot", "create", "activate", "record"} /\ load.img = Window => Kind[load.path] = "fixed"
  /\ load.pc \in {"activate", "record"} => load.id \in Ids(load.tid)
  /\ \A m \in Used : mods[m].img = Window => mods[m].tskid \in FixedIds

(* The same of a program in the fixed window.                              *)
LEMMA FixedKeeps ==
  ASSUME LoaderInv, FixedOK, LoaderStep PROVE FixedOK'
<1>1. load \in LoadType /\ SlotsOK /\ AppOK /\ LoadOK
  BY DEF LoaderInv, LoadOK
<1>2. ASSUME NEW rc \in Int \union Task, Returns(rc), UNCHANGED mods PROVE FixedOK'
  BY <1>2 DEF FixedOK, Returns, NewLoad, Used
<1>3. CASE load_open
  <2>1. CASE load' = [load EXCEPT !.pc = "read", !.fd = NewFd]
    BY <1>1, <1>3, <2>1 DEF load_open, At, FixedOK, LoadType, Used
  <2>2. CASE Returns(-1)
    BY <1>2, <1>3, <2>2 DEF load_open
  <2> QED BY <1>3, <2>1, <2>2 DEF load_open
<1>4. CASE load_read
  <2>1. CASE load' = [load EXCEPT !.pc = "image", !.fd = -1, !.buf = malloc(heap)]
    BY <1>1, <1>4, <2>1 DEF load_read, At, FixedOK, LoadType, Used
  <2>2. CASE Returns(-1)
    BY <1>2, <1>4, <2>2 DEF load_read
  <2> QED BY <1>4, <2>1, <2>2 DEF load_read
<1>5. CASE load_image
  <2>1. CASE HasRoom(heap, 1) /\ load' = [load EXCEPT !.pc = "slot", !.buf = 0, !.img = malloc(heap), !.owned = TRUE]
    <3>1. malloc(heap) # Window
      BY <2>1, MallocIs, BlocksAre
    <3> QED BY <1>1, <1>5, <2>1, <3>1 DEF load_image, At, FixedOK, LoadType, Used
  <2>2. CASE Kind[load.path] = "fixed" /\ load' = [load EXCEPT !.pc = "slot", !.buf = 0, !.img = Window, !.owned = FALSE]
    BY <1>1, <1>5, <2>2 DEF load_image, At, FixedOK, LoadType, Used
  <2>3. CASE Returns(-1)
    BY <1>2, <1>5, <2>3 DEF load_image
  <2> QED BY <1>5, <2>1, <2>2, <2>3 DEF load_image
<1>6. CASE run_alloc
  <2>1. load.pc = "slot" /\ UNCHANGED mods
    BY <1>6 DEF run_alloc, At
  <2>2. CASE \E m \in mod_alloc : load' = [load EXCEPT !.pc = "create", !.mod = m, !.stk = malloc(heap)]
    <3>1. PICK m : load' = [load EXCEPT !.pc = "create", !.mod = m, !.stk = malloc(heap)]
      BY <2>2
    <3> QED BY <1>1, <2>1, <3>1 DEF FixedOK, LoadType, Used
  <2>3. CASE Returns(-1)
    BY <1>2, <2>1, <2>3
  <2> QED BY <1>6, <2>2, <2>3 DEF run_alloc
<1>7. CASE run_create
  <2>1. CASE Returns(-1)
    <3>1. UNCHANGED mods
      BY <1>7 DEF run_create
    <3> QED BY <1>2, <2>1, <3>1
  <2>2. CASE \E t \in NewId(load.tid) : load' = [load EXCEPT !.pc = "activate", !.id = t]
    <3>1. PICK t \in NewId(load.tid) : load' = [load EXCEPT !.pc = "activate", !.id = t]
      BY <2>2
    <3>2. t \in Ids(load.tid)
      BY DEF NewId, Ids
    <3> QED BY <1>1, <1>7, <3>1, <3>2 DEF run_create, At, FixedOK, LoadType, Used
  <2> QED BY <1>7, <2>1, <2>2 DEF run_create
<1>8. CASE run_activate
  <2>1. CASE Returns(-1)
    BY <1>2, <1>8, <2>1 DEF run_activate
  <2>2. CASE load' = [load EXCEPT !.pc = "record"]
    BY <1>1, <1>8, <2>2 DEF run_activate, At, FixedOK, LoadType, Used
  <2> QED BY <1>8, <2>1, <2>2 DEF run_activate, Goes
<1>9. CASE run_record
  <2>1. /\ load.mod \in Mod /\ load.pc = "record" /\ load.id \in Ids(load.tid)
        /\ load.img = Window => Kind[load.path] = "fixed"
    BY <1>1, <1>9 DEF LoadOK, run_record, At, FixedOK
  <2>2. load.img = Window => load.id \in FixedIds
    <3>1. PICK s \in Segments : s.cmd = "run" /\ s.arg = load.path /\ s.tid = load.tid
      BY <2>1 DEF FixedOK
    <3> QED BY <2>1, <3>1 DEF FixedIds
  <2>3. PICK r : r = [used |-> TRUE, tskid |-> load.id, img |-> load.img, stk |-> load.stk]
    OBVIOUS
  <2>4. /\ mods'[load.mod] = r /\ \A n \in Mod : n # load.mod => mods'[n] = mods[n]
    BY <1>1, <1>9, <2>1, <2>3 DEF run_record, SlotsOK
  <2>5. r.tskid = load.id /\ r.img = load.img
    BY <2>3
  <2>6. \A m \in Used' : mods'[m].img = Window => mods'[m].tskid \in FixedIds
    <3>1. ASSUME NEW m \in Used', mods'[m].img = Window PROVE mods'[m].tskid \in FixedIds
      <4>1. CASE m = load.mod
        BY <2>2, <2>4, <2>5, <3>1, <4>1
      <4>2. CASE m # load.mod
        BY <2>4, <3>1, <4>2 DEF FixedOK, Used
      <4> QED BY <4>1, <4>2
    <3> QED BY <3>1
  <2>7. load'.pc = "done"
    BY <1>9 DEF run_record, Returns, NewLoad
  <2> QED BY <2>6, <2>7 DEF FixedOK
<1> QED BY <1>3, <1>4, <1>5, <1>6, <1>7, <1>8, <1>9 DEF LoaderStep

------------------------------------------------------------------------------
(* The segments of a line.  IsTruth: v is the value of the and-or list up  *)
(* to each of the segments that were read.                                 *)
Status == {0, -1}
LineType == [k : {"line"}, line : Lines, st : Status, run : BOOLEAN, done : Seq({"ok", "failed", "passed"})]
Listed(op, before, ok) ==
  CASE op = ";" -> ok [] op = "&&" -> before /\ ok [] op = "||" -> before \/ ok
Value1(f, v, j) ==
  Listed(f.line[j].op, v[j - 1], IF f.done[j] = "passed" THEN v[j - 1] ELSE f.done[j] = "ok")
IsTruth(f, v) == v = [j \in 0..Len(f.done) |-> IF j = 0 THEN TRUE ELSE Value1(f, v, j)]
Decided(f, v, j) ==
  f.done[j] /= "passed" <=>
    /\ f.line[j].cmd /= "blank"
    /\ CASE f.line[j].op = ";" -> TRUE [] f.line[j].op = "&&" -> v[j - 1] [] f.line[j].op = "||" -> ~v[j - 1]
LineOK(f) ==
  /\ Len(f.done) <= Len(f.line)
  /\ Len(f.done) < Len(f.line) => f.run = RunNext(f.line[Len(f.done) + 1].op, f.st, TRUE)
  /\ \E v \in [0..Len(f.done) -> BOOLEAN] :
       /\ IsTruth(f, v) /\ (f.st = 0 <=> v[Len(f.done)])
       /\ \A j \in 1..Len(f.done) : Decided(f, v, j)

(* The value that the property compares with.                              *)
LEMMA TruthIs == ASSUME NEW f PROVE Truth(f) = CHOOSE v : IsTruth(f, v)
BY DEF Truth, IsTruth, Value1, Listed

(* There is one value of an and-or list only.                              *)
LEMMA TruthOnce ==
  ASSUME NEW f \in LineType, NEW v, NEW w, IsTruth(f, v), IsTruth(f, w) PROVE v = w
<1> DEFINE N == Len(f.done)
<1>1. N \in Nat
  BY DEF LineType
<1>2. /\ v[0] = TRUE /\ w[0] = TRUE
      /\ \A j \in 1..N : v[j] = Value1(f, v, j) /\ w[j] = Value1(f, w, j)
  BY <1>1 DEF IsTruth
<1> DEFINE S == {j \in 0..N : v[j] # w[j]}
<1>3. S = {}
  <2> SUFFICES ASSUME S # {} PROVE FALSE
    OBVIOUS
  <2>1. S \in SUBSET Nat
    BY <1>1
  <2> HIDE DEF S
  <2>2. PICK m \in S : \A x \in S : m <= x
    BY <2>1, LeastNumber
  <2>3. m \in 0..N /\ v[m] # w[m]
    BY <2>2 DEF S
  <2>4. m # 0
    BY <1>2, <2>3
  <2>5. m \in 1..N /\ m - 1 \in 0..N /\ ~(m <= m - 1)
    BY <1>1, <2>3, <2>4
  <2>6. v[m - 1] = w[m - 1]
    BY <2>2, <2>5 DEF S
  <2>7. v[m] = w[m]
    BY <1>2, <2>5, <2>6 DEF Value1
  <2> QED BY <2>3, <2>7
<1>4. \A j \in 0..N : v[j] = w[j]
  BY <1>3
<1>5. v = [j \in 0..N |-> v[j]] /\ w = [j \in 0..N |-> w[j]]
  BY DEF IsTruth
<1> QED BY <1>4, <1>5

(* A line that is kept by the shell as LineOK says obeys the chain rule.   *)
LEMMA LineTruth ==
  ASSUME NEW f \in LineType, LineOK(f)
  PROVE  \A j \in DOMAIN f.done : Decided(f, Truth(f), j)
<1>1. PICK v : IsTruth(f, v) /\ \A j \in 1..Len(f.done) : Decided(f, v, j)
  BY DEF LineOK
<1>2. Truth(f) = v
  BY <1>1, TruthIs, TruthOnce
<1>3. DOMAIN f.done = 1..Len(f.done)
  BY DEF LineType
<1> QED BY <1>1, <1>2, <1>3

(* The segments of a line, of which the first has no operator.             *)
LEMMA SegmentIs ==
  ASSUME NEW f \in LineType, NEW n \in 1..Len(f.line)
  PROVE  /\ f.line \in Seq(Segments) /\ f.line[n] \in Segments /\ f.line[n].op \in {";", "&&", "||"}
         /\ f.line[1].op = ";"
<1>1. f.line \in Lines /\ f.line \in Seq(Segments)
  BY ServicesAssumption DEF LineType
<1>2. f.line[n] \in Segments /\ f.line # <<>>
  BY <1>1
<1> QED BY <1>1, <1>2, ServicesAssumption

(* A segment was passed over, or has run and returned st.                  *)
LEMMA AfterSegIs ==
  ASSUME NEW f \in LineType, LineOK(f), Len(f.done) < Len(f.line), NEW st \in Status, NEW mark,
         \/ mark = "passed" /\ st = f.st /\ (~f.run \/ f.line[Len(f.done) + 1].cmd = "blank")
         \/ mark = Result(st) /\ f.run /\ f.line[Len(f.done) + 1].cmd # "blank"
  PROVE  AfterSeg(f, st, mark) \in LineType /\ LineOK(AfterSeg(f, st, mark))
<1> DEFINE n == Len(f.done)
           s == f.line[n + 1]
           g == AfterSeg(f, st, mark)
<1>1. n \in Nat /\ Len(f.line) \in Nat /\ f.done \in Seq({"ok", "failed", "passed"}) /\ f.st \in Status /\ f.run \in BOOLEAN
  <2>1. f.line \in Seq(Segments)
    BY ServicesAssumption DEF LineType
  <2> QED BY <2>1 DEF LineType
<1>2. s \in Segments /\ s.op \in {";", "&&", "||"}
  <2>1. n + 1 \in 1..Len(f.line)
    BY <1>1
  <2> QED BY <2>1, SegmentIs
<1>3. f.run = RunNext(s.op, f.st, TRUE)
  BY DEF LineOK
<1>4. PICK v \in [0..n -> BOOLEAN] :
        /\ IsTruth(f, v) /\ (f.st = 0 <=> v[n]) /\ \A j \in 1..n : Decided(f, v, j)
  BY DEF LineOK
<1>5. /\ mark \in {"ok", "failed", "passed"} /\ (mark # "passed" => (mark = "ok" <=> st = 0))
      /\ mark # "passed" <=> f.run /\ s.cmd # "blank"
      /\ mark = "passed" => st = f.st
  BY <1>1 DEF Result
<1>15. /\ v[n] \in BOOLEAN /\ (s.op = ";" => f.run)
       /\ s.op = "&&" => (f.run <=> v[n])
       /\ s.op = "||" => (f.run <=> ~v[n])
  <2>1. v[n] \in BOOLEAN
    BY <1>1, <1>4
  <2>2. s.op = ";" => f.run
    BY <1>3 DEF RunNext
  <2>3. s.op = "&&" => f.run = (f.st = 0)
    BY <1>3 DEF RunNext
  <2>4. s.op = "||" => f.run = (f.st /= 0)
    BY <1>3 DEF RunNext
  <2> QED BY <1>1, <1>4, <2>1, <2>2, <2>3, <2>4
<1>6. PICK run \in BOOLEAN :
        /\ g = [f EXCEPT !.st = st, !.done = Append(f.done, mark), !.run = run]
        /\ n + 1 < Len(f.line) => run = RunNext(f.line[n + 2].op, st, TRUE)
  <2> DEFINE op == IF n + 1 < Len(f.line) THEN f.line[n + 2].op ELSE ";"
  <2>1. op \in {";", "&&", "||"}
    <3>1. CASE n + 1 < Len(f.line)
      <4>1. n + 2 \in 1..Len(f.line)
        BY <1>1, <3>1
      <4> QED BY <3>1, <4>1, SegmentIs
    <3> QED BY <3>1
  <2>2. RunNext(op, st, f.run) \in BOOLEAN /\ RunNext(op, st, f.run) = RunNext(op, st, TRUE)
    BY <2>1 DEF RunNext
  <2>3. n + 1 + 1 = n + 2
    BY <1>1
  <2>4. g = [f EXCEPT !.st = st, !.done = Append(f.done, mark), !.run = RunNext(op, st, f.run)]
    BY <2>3 DEF AfterSeg
  <2> QED BY <2>2, <2>4
<1>7. /\ Append(f.done, mark) \in Seq({"ok", "failed", "passed"}) /\ Len(Append(f.done, mark)) = n + 1
      /\ \A j \in 1..n : Append(f.done, mark)[j] = f.done[j]
      /\ Append(f.done, mark)[n + 1] = mark
  BY <1>1, <1>5
<1>8. g \in LineType /\ g.line = f.line /\ g.st = st /\ g.run = run /\ g.done = Append(f.done, mark)
  BY <1>6, <1>7 DEF LineType
<1> HIDE DEF g
<1> DEFINE new == Listed(s.op, v[n], IF mark = "passed" THEN v[n] ELSE mark = "ok")
           w == [j \in 0..(n + 1) |-> IF j = n + 1 THEN new ELSE v[j]]
<1>9. new \in BOOLEAN /\ (st = 0 <=> new)
  <2> DEFINE ok == IF mark = "passed" THEN v[n] ELSE mark = "ok"
  <2>1. ok \in BOOLEAN
    BY <1>15
  <2>2. st = 0 <=> ok
    BY <1>4, <1>5
  <2>3. new = Listed(s.op, v[n], ok)
    OBVIOUS
  <2>4. mark # "passed" => f.run
    BY <1>5
  <2>5. mark = "passed" => ok = v[n]
    OBVIOUS
  <2> HIDE DEF ok, new, s
  <2>6. CASE s.op = ";"
    BY <2>1, <2>2, <2>3, <2>6 DEF Listed
  <2>7. CASE s.op = "&&"
    BY <1>15, <2>1, <2>2, <2>3, <2>4, <2>5, <2>7 DEF Listed
  <2>8. CASE s.op = "||"
    BY <1>15, <2>1, <2>2, <2>3, <2>4, <2>5, <2>8 DEF Listed
  <2> QED BY <1>2, <2>6, <2>7, <2>8
<1>10. w \in [0..(n + 1) -> BOOLEAN] /\ w[n + 1] = new /\ \A j \in 0..n : w[j] = v[j]
  BY <1>1, <1>4, <1>9
<1> HIDE DEF w, new
<1>11. v[0] = TRUE /\ \A j \in 1..n : v[j] = Value1(f, v, j)
  BY <1>1, <1>4 DEF IsTruth
<1>12. IsTruth(g, w)
  <2>1. ASSUME NEW j \in 1..(n + 1) PROVE w[j] = Value1(g, w, j)
    <3>1. CASE j = n + 1
      BY <1>1, <1>7, <1>8, <1>10, <3>1 DEF Value1, new
    <3>2. CASE j \in 1..n
      <4>1. j \in 0..n /\ j - 1 \in 0..n
        BY <1>1, <3>2
      <4>2. w[j] = v[j] /\ w[j - 1] = v[j - 1]
        BY <1>10, <4>1
      <4>3. g.done[j] = f.done[j]
        BY <1>7, <1>8, <3>2
      <4> QED BY <1>8, <1>11, <3>2, <4>2, <4>3 DEF Value1
    <3> QED BY <1>1, <3>1, <3>2
  <2>2. w[0] = TRUE
    BY <1>1, <1>10, <1>11
  <2>3. w = [j \in 0..(n + 1) |-> w[j]]
    BY <1>10
  <2>4. \A j \in 0..(n + 1) : w[j] = IF j = 0 THEN TRUE ELSE Value1(g, w, j)
    <3>1. \A j \in 0..(n + 1) : j # 0 => j \in 1..(n + 1)
      BY <1>1
    <3> QED BY <2>1, <2>2, <3>1, Zenon
  <2>5. w = [j \in 0..(n + 1) |-> IF j = 0 THEN TRUE ELSE Value1(g, w, j)]
    BY <2>3, <2>4, Zenon
  <2> QED BY <1>7, <1>8, <2>5 DEF IsTruth
<1>13. ASSUME NEW j \in 1..(n + 1) PROVE Decided(g, w, j)
  <2>1. CASE j = n + 1
    <3>1. j - 1 = n /\ w[j - 1] = v[n] /\ g.done[j] = mark /\ g.line[j] = s
      BY <1>1, <1>7, <1>8, <1>10, <2>1
    <3>2. Decided(g, w, j) <=>
             (mark /= "passed" <=>
                /\ s.cmd /= "blank"
                /\ CASE s.op = ";" -> TRUE [] s.op = "&&" -> v[n] [] s.op = "||" -> ~v[n])
      BY <3>1 DEF Decided
    <3> HIDE DEF s
    <3>3. CASE s.op = ";"
      BY <1>5, <1>15, <3>2, <3>3
    <3>4. CASE s.op = "&&"
      BY <1>5, <1>15, <3>2, <3>4
    <3>5. CASE s.op = "||"
      BY <1>5, <1>15, <3>2, <3>5
    <3> QED BY <1>2, <3>3, <3>4, <3>5
  <2>2. CASE j \in 1..n
    <3>1. w[j - 1] = v[j - 1] /\ g.done[j] = f.done[j]
      BY <1>1, <1>7, <1>8, <1>10, <2>2
    <3> QED BY <1>4, <1>8, <2>2, <3>1 DEF Decided
  <2> QED BY <1>1, <2>1, <2>2
<1>14. LineOK(g)
  <2>1. Len(g.done) = n + 1 /\ n + 1 <= Len(g.line) /\ (g.st = 0 <=> w[n + 1])
    BY <1>1, <1>7, <1>8, <1>9, <1>10
  <2>2. n + 1 < Len(g.line) => g.run = RunNext(g.line[n + 1 + 1].op, g.st, TRUE)
    <3>1. n + 1 + 1 = n + 2
      BY <1>1
    <3> QED BY <1>6, <1>8, <3>1
  <2> QED BY <1>10, <1>12, <1>13, <2>1, <2>2 DEF LineOK
<1> QED BY <1>8, <1>14 DEF g

(* A line that was just read.                                              *)
LEMMA NewLineIs ==
  ASSUME NEW line \in Lines PROVE LineFrame(line) \in LineType /\ LineOK(LineFrame(line))
<1> DEFINE f == LineFrame(line)
           v == [j \in 0..0 |-> TRUE]
<1>1. /\ f.line = line /\ f.st = 0 /\ f.run = TRUE /\ f.done = <<>> /\ Len(f.done) = 0
      /\ f \in LineType
  BY DEF LineFrame, LineType, Status
<1>2. line \in Seq(Segments) /\ (line # <<>> => line[1].op = ";")
  BY ServicesAssumption
<1>3. Len(line) \in Nat /\ (0 < Len(line) => line[1].op = ";")
  <2>1. Len(line) \in Nat
    BY <1>2, LenProperties
  <2>2. Len(line) # 0 => line # <<>>
    OBVIOUS
  <2>3. 0 < Len(line) => Len(line) # 0
    BY <2>1
  <2> QED BY <1>2, <2>1, <2>2, <2>3, Zenon
<1>4. Len(f.done) < Len(f.line) => f.run = RunNext(f.line[Len(f.done) + 1].op, f.st, TRUE)
  <2>1. f.line[0 + 1] = line[1]
    BY <1>1
  <2>2. Len(f.done) + 1 = 0 + 1 /\ Len(f.line) = Len(line)
    BY <1>1
  <2> HIDE DEF f
  <2>3. 0 < Len(line) => f.run = RunNext(line[1].op, f.st, TRUE)
    BY <1>1, <1>3 DEF RunNext
  <2> QED BY <1>1, <2>1, <2>2, <2>3
<1> HIDE DEF f
<1>5. v \in [0..0 -> BOOLEAN] /\ IsTruth(f, v) /\ v[0]
  BY <1>1 DEF IsTruth
<1>6. \A j \in 1..0 : Decided(f, v, j)
  OBVIOUS
<1> HIDE DEF v
<1>7. Len(f.done) = 0 /\ Len(f.done) <= Len(f.line) /\ f.st = 0
  <2>1. Len(line) \in Nat /\ Len(f.done) = 0 /\ f.line = line
    BY <1>1, <1>3, Zenon
  <2> QED BY <1>1, <2>1
<1>8. LineOK(f)
  BY <1>4, <1>5, <1>6, <1>7 DEF LineOK
<1> QED BY <1>1, <1>8 DEF f

------------------------------------------------------------------------------
(* The stack of calls.  Every call but the innermost waits for another.    *)
SourceType == [k : {"source"}, fd : Fd, rest : Seq(Lines), st : Status]
ShowType == [k : {"show"}, fd : Fd]
Frame == {f \in LineType : LineOK(f)} \union SourceType \union ShowType
Runnable(f) ==
  f.k = "line" /\ Len(f.done) < Len(f.line) /\ f.run /\ f.line[Len(f.done) + 1].cmd # "blank"
Waiting(f) == f.k = "source" \/ Runnable(f)
FdOf(f) == IF f.k \in {"source", "show"} THEN {f.fd} ELSE {}
FdsOf(s) == UNION {FdOf(s[i]) : i \in DOMAIN s}
Apart(s) == \A i, j \in DOMAIN s : i # j => FdOf(s[i]) \intersect FdOf(s[j]) = {}
Below(s) == \A i \in DOMAIN s : Waiting(s[i])
Calls(s) == s \in Seq(Frame) /\ Apart(s) /\ (s # <<>> => Below(Front(s)))

(* A call on top of others.                                                *)
LEMMA PushIs ==
  ASSUME NEW s \in Seq(Frame), NEW f \in Frame
  PROVE  /\ Append(s, f) \in Seq(Frame) /\ Append(s, f) # <<>>
         /\ Front(Append(s, f)) = s /\ Last(Append(s, f)) = f
         /\ FdsOf(Append(s, f)) = FdsOf(s) \union FdOf(f)
         /\ Apart(Append(s, f)) <=> Apart(s) /\ FdOf(f) \intersect FdsOf(s) = {}
         /\ Below(Append(s, f)) <=> Below(s) /\ Waiting(f)
<1> DEFINE t == Append(s, f)
           n == Len(s)
<1>1. /\ n \in Nat /\ DOMAIN s = 1..n /\ t \in Seq(Frame) /\ Len(t) = n + 1 /\ DOMAIN t = 1..(n + 1)
      /\ t[n + 1] = f /\ \A i \in 1..n : t[i] = s[i]
  BY AppendProperties, LenProperties
<1> HIDE DEF t, n
<1>2. t # <<>>
  BY <1>1
<1>3. Last(t) = f
  BY <1>1 DEF Last
<1>4. Front(t) = s
  <2>1. Len(t) - 1 = n
    BY <1>1
  <2>2. SubSeq(t, 1, n) = [i \in 1..n |-> t[i]]
    BY <1>1, SMT
  <2>3. s = [i \in 1..n |-> s[i]]
    BY <1>1, SMT
  <2> QED BY <1>1, <2>1, <2>2, <2>3 DEF Front
<1>5. DOMAIN t = DOMAIN s \union {n + 1} /\ n + 1 \notin DOMAIN s /\ \A i \in DOMAIN s : t[i] = s[i]
  BY <1>1
<1>6. FdsOf(t) = FdsOf(s) \union FdOf(f)
  BY <1>1, <1>5 DEF FdsOf
<1>7. Apart(t) <=> Apart(s) /\ FdOf(f) \intersect FdsOf(s) = {}
  <2>1. ASSUME Apart(t) PROVE Apart(s) /\ FdOf(f) \intersect FdsOf(s) = {}
    <3>1. Apart(s)
      BY <1>5, <2>1 DEF Apart
    <3>2. \A i \in DOMAIN s : FdOf(f) \intersect FdOf(s[i]) = {}
      BY <1>1, <1>5, <2>1 DEF Apart
    <3> QED BY <3>1, <3>2 DEF FdsOf
  <2>2. ASSUME Apart(s), FdOf(f) \intersect FdsOf(s) = {} PROVE Apart(t)
    <3>1. \A i \in DOMAIN s : FdOf(f) \intersect FdOf(s[i]) = {}
      BY <2>2 DEF FdsOf
    <3> SUFFICES ASSUME NEW i \in DOMAIN t, NEW j \in DOMAIN t, i # j PROVE FdOf(t[i]) \intersect FdOf(t[j]) = {}
      BY DEF Apart
    <3>2. CASE i \in DOMAIN s /\ j \in DOMAIN s
      BY <1>5, <2>2, <3>2 DEF Apart
    <3>3. CASE i = n + 1 /\ j \in DOMAIN s
      BY <1>1, <1>5, <3>1, <3>3
    <3>4. CASE j = n + 1 /\ i \in DOMAIN s
      BY <1>1, <1>5, <3>1, <3>4
    <3> QED BY <1>5, <3>2, <3>3, <3>4
  <2> QED BY <2>1, <2>2
<1>8. Below(t) <=> Below(s) /\ Waiting(f)
  BY <1>1, <1>5 DEF Below
<1> QED BY <1>1, <1>2, <1>3, <1>4, <1>6, <1>7, <1>8 DEF t

(* The innermost call and the others.                                      *)
LEMMA SplitIs ==
  ASSUME NEW s \in Seq(Frame), s # <<>>
  PROVE  /\ Front(s) \in Seq(Frame) /\ Last(s) \in Frame /\ s = Append(Front(s), Last(s))
         /\ FdsOf(s) = FdsOf(Front(s)) \union FdOf(Last(s))
         /\ Apart(s) <=> Apart(Front(s)) /\ FdOf(Last(s)) \intersect FdsOf(Front(s)) = {}
         /\ Below(s) <=> Below(Front(s)) /\ Waiting(Last(s))
<1>1. PICK r \in Seq(Frame), f \in Frame : s = Append(r, f)
  BY SequenceEmptyOrAppend
<1>2. Front(s) = r /\ Last(s) = f
  BY <1>1, PushIs
<1>3. /\ FdsOf(s) = FdsOf(r) \union FdOf(f)
      /\ Apart(s) <=> Apart(r) /\ FdOf(f) \intersect FdsOf(r) = {}
      /\ Below(s) <=> Below(r) /\ Waiting(f)
  BY <1>1, PushIs
<1> QED BY <1>1, <1>2, <1>3

(* The prompt.                                                             *)
LEMMA NoCalls == Calls(<<>>) /\ FdsOf(<<>>) = {} /\ <<>> \in Seq(Frame)
BY DEF Calls, FdsOf, Apart

(* A call that waits makes another, with a descriptor of its own.          *)
LEMMA CallsPush ==
  ASSUME NEW s, Calls(s), Below(s), NEW f \in Frame, FdOf(f) \intersect FdsOf(s) = {}
  PROVE  Calls(Append(s, f)) /\ FdsOf(Append(s, f)) = FdsOf(s) \union FdOf(f) /\ Last(Append(s, f)) = f
BY PushIs DEF Calls

(* The innermost call goes on as g, with the same descriptor.              *)
LEMMA CallsReplace ==
  ASSUME NEW s, Calls(s), s # <<>>, NEW g \in Frame, FdOf(g) = FdOf(Last(s))
  PROVE  Calls(Append(Front(s), g)) /\ FdsOf(Append(Front(s), g)) = FdsOf(s)
<1>1. Front(s) \in Seq(Frame) /\ Last(s) \in Frame /\ s = Append(Front(s), Last(s)) /\ Below(Front(s))
  BY SplitIs DEF Calls
<1>2. /\ FdsOf(s) = FdsOf(Front(s)) \union FdOf(Last(s))
      /\ Apart(Front(s)) /\ FdOf(Last(s)) \intersect FdsOf(Front(s)) = {}
  BY SplitIs DEF Calls
<1> QED BY <1>1, <1>2, PushIs DEF Calls

(* The call on top returns st to the one below, or the innermost call's    *)
(* segment does.                                                           *)
LEMMA ResumeIs ==
  ASSUME NEW s, Calls(s), Below(s), NEW st \in Status
  PROVE  Calls(Resume(s, st)) /\ FdsOf(Resume(s, st)) = FdsOf(s)
<1>1. CASE s = <<>>
  BY <1>1, NoCalls DEF Resume
<1>2. CASE s # <<>>
  <2>1. PICK f : f = Last(s)
    OBVIOUS
  <2>2. f \in Frame /\ Waiting(f)
    <3>1. Last(s) \in Frame /\ Waiting(Last(s))
      BY <1>2, SplitIs DEF Calls
    <3> QED BY <2>1, <3>1
  <2>3. CASE f.k = "line"
    <3>1. f \in LineType /\ LineOK(f)
      BY <2>2, <2>3 DEF Frame, SourceType, ShowType
    <3>2. AfterSeg(f, st, Result(st)) \in LineType /\ LineOK(AfterSeg(f, st, Result(st)))
      BY <2>2, <2>3, <3>1, AfterSegIs DEF Waiting, Runnable
    <3>3. AfterSeg(f, st, Result(st)).k = "line"
      BY <3>2 DEF LineType
    <3>4. Resume(s, st) = Append(Front(s), AfterSeg(f, st, Result(st)))
      BY <1>2, <2>1, <2>3 DEF Resume
    <3>5. AfterSeg(f, st, Result(st)) \in Frame
      BY <3>2 DEF Frame
    <3>6. FdOf(AfterSeg(f, st, Result(st))) = FdOf(f)
      BY <2>3, <3>3 DEF FdOf
    <3> QED BY <1>2, <2>1, <3>4, <3>5, <3>6, CallsReplace
  <2>4. CASE f.k = "source"
    <3>1. f \in SourceType
      BY <2>2, <2>4 DEF Frame, LineType, ShowType
    <3> DEFINE g == [f EXCEPT !.st = st]
    <3>2. g \in SourceType /\ g.fd = f.fd /\ g.k = "source"
      BY <3>1 DEF SourceType
    <3>3. g \in Frame /\ FdOf(g) = FdOf(f)
      BY <2>4, <3>2 DEF Frame, FdOf
    <3>4. Resume(s, st) = Append(Front(s), g)
      BY <1>2, <2>1, <2>4 DEF Resume
    <3> HIDE DEF g
    <3> QED BY <1>2, <2>1, <3>3, <3>4, CallsReplace
  <2> QED BY <2>2, <2>3, <2>4 DEF Waiting, Runnable
<1> QED BY <1>1, <1>2

(* The call on top is over, and its descriptor is gone.                    *)
LEMMA ReturnIs ==
  ASSUME NEW s, Calls(s), s # <<>>, NEW st \in Status
  PROVE  Calls(Resume(Front(s), st)) /\ FdsOf(Resume(Front(s), st)) = FdsOf(s) \ FdOf(Last(s))
<1>1. Front(s) \in Seq(Frame) /\ Last(s) \in Frame /\ s = Append(Front(s), Last(s)) /\ Below(Front(s))
  BY SplitIs DEF Calls
<1>2. /\ FdsOf(s) = FdsOf(Front(s)) \union FdOf(Last(s))
      /\ Apart(Front(s)) /\ FdOf(Last(s)) \intersect FdsOf(Front(s)) = {}
  BY SplitIs DEF Calls
<1>3. Calls(Front(s))
  <2>1. CASE Front(s) = <<>>
    BY <2>1, NoCalls
  <2>2. CASE Front(s) # <<>>
    <3>1. Below(Front(Front(s)))
      BY <1>1, <2>2, SplitIs
    <3> QED BY <1>1, <1>2, <3>1 DEF Calls
  <2> QED BY <2>1, <2>2
<1>4. Calls(Resume(Front(s), st)) /\ FdsOf(Resume(Front(s), st)) = FdsOf(Front(s))
  BY <1>1, <1>3, ResumeIs
<1> QED BY <1>2, <1>4

------------------------------------------------------------------------------
(* ping, ifconfig and arp.  A ping's tokens and the replies still under    *)
(* way to its request are at most two batches for each request so far.     *)
PingPc == {"new", "raw_new", "send", "sendto", "wait", "next", "remove", "raw_remove", "free"}
PcbPc == {"send", "sendto", "wait", "next", "remove", "raw_remove"}
CorePc == {"raw_new", "sendto", "raw_remove", "if_body"}
CmdType ==
  [pc : PingPc \union {"idle", "if", "if_body", "done"}, what : {"none", "ping", "ifconfig", "arp"},
   seq : 0..PINGS, ok : Nat, rc : Status]
Batches(n) == 2 * n * MAXCOPIES
NetOK ==
  /\ cmd \in CmdType /\ core \in {"free", "shell", "tcpip"} /\ pcb \in BOOLEAN
  /\ sem \in [there : BOOLEAN, cnt : Nat] /\ wire \in [1..PINGS -> 0..MAXCOPIES]
  /\ core = "shell" <=> cmd.pc \in CorePc
  /\ pcb <=> cmd.pc \in PcbPc
  /\ sem.there <=> cmd.pc \in PingPc
  /\ cmd.pc \in PingPc => cmd.what = "ping"
  /\ cmd.pc \in PcbPc => cmd.seq \in 1..PINGS
  /\ cmd.pc \in {"send", "sendto"} => sem.cnt + wire[cmd.seq] <= Batches(cmd.seq - 1) + MAXCOPIES
  /\ cmd.pc \in PcbPc \ {"send", "sendto"} => sem.cnt + wire[cmd.seq] <= Batches(cmd.seq)
  /\ sem.cnt <= Batches(PINGS)
  /\ cmd.pc \notin PcbPc \union {"free"} => sem.cnt = 0

(* How many tokens there may be after so many requests.                    *)
LEMMA BatchesIs ==
  ASSUME NEW n \in Nat
  PROVE  /\ Batches(n) \in Nat /\ Batches(0) = 0 /\ Batches(n + 1) = Batches(n) + MAXCOPIES + MAXCOPIES
         /\ n <= PINGS => Batches(n) <= Batches(PINGS)
<1>1. MAXCOPIES \in Nat /\ PINGS \in Nat
  BY NetShellAssumption
<1>2. Batches(n) \in Nat /\ Batches(0) = 0
  BY <1>1 DEF Batches
<1>3. Batches(n + 1) = Batches(n) + MAXCOPIES + MAXCOPIES
  BY <1>1 DEF Batches
<1>4. ASSUME n <= PINGS PROVE Batches(n) <= Batches(PINGS)
  BY <1>1, <1>4 DEF Batches
<1> QED BY <1>2, <1>3, <1>4

(* A command of the network starts.                                        *)
LEMMA NetStart ==
  ASSUME NetOK, cmd.pc = "idle", ping_start \/ \E what \in {"ifconfig", "arp"} : if_start(what)
  PROVE  NetOK' /\ cmd'.pc # "idle"
<1>1. PINGS \in Nat /\ 0 \in 0..PINGS
  BY NetShellAssumption
<1>2. CASE ping_start
  <2>1. CASE sem' = [there |-> TRUE, cnt |-> 0] /\ cmd' = NewCmd("new", "ping", 0)
    <3>1. cmd' \in CmdType /\ cmd'.pc = "new" /\ cmd'.what = "ping"
      BY <1>1, <2>1 DEF CmdType, NewCmd, PingPc, Status
    <3>2. sem' \in [there : BOOLEAN, cnt : Nat] /\ sem'.there = TRUE /\ sem'.cnt = 0
      BY <2>1
    <3>3. UNCHANGED <<core, pcb, wire, up>>
      BY <1>2 DEF ping_start
    <3> QED BY <1>1, <3>1, <3>2, <3>3, BatchesIs DEF NetOK, PingPc, PcbPc, CorePc
  <2>2. CASE Done(-1) /\ UNCHANGED sem
    <3>1. cmd' \in CmdType /\ cmd'.pc = "done"
      BY <1>1, <2>2 DEF CmdType, NewCmd, PingPc, Status, Done
    <3> QED BY <1>2, <2>2, <3>1 DEF NetOK, PingPc, PcbPc, CorePc, ping_start
  <2> QED BY <1>2, <2>1, <2>2 DEF ping_start
<1>3. CASE \E what \in {"ifconfig", "arp"} : if_start(what)
  <2>1. cmd' \in CmdType /\ cmd'.pc = "if" /\ UNCHANGED <<core, pcb, sem, wire, up>>
    BY <1>1, <1>3 DEF CmdType, NewCmd, PingPc, Status, if_start
  <2> QED BY <2>1 DEF NetOK, PingPc, PcbPc, CorePc
<1> QED BY <1>2, <1>3

(* Its result is taken.                                                    *)
LEMMA NetEnd ==
  ASSUME NetOK, cmd.pc = "done", cmd' = NoCmd, UNCHANGED <<core, pcb, sem, wire, up>>
  PROVE  NetOK' /\ cmd.rc \in Status /\ cmd'.pc = "idle"
<1>1. PINGS \in Nat /\ 0 \in 0..PINGS
  BY NetShellAssumption
<1>2. cmd' \in CmdType /\ cmd'.pc = "idle"
  BY <1>1 DEF CmdType, NoCmd, NewCmd, PingPc, Status
<1> QED BY <1>2 DEF NetOK, PingPc, PcbPc, CorePc, CmdType

(* Nothing was sent.                                                       *)
LEMMA NetInitOK == ASSUME NetInit PROVE NetOK /\ cmd.pc = "idle"
<1>1. PINGS \in Nat /\ 0 \in 0..PINGS /\ MAXCOPIES \in Nat /\ 0 \in 0..MAXCOPIES
  BY NetShellAssumption
<1>2. cmd \in CmdType /\ cmd.pc = "idle"
  BY <1>1 DEF CmdType, NoCmd, NewCmd, PingPc, Status, NetInit
<1>3. Batches(PINGS) \in Nat
  BY <1>1, BatchesIs
<1>4. core = "free" /\ pcb = FALSE /\ sem = [there |-> FALSE, cnt |-> 0] /\ wire = [n \in 1..PINGS |-> 0]
  BY DEF NetInit
<1>5. sem \in [there : BOOLEAN, cnt : Nat] /\ sem.there = FALSE /\ sem.cnt = 0 /\ wire \in [1..PINGS -> 0..MAXCOPIES]
  BY <1>1, <1>4
<1>6. cmd.pc \notin PingPc \union PcbPc \union CorePc \union {"free"}
  <2>1. "idle" \notin PingPc /\ "idle" \notin PcbPc /\ "idle" \notin CorePc /\ "idle" \notin {"free"}
    BY DEF PingPc, PcbPc, CorePc
  <2> QED BY <1>2, <2>1
<1>7. core \in {"free", "shell", "tcpip"} /\ core # "shell" /\ pcb \in BOOLEAN /\ sem.cnt <= Batches(PINGS)
  <2>1. core \in {"free", "shell", "tcpip"} /\ core # "shell" /\ pcb \in BOOLEAN
    BY <1>4
  <2>2. sem.cnt <= Batches(PINGS)
    BY <1>3, <1>5
  <2> QED BY <2>1, <2>2
<1>8. cmd.pc \notin {"send", "sendto"}
  BY <1>2
<1> QED BY <1>2, <1>4, <1>5, <1>6, <1>7, <1>8 DEF NetOK

(* Each step of a command, up to its return.                               *)
LEMMA PingKeeps ==
  ASSUME NetOK, PingStep PROVE NetOK' /\ cmd.pc # "idle" /\ cmd'.pc # "idle"
<1>1. PINGS \in Nat \ {0} /\ 0 \in 0..PINGS /\ 1 \in 0..PINGS /\ MAXCOPIES \in Nat
  BY NetShellAssumption
<1>2. /\ cmd \in CmdType /\ sem.cnt \in Nat /\ wire \in [1..PINGS -> 0..MAXCOPIES]
      /\ sem \in [there : BOOLEAN, cnt : Nat] /\ pcb \in BOOLEAN
  BY DEF NetOK
<1>3. \A n \in 1..PINGS : wire[n] \in Nat /\ wire[n] <= MAXCOPIES
  BY <1>1, <1>2
<1>4. ASSUME NEW rc \in Status, Done(rc) PROVE cmd' \in CmdType /\ cmd'.pc = "done"
  BY <1>1, <1>4 DEF CmdType, NewCmd, PingPc, Done
<1>5. ASSUME NEW pc \in PingPc \union {"if_body"}, To(pc)
      PROVE  cmd' \in CmdType /\ cmd'.pc = pc /\ cmd'.seq = cmd.seq /\ cmd'.what = cmd.what
  BY <1>2, <1>5 DEF CmdType, To
<1>6. CASE ping_new_lock
  <2>1. cmd.pc = "new" /\ core' = "shell" /\ UNCHANGED <<pcb, sem, wire, up>> /\ To("raw_new")
    BY <1>6 DEF ping_new_lock, In, Lock
  <2>2. cmd' \in CmdType /\ cmd'.pc = "raw_new" /\ cmd'.what = cmd.what
    BY <1>5, <2>1 DEF PingPc
  <2> QED BY <2>1, <2>2 DEF NetOK, PingPc, PcbPc, CorePc
<1>7. CASE ping_raw_new
  <2>1. cmd.pc = "raw_new" /\ core' = "free" /\ UNCHANGED <<wire, up>> /\ sem.cnt = 0 /\ cmd.what = "ping" /\ sem.there
    BY <1>7 DEF ping_raw_new, In, Unlock, NetOK, PingPc, PcbPc
  <2>2. CASE pcb' = TRUE /\ cmd' = [cmd EXCEPT !.pc = "send", !.seq = 1] /\ UNCHANGED sem
    <3>1. cmd' \in CmdType /\ cmd'.pc = "send" /\ cmd'.seq = 1 /\ cmd'.what = "ping"
      BY <1>1, <1>2, <2>1, <2>2 DEF CmdType, PingPc
    <3>2. 0 + wire[1] <= Batches(0) + MAXCOPIES /\ Batches(PINGS) \in Nat /\ 1 \in 1..PINGS
      BY <1>1, <1>3, BatchesIs
    <3> QED BY <1>1, <1>2, <1>3, <2>1, <2>2, <3>1, <3>2 DEF NetOK, PingPc, PcbPc, CorePc
  <2>3. CASE Done(-1) /\ sem' = [there |-> FALSE, cnt |-> 0] /\ UNCHANGED pcb
    <3>1. cmd' \in CmdType /\ cmd'.pc = "done" /\ Batches(PINGS) \in Nat
      BY <1>1, <1>4, <2>3, BatchesIs DEF Status
    <3>2. sem' \in [there : BOOLEAN, cnt : Nat] /\ sem'.there = FALSE /\ sem'.cnt = 0
      BY <2>3
    <3> QED BY <1>1, <2>1, <2>3, <3>1, <3>2 DEF NetOK, PingPc, PcbPc, CorePc
  <2> QED BY <1>7, <2>2, <2>3 DEF ping_raw_new
<1>8. CASE ping_send_lock
  <2>1. cmd.pc = "send" /\ core' = "shell" /\ UNCHANGED <<pcb, sem, wire, up>> /\ To("sendto")
    BY <1>8 DEF ping_send_lock, In, Lock
  <2>2. cmd' \in CmdType /\ cmd'.pc = "sendto" /\ cmd'.what = cmd.what /\ cmd'.seq = cmd.seq
    BY <1>5, <2>1 DEF PingPc
  <2> QED BY <2>1, <2>2 DEF NetOK, PingPc, PcbPc, CorePc
<1>9. CASE ping_send
  <2>1. cmd.pc = "sendto" /\ core' = "free" /\ UNCHANGED <<pcb, sem, up>>
    BY <1>9 DEF ping_send, In, Unlock
  <2>2. PICK k \in 1..PINGS : k = cmd.seq
    BY <2>1 DEF NetOK, PcbPc
  <2>3. /\ sem.cnt + wire[k] <= Batches(k - 1) + MAXCOPIES /\ Batches(k) = Batches(k - 1) + MAXCOPIES + MAXCOPIES
        /\ Batches(k - 1) \in Nat
    <3>1. k - 1 \in Nat /\ (k - 1) + 1 = k
      BY <1>1, <2>2
    <3>2. Batches((k - 1) + 1) = Batches(k - 1) + MAXCOPIES + MAXCOPIES /\ Batches(k - 1) \in Nat
      BY <3>1, BatchesIs
    <3> QED BY <2>1, <2>2, <3>1, <3>2 DEF NetOK
  <2>4. CASE To("wait") /\ \E n \in 0..(MAXCOPIES - wire[cmd.seq]) : wire' = [wire EXCEPT ![cmd.seq] = @ + n]
    <3>1. cmd' \in CmdType /\ cmd'.pc = "wait" /\ cmd'.what = cmd.what /\ cmd'.seq = k
      BY <1>5, <2>2, <2>4 DEF PingPc
    <3>2. PICK n \in 0..(MAXCOPIES - wire[k]) : wire' = [wire EXCEPT ![k] = wire[k] + n]
      BY <2>2, <2>4
    <3>3. wire[k] + n \in 0..MAXCOPIES
      BY <1>1, <1>3, <3>2
    <3>4. wire' \in [1..PINGS -> 0..MAXCOPIES] /\ wire'[k] = wire[k] + n
      BY <1>2, <3>2, <3>3
    <3>5. sem.cnt + wire'[k] <= Batches(k)
      BY <1>1, <1>2, <1>3, <2>3, <3>3, <3>4
    <3> QED BY <2>1, <2>2, <3>1, <3>4, <3>5 DEF NetOK, PingPc, PcbPc, CorePc
  <2>5. CASE To("remove") /\ UNCHANGED wire
    <3>1. cmd' \in CmdType /\ cmd'.pc = "remove" /\ cmd'.what = cmd.what /\ cmd'.seq = k
      BY <1>5, <2>2, <2>5 DEF PingPc
    <3>2. sem.cnt + wire[k] <= Batches(k)
      BY <1>1, <1>2, <1>3, <2>3
    <3> QED BY <2>1, <2>2, <2>5, <3>1, <3>2 DEF NetOK, PingPc, PcbPc, CorePc
  <2> QED BY <1>9, <2>4, <2>5 DEF ping_send
<1>10. CASE ping_wait
  <2>1. cmd.pc = "wait" /\ UNCHANGED <<core, pcb, wire, up>> /\ cmd.seq \in 1..PINGS /\ sem.there
    BY <1>10 DEF ping_wait, In, NetOK, PingPc, PcbPc
  <2>2. /\ sem.cnt + wire[cmd.seq] <= Batches(cmd.seq) /\ sem.cnt <= Batches(PINGS)
        /\ Batches(PINGS) \in Nat /\ Batches(cmd.seq) \in Nat
    <3>1. cmd.pc \in PcbPc \ {"send", "sendto"}
      BY <2>1 DEF PcbPc
    <3>2. PINGS \in Nat /\ cmd.seq \in Nat
      BY <1>1, <2>1
    <3>3. Batches(PINGS) \in Nat /\ Batches(cmd.seq) \in Nat
      BY <3>2, BatchesIs
    <3> QED BY <3>1, <3>3 DEF NetOK
  <2>3. CASE /\ sem.cnt > 0 /\ sem' = [sem EXCEPT !.cnt = @ - 1]
             /\ cmd' = [cmd EXCEPT !.pc = "next", !.ok = @ + 1]
    <3>5. cmd.ok \in Nat /\ cmd.ok + 1 \in Nat /\ cmd' = [cmd EXCEPT !.pc = "next", !.ok = cmd.ok + 1]
      BY <1>2, <2>3 DEF CmdType
    <3>1. cmd' \in CmdType /\ cmd'.pc = "next" /\ cmd'.what = cmd.what /\ cmd'.seq = cmd.seq
      BY <1>2, <3>5 DEF CmdType, PingPc
    <3>2. sem' \in [there : BOOLEAN, cnt : Nat] /\ sem'.there = sem.there /\ sem'.cnt = sem.cnt - 1
      BY <1>2, <2>3
    <3>3. sem'.cnt + wire[cmd.seq] <= Batches(cmd.seq) /\ sem'.cnt <= Batches(PINGS)
      BY <1>2, <1>3, <2>1, <2>2, <3>2
    <3> QED BY <2>1, <3>1, <3>2, <3>3 DEF NetOK, PingPc, PcbPc, CorePc
  <2>4. CASE To("next") /\ UNCHANGED sem
    <3>1. cmd' \in CmdType /\ cmd'.pc = "next" /\ cmd'.what = cmd.what /\ cmd'.seq = cmd.seq
      BY <1>5, <2>4 DEF PingPc
    <3> QED BY <2>1, <2>4, <3>1 DEF NetOK, PingPc, PcbPc, CorePc
  <2> QED BY <1>10, <2>3, <2>4 DEF ping_wait
<1>11. CASE ping_next
  <2>1. cmd.pc = "next" /\ UNCHANGED <<core, pcb, sem, wire, up>> /\ cmd.seq \in 1..PINGS
    BY <1>11 DEF ping_next, In, NetOK, PcbPc
  <2>2. CASE cmd.seq < PINGS /\ cmd' = [cmd EXCEPT !.pc = "send", !.seq = @ + 1]
    <3>1. PICK k \in 1..PINGS : k = cmd.seq /\ k < PINGS /\ k + 1 \in 1..PINGS /\ k + 1 \in 0..PINGS
      <4>1. PICK k \in 1..PINGS : k = cmd.seq /\ k < PINGS
        BY <2>1, <2>2
      <4> QED BY <1>1, <4>1
    <3>2. cmd' \in CmdType /\ cmd'.pc = "send" /\ cmd'.what = cmd.what /\ cmd'.seq = k + 1
      <4>1. cmd' = [cmd EXCEPT !.pc = "send", !.seq = k + 1]
        BY <2>2, <3>1
      <4> QED BY <1>2, <3>1, <4>1 DEF CmdType, PingPc
    <3>3. sem.cnt + wire[k] <= Batches(k) /\ Batches(k) \in Nat
      <4>1. cmd.pc \in PcbPc \ {"send", "sendto"}
        BY <2>1 DEF PcbPc
      <4>2. sem.cnt + wire[cmd.seq] <= Batches(cmd.seq)
        BY <4>1 DEF NetOK
      <4>3. k \in Nat
        BY <1>1, <3>1
      <4>4. Batches(k) \in Nat
        BY <4>3, BatchesIs
      <4> QED BY <3>1, <4>2, <4>4
    <3>4. (k + 1) - 1 = k
      BY <1>1, <3>1
    <3>5. sem.cnt + wire[k + 1] <= Batches((k + 1) - 1) + MAXCOPIES
      BY <1>1, <1>2, <1>3, <3>1, <3>3, <3>4
    <3> QED BY <2>1, <3>1, <3>2, <3>5 DEF NetOK, PingPc, PcbPc, CorePc
  <2>3. CASE To("remove")
    <3>1. cmd' \in CmdType /\ cmd'.pc = "remove" /\ cmd'.what = cmd.what /\ cmd'.seq = cmd.seq
      BY <1>5, <2>3 DEF PingPc
    <3> QED BY <2>1, <3>1 DEF NetOK, PingPc, PcbPc, CorePc
  <2> QED BY <1>11, <2>2, <2>3 DEF ping_next
<1>12. CASE ping_remove_lock
  <2>1. cmd.pc = "remove" /\ core' = "shell" /\ UNCHANGED <<pcb, sem, wire, up>> /\ To("raw_remove")
    BY <1>12 DEF ping_remove_lock, In, Lock
  <2>2. cmd' \in CmdType /\ cmd'.pc = "raw_remove" /\ cmd'.what = cmd.what /\ cmd'.seq = cmd.seq
    BY <1>5, <2>1 DEF PingPc
  <2> QED BY <2>1, <2>2 DEF NetOK, PingPc, PcbPc, CorePc
<1>13. CASE ping_raw_remove
  <2>1. cmd.pc = "raw_remove" /\ core' = "free" /\ pcb' = FALSE /\ UNCHANGED <<sem, wire, up>> /\ To("free")
    BY <1>13 DEF ping_raw_remove, In, Unlock
  <2>2. cmd' \in CmdType /\ cmd'.pc = "free" /\ cmd'.what = cmd.what /\ cmd'.seq = cmd.seq
    BY <1>5, <2>1 DEF PingPc
  <2> QED BY <2>1, <2>2 DEF NetOK, PingPc, PcbPc, CorePc
<1>14. CASE ping_free
  <2>1. cmd.pc = "free" /\ UNCHANGED <<core, pcb, wire, up>> /\ sem' = [there |-> FALSE, cnt |-> 0]
    BY <1>14 DEF ping_free, In
  <2>2. cmd' \in CmdType /\ cmd'.pc = "done" /\ Batches(PINGS) \in Nat
    BY <1>1, <1>4, <1>14, BatchesIs DEF Status, ping_free
  <2>3. sem' \in [there : BOOLEAN, cnt : Nat] /\ sem'.there = FALSE /\ sem'.cnt = 0
    BY <2>1
  <2> QED BY <1>1, <2>1, <2>2, <2>3 DEF NetOK, PingPc, PcbPc, CorePc
<1>15. CASE if_lock
  <2>1. cmd.pc = "if" /\ core' = "shell" /\ UNCHANGED <<pcb, sem, wire, up>> /\ To("if_body")
    BY <1>15 DEF if_lock, In, Lock
  <2>2. cmd' \in CmdType /\ cmd'.pc = "if_body" /\ cmd'.what = cmd.what
    BY <1>5, <2>1
  <2> QED BY <2>1, <2>2 DEF NetOK, PingPc, PcbPc, CorePc
<1>16. CASE if_body
  <2>1. cmd.pc = "if_body" /\ core' = "free" /\ UNCHANGED <<pcb, sem, wire>> /\ \E rc \in Status : Done(rc)
    BY <1>16 DEF if_body, In, Unlock, Status
  <2>2. cmd' \in CmdType /\ cmd'.pc = "done"
    BY <1>4, <2>1
  <2> QED BY <2>1, <2>2 DEF NetOK, PingPc, PcbPc, CorePc
<1>17. cmd'.pc # "idle" /\ cmd.pc # "idle"
  <2>1. cmd.pc # "idle"
    BY DEF PingStep, ping_new_lock, ping_raw_new, ping_send_lock, ping_send, ping_wait, ping_next,
       ping_remove_lock, ping_raw_remove, ping_free, if_lock, if_body, In
  <2>2. \/ \E rc \in Status : Done(rc)
        \/ \E pc \in PingPc \union {"if_body"} : To(pc)
        \/ cmd' = [cmd EXCEPT !.pc = "send", !.seq = @ + 1]
        \/ cmd' = [cmd EXCEPT !.pc = "send", !.seq = 1]
        \/ cmd' = [cmd EXCEPT !.pc = "next", !.ok = @ + 1]
    <3>1. CASE ping_free
      <4>1. Done(IF cmd.ok > 0 THEN 0 ELSE -1)
        BY <3>1 DEF ping_free
      <4> QED BY <4>1 DEF Status
    <3>2. CASE ping_new_lock \/ ping_send_lock \/ ping_send \/ ping_remove_lock \/ ping_raw_remove \/ if_lock
      BY <3>2 DEF ping_new_lock, ping_send_lock, ping_send, ping_remove_lock, ping_raw_remove, if_lock, PingPc
    <3>3. CASE ping_raw_new \/ if_body
      BY <3>3 DEF ping_raw_new, if_body, Status
    <3>4. CASE ping_wait \/ ping_next
      BY <3>4 DEF ping_wait, ping_next, PingPc
    <3> QED BY <3>1, <3>2, <3>3, <3>4 DEF PingStep
  <2>3. \A pc : To(pc) => cmd'.pc = pc
    BY <1>2 DEF To, CmdType
  <2>4. "idle" \notin PingPc \union {"if_body"}
    BY DEF PingPc
  <2>5. cmd' = [cmd EXCEPT !.pc = "send", !.seq = @ + 1] \/ cmd' = [cmd EXCEPT !.pc = "send", !.seq = 1] => cmd'.pc = "send"
    BY <1>2 DEF CmdType
  <2>6. cmd' = [cmd EXCEPT !.pc = "next", !.ok = @ + 1] => cmd'.pc = "next"
    BY <1>2 DEF CmdType
  <2> QED BY <1>4, <2>1, <2>2, <2>3, <2>4, <2>5, <2>6
<1> QED BY <1>6, <1>7, <1>8, <1>9, <1>10, <1>11, <1>12, <1>13, <1>14, <1>15, <1>16, <1>17 DEF PingStep

(* Each step of lwIP's thread: a reply counts, is late or is lost.         *)
LEMMA TcpipKeeps ==
  ASSUME NetOK, TcpipStep PROVE NetOK' /\ UNCHANGED cmd
<1>1. PINGS \in Nat \ {0} /\ MAXCOPIES \in Nat /\ \A n \in 1..PINGS : Batches(n) \in Nat /\ Batches(n) <= Batches(PINGS)
  BY NetShellAssumption, BatchesIs
<1>2. /\ cmd \in CmdType /\ sem.cnt \in Nat /\ wire \in [1..PINGS -> 0..MAXCOPIES]
      /\ sem \in [there : BOOLEAN, cnt : Nat]
  BY DEF NetOK
<1>3. CASE tcpip_lock
  BY <1>3 DEF tcpip_lock, NetOK
<1>4. CASE ping_recv
  <2>1. core = "tcpip" /\ core' = "free" /\ UNCHANGED <<pcb, up, cmd>>
    BY <1>4 DEF ping_recv
  <2>2. PICK n \in 1..PINGS :
           /\ wire[n] > 0 /\ wire' = [wire EXCEPT ![n] = wire[n] - 1]
           /\ sem' = IF pcb /\ n = cmd.seq THEN [sem EXCEPT !.cnt = sem.cnt + 1] ELSE sem
    BY <1>2, <1>4 DEF ping_recv
  <2>3. wire[n] \in Nat /\ wire[n] <= MAXCOPIES /\ wire[n] - 1 \in 0..MAXCOPIES
    BY <1>1, <1>2, <2>2
  <2>4. wire' \in [1..PINGS -> 0..MAXCOPIES] /\ wire'[n] = wire[n] - 1 /\ \A k \in 1..PINGS : k # n => wire'[k] = wire[k]
    BY <1>2, <2>2, <2>3
  <2>5. cmd.pc \notin CorePc
    BY <2>1 DEF NetOK
  <2>6. CASE pcb /\ n = cmd.seq
    <3>1. sem' \in [there : BOOLEAN, cnt : Nat] /\ sem'.there = sem.there /\ sem'.cnt = sem.cnt + 1
      BY <1>2, <2>2, <2>6
    <3>2. sem'.cnt + wire'[cmd.seq] = sem.cnt + wire[cmd.seq]
      BY <1>2, <2>3, <2>4, <2>6, <3>1
    <3>3. cmd.pc \in PcbPc
      BY <2>6 DEF NetOK
    <3>4. sem'.cnt <= Batches(PINGS)
      <4>1. CASE cmd.pc = "send"
        <5>1. PICK k \in Nat : n = k + 1
          <6>1. n - 1 \in Nat /\ n = (n - 1) + 1
            BY <1>1, <2>2
          <6> QED BY <6>1
        <5>2. Batches(n) = Batches(k) + MAXCOPIES + MAXCOPIES /\ Batches(k) \in Nat /\ n - 1 = k
          BY <5>1, BatchesIs
        <5>3. sem.cnt + wire[n] <= Batches(k) + MAXCOPIES
          <6>1. sem.cnt + wire[cmd.seq] <= Batches(cmd.seq - 1) + MAXCOPIES
            BY <4>1 DEF NetOK
          <6>2. cmd.seq = n /\ cmd.seq - 1 = k
            BY <2>6, <5>2
          <6> QED BY <6>1, <6>2
        <5>4. Batches(n) <= Batches(PINGS) /\ Batches(n) \in Nat
          BY <1>1
        <5>5. Batches(PINGS) \in Nat
          BY <1>1
        <5>6. sem.cnt + 1 <= Batches(n)
          BY <1>1, <1>2, <2>2, <2>3, <5>2, <5>3, <5>4
        <5> QED BY <1>2, <3>1, <5>4, <5>5, <5>6
      <4>2. CASE cmd.pc # "send"
        <5>1. sem.cnt + wire[n] <= Batches(n)
          BY <2>5, <2>6, <3>3, <4>2 DEF NetOK, CorePc
        <5> QED BY <1>1, <1>2, <2>2, <2>3, <3>1, <5>1
      <4> QED BY <4>1, <4>2
    <3> QED BY <2>1, <2>4, <2>5, <2>6, <3>1, <3>2, <3>3, <3>4 DEF NetOK, PingPc, PcbPc, CorePc
  <2>7. CASE ~(pcb /\ n = cmd.seq)
    <3>1. sem' = sem
      BY <2>2, <2>7
    <3>2. cmd.pc \in PcbPc => cmd.seq \in 1..PINGS /\ cmd.seq # n /\ wire'[cmd.seq] = wire[cmd.seq]
      BY <2>4, <2>7 DEF NetOK
    <3> QED BY <2>1, <2>4, <2>5, <3>1, <3>2 DEF NetOK, PcbPc
  <2> QED BY <2>6, <2>7
<1> QED BY <1>3, <1>4 DEF TcpipStep, tcpip_lock, ping_recv

------------------------------------------------------------------------------
(* The invariant of the shell: descriptors that the loader does not hold   *)
(* are those of the calls on the stack, and a command under way is that of *)
(* the innermost line's segment.                                           *)
KillsHeapOnly == \A s \in Segments : s.cmd = "kill" => s.tid \notin FixedIds
CallsOK ==
  /\ Calls(stack) /\ Others = FdsOf(stack)
  /\ load.pc = "idle" \/ cmd.pc = "idle"
  /\ Busy => stack # <<>> /\ Runnable(Top)
HeldInv == LoaderInv /\ FixedOK /\ NetOK
ShellInv == HeldInv /\ CallsOK

(* The innermost call, by its kind.                                        *)
LEMMA TopIs ==
  ASSUME CallsOK, stack # <<>>
  PROVE  /\ Top \in Frame /\ Below(Front(stack)) /\ stack \in Seq(Frame)
         /\ Top.k = "line" => Top \in LineType /\ LineOK(Top)
         /\ Top.k = "source" => Top \in SourceType
         /\ Top.k = "show" => Top \in ShowType
         /\ Waiting(Top) => Below(stack)
<1>1. Top \in Frame /\ Below(Front(stack)) /\ (Below(stack) <=> Below(Front(stack)) /\ Waiting(Top)) /\ stack \in Seq(Frame)
  BY SplitIs DEF CallsOK, Calls, Top
<1> QED BY <1>1 DEF Frame, LineType, SourceType, ShowType

(* The segment to be read next.                                            *)
LEMMA SegIs ==
  ASSUME CallsOK, HasSeg
  PROVE  /\ stack # <<>> /\ Top \in LineType /\ LineOK(Top) /\ Len(Top.done) < Len(Top.line)
         /\ Seg \in Segments /\ Seg = Top.line[Len(Top.done) + 1] /\ FdOf(Top) = {}
<1>1. stack # <<>> /\ Top.k = "line" /\ Len(Top.done) < Len(Top.line)
  BY DEF HasSeg, IsTop
<1>2. Top \in LineType /\ LineOK(Top)
  BY <1>1, TopIs
<1>3. Top.line \in Seq(Segments) /\ Len(Top.done) \in Nat
  <2>1. Top.line \in Lines /\ Top.done \in Seq({"ok", "failed", "passed"})
    BY <1>2 DEF LineType
  <2>2. Top.line \in Seq(Segments)
    BY <2>1, ServicesAssumption
  <2> QED BY <2>1, <2>2, LenProperties
<1>4. Len(Top.done) + 1 \in 1..Len(Top.line)
  BY <1>1, <1>3
<1>5. Seg \in Segments
  BY <1>2, <1>4, SegmentIs DEF Seg
<1>6. FdOf(Top) = {}
  BY <1>1 DEF FdOf
<1> QED BY <1>1, <1>2, <1>5, <1>6 DEF Seg

(* The segment that runs a command.                                        *)
LEMMA RunsIs ==
  ASSUME CallsOK, NEW c, c # "blank", Runs(c)
  PROVE  /\ stack # <<>> /\ Runnable(Top) /\ Below(stack) /\ Seg \in Segments /\ Seg.cmd = c
         /\ load.pc = "idle" /\ cmd.pc = "idle"
<1>1. HasSeg /\ ~Busy /\ Top.run /\ Seg.cmd = c
  BY DEF Runs
<1>2. /\ stack # <<>> /\ Top \in LineType /\ LineOK(Top) /\ Len(Top.done) < Len(Top.line)
      /\ Seg \in Segments /\ Seg = Top.line[Len(Top.done) + 1]
  BY <1>1, SegIs
<1>3. Runnable(Top)
  BY <1>1, <1>2 DEF Runnable, LineType
<1>4. Below(stack)
  BY <1>2, <1>3, TopIs DEF Waiting
<1> QED BY <1>1, <1>2, <1>3, <1>4 DEF Busy

(* The shell's own steps touch nothing that is held.                       *)
LEMMA HeldSame ==
  ASSUME HeldInv, UNCHANGED <<files, elfvars, netvars>>
  PROVE  HeldInv' /\ Others' = Others /\ wild' = wild
<1>1. UNCHANGED <<heap, wild, fds, mods, app, load>> /\ UNCHANGED <<core, pcb, sem, wire, up, cmd>>
  BY DEF files, elfvars, netvars
<1>4. HeapOK /\ LoadOK /\ SlotsOK /\ AppOK
  BY DEF HeldInv, LoaderInv
<1>5. SlotsOK' /\ Slots' = Slots /\ AppOK' /\ FdsOK' /\ Files' = Files /\ Loading' = Loading
  BY <1>1, <1>4, SlotsSame, AppSame, FdsSame DEF Loading, Held, InLoad
<1>6. HeapOK'
  BY <1>1, <1>4, <1>5 DEF HeapOK
<1>7. LoadOK'
  BY <1>1, <1>4 DEF LoadOK, ImageOK
<1>2. HeapOK' /\ LoadOK' /\ SlotsOK' /\ AppOK'
  BY <1>5, <1>6, <1>7
<1>3. FixedOK' /\ NetOK'
  BY <1>1 DEF HeldInv, FixedOK, NetOK, Used
<1> QED BY <1>1, <1>2, <1>3 DEF HeldInv, LoaderInv, Others

(* No command is under way any more, and the stack is as it should be.     *)
LEMMA CallsNext ==
  ASSUME Calls(stack'), Others' = FdsOf(stack'), load'.pc = "idle", cmd'.pc = "idle"
  PROVE  CallsOK'
BY DEF CallsOK, Busy

(* The loader's state, one by one.                                         *)
LEMMA LoadSame == ASSUME UNCHANGED elfvars PROVE load' = load /\ mods' = mods /\ app' = app
BY DEF elfvars

(* A step beside the loader.                                               *)
LEMMA FixedSame == ASSUME FixedOK, UNCHANGED elfvars PROVE FixedOK'
BY LoadSame DEF FixedOK, Used

(* A step beside the network's commands.                                   *)
LEMMA NetSame == ASSUME NetOK, UNCHANGED netvars PROVE NetOK' /\ cmd' = cmd
BY DEF NetOK, netvars

(* The shell opens a file while no elf_run is under way.                   *)
LEMMA ShellOpens ==
  ASSUME LoaderInv, load.pc = "idle", NEW p, Opens(p), UNCHANGED elfvars
  PROVE  /\ LoaderInv' /\ Others' = Others \union {NewFd} /\ NewFd \in Fd /\ NewFd \notin Others /\ wild' = wild
         /\ p \in Path
<1>1. HeapOK /\ LoadOK /\ SlotsOK /\ AppOK /\ UNCHANGED <<mods, app, load>>
  BY DEF LoaderInv, elfvars
<1>2. PICK d \in Fd : d = NewFd /\ ~fds[d].used
  BY <1>1, OpensIs
<1>3. FdsOK' /\ wild' = wild /\ {e \in Fd : fds'[e].used} = {e \in Fd : fds[e].used} \union {d} /\ p \in Path
  BY <1>1, <1>2, OpensIs
<1>4. PICK B \in SUBSET Block : B \intersect heap = {} /\ heap' = heap \union B /\ Files' = Files \union B
  BY <1>1, OpensIs
<1>5. load.fd = -1 /\ -1 \notin Fd
  BY <1>1, ShellIs DEF LoadOK
<1>6. SlotsOK' /\ Slots' = Slots /\ AppOK' /\ Loading' = Loading
  BY <1>1, SlotsSame, AppSame DEF Loading, Held, InLoad
<1>7. LoadOK'
  BY <1>1 DEF LoadOK
<1>8. HeapOK'
  BY <1>1, <1>3, <1>4, <1>6 DEF HeapOK
<1>9. Others' = Others \union {d} /\ d \notin Others
  BY <1>1, <1>2, <1>3, <1>5 DEF Others
<1> QED BY <1>2, <1>3, <1>6, <1>7, <1>8, <1>9 DEF LoaderInv

(* The shell closes one.                                                   *)
LEMMA ShellCloses ==
  ASSUME LoaderInv, load.pc = "idle", NEW d \in Fd, ClosesAndFrees(d, {}), UNCHANGED elfvars
  PROVE  LoaderInv' /\ Others' = Others \ {d} /\ wild' = wild
<1>1. HeapOK /\ LoadOK /\ SlotsOK /\ AppOK /\ UNCHANGED <<mods, app, load>>
  BY DEF LoaderInv, elfvars
<1>2. fds' = [fds EXCEPT ![d] = FreeFd] /\ heap' = heap \ fds[d].blks /\ wild' = wild \union (fds[d].blks \ heap)
  BY DEF ClosesAndFrees, Frees
<1>3. PICK B : B = fds[d].blks
  OBVIOUS
<1>4. /\ FdsOK' /\ B \subseteq heap /\ Files' = Files \ B
      /\ {e \in Fd : fds'[e].used} = {e \in Fd : fds[e].used} \ {d}
  BY <1>1, <1>2, <1>3, ClosesIs
<1>5. B \subseteq Files
  BY <1>3 DEF Files
<1>6. SlotsOK' /\ Slots' = Slots /\ AppOK' /\ Loading' = Loading
  BY <1>1, SlotsSame, AppSame DEF Loading, Held, InLoad
<1>7. LoadOK'
  BY <1>1 DEF LoadOK
<1>8. heap' = heap \ B /\ wild' = wild
  BY <1>2, <1>3, <1>4
<1>9. HeapOK'
  BY <1>1, <1>4, <1>5, <1>6, <1>8 DEF HeapOK
<1>10. Others' = Others \ {d}
  BY <1>1, <1>4 DEF Others
<1> QED BY <1>6, <1>7, <1>8, <1>9, <1>10 DEF LoaderInv

------------------------------------------------------------------------------
(* One step of the shell.                                                  *)
Keeps == ShellInv' /\ (KillsHeapOnly => wild' = wild)

(* A line is read at the prompt.                                           *)
LEMMA ReadLineKeeps == ASSUME ShellInv, ReadLine PROVE Keeps
<1>1. PICK line \in Line : stack = <<>> /\ stack' = Append(stack, LineFrame(line)) /\ UNCHANGED <<files, elfvars, netvars>>
  BY DEF ReadLine, Push
<1>2. HeldInv' /\ Others' = Others /\ wild' = wild
  BY <1>1, HeldSame DEF ShellInv
<1>3. LineFrame(line) \in Frame /\ FdOf(LineFrame(line)) = {}
  <2>1. line \in Lines
    BY DEF Lines
  <2> QED BY <2>1, NewLineIs DEF Frame, FdOf, LineFrame
<1>4. Calls(stack) /\ Below(stack) /\ Others = FdsOf(stack)
  BY <1>1 DEF ShellInv, CallsOK, Below
<1>5. Calls(stack') /\ FdsOf(stack') = FdsOf(stack)
  BY <1>1, <1>3, <1>4, CallsPush
<1>6. load.pc = "idle" /\ cmd.pc = "idle" /\ load' = load /\ cmd' = cmd
  BY <1>1 DEF ShellInv, CallsOK, Busy, elfvars, netvars
<1>7. CallsOK'
  BY <1>2, <1>4, <1>5, <1>6, CallsNext
<1> QED BY <1>2, <1>7 DEF Keeps, ShellInv

(* A segment is passed over.                                               *)
LEMMA PassOverKeeps == ASSUME ShellInv, PassOver PROVE Keeps
<1>1. /\ HasSeg /\ ~Busy /\ (~Top.run \/ Seg.cmd = "blank") /\ UNCHANGED <<files, elfvars, netvars>>
      /\ stack' = Append(Front(stack), AfterSeg(Top, Top.st, "passed"))
  BY DEF PassOver
<1>2. HeldInv' /\ Others' = Others /\ wild' = wild
  BY <1>1, HeldSame DEF ShellInv
<1>3. /\ stack # <<>> /\ Top \in LineType /\ LineOK(Top) /\ Len(Top.done) < Len(Top.line)
      /\ Seg = Top.line[Len(Top.done) + 1] /\ FdOf(Top) = {}
  BY <1>1, SegIs DEF ShellInv
<1>4. PICK g : g = AfterSeg(Top, Top.st, "passed") /\ g \in LineType /\ LineOK(g)
  <2>1. Top.st \in Status
    BY <1>3 DEF LineType
  <2> QED BY <1>1, <1>3, <2>1, AfterSegIs
<1>5. g \in Frame /\ FdOf(g) = FdOf(Top)
  BY <1>3, <1>4 DEF Frame, FdOf, LineType
<1>6. Calls(stack) /\ Others = FdsOf(stack) /\ load.pc = "idle" /\ cmd.pc = "idle" /\ load' = load /\ cmd' = cmd
  BY <1>1 DEF ShellInv, CallsOK, Busy, elfvars, netvars
<1>7. Calls(stack') /\ FdsOf(stack') = FdsOf(stack)
  BY <1>1, <1>3, <1>4, <1>5, <1>6, CallsReplace DEF Top
<1>8. CallsOK'
  BY <1>2, <1>6, <1>7, CallsNext
<1> QED BY <1>2, <1>8 DEF Keeps, ShellInv

(* A line ends, and source's next may follow.                              *)
LEMMA EndOfLineKeeps == ASSUME ShellInv, EndOfLine PROVE Keeps
<1>1. /\ stack # <<>> /\ Top.k = "line" /\ Len(Top.done) = Len(Top.line) /\ UNCHANGED <<files, elfvars, netvars>>
      /\ stack' = Resume(Front(stack), Top.st)
  BY DEF EndOfLine, IsTop, Return
<1>2. HeldInv' /\ Others' = Others /\ wild' = wild
  BY <1>1, HeldSame DEF ShellInv
<1>3. Top \in LineType /\ Top.st \in Status /\ FdOf(Top) = {}
  BY <1>1, TopIs DEF ShellInv, LineType, FdOf
<1>4. ~Runnable(Top)
  <2>1. Top.line \in Seq(Segments)
    BY <1>3, ServicesAssumption DEF LineType
  <2>2. Len(Top.line) \in Nat
    BY <2>1, LenProperties
  <2>3. ~(Len(Top.done) < Len(Top.line))
    BY <1>1, <2>2
  <2> QED BY <2>3 DEF Runnable
<1>5. Calls(stack) /\ Others = FdsOf(stack) /\ load.pc = "idle" /\ cmd.pc = "idle" /\ load' = load /\ cmd' = cmd
  BY <1>1, <1>4 DEF ShellInv, CallsOK, Busy, elfvars, netvars
<1>6. Calls(stack') /\ FdsOf(stack') = FdsOf(stack)
  BY <1>1, <1>3, <1>5, ReturnIs DEF Top
<1>7. CallsOK'
  BY <1>2, <1>5, <1>6, CallsNext
<1> QED BY <1>2, <1>7 DEF Keeps, ShellInv

(* A command that is over at once.                                         *)
LEMMA AtOnceKeeps ==
  ASSUME ShellInv, NEW c, c # "blank", Runs(c), NEW st \in Status, SegReturns(st), UNCHANGED <<files, elfvars, netvars>>
  PROVE  Keeps
<1>1. Below(stack) /\ load.pc = "idle" /\ cmd.pc = "idle" /\ stack' = Resume(stack, st)
  BY RunsIs DEF SegReturns, ShellInv
<1>2. HeldInv' /\ Others' = Others /\ wild' = wild
  BY HeldSame DEF ShellInv
<1>3. Calls(stack) /\ Others = FdsOf(stack) /\ load' = load /\ cmd' = cmd
  BY DEF ShellInv, CallsOK, elfvars, netvars
<1>4. Calls(stack') /\ FdsOf(stack') = FdsOf(stack)
  BY <1>1, <1>3, ResumeIs
<1>5. CallsOK'
  BY <1>1, <1>2, <1>3, <1>4, CallsNext
<1> QED BY <1>2, <1>5 DEF Keeps, ShellInv

(* A call that opens a file and goes on in the frame f.                    *)
LEMMA OpenKeeps ==
  ASSUME ShellInv, NEW c, c # "blank", Runs(c), NEW p, Opens(p), NEW f \in Frame, FdOf(f) = {NewFd}, Push(f),
         UNCHANGED <<elfvars, netvars>>
  PROVE  Keeps
<1>1. Below(stack) /\ load.pc = "idle" /\ cmd.pc = "idle" /\ stack' = Append(stack, f)
  BY RunsIs DEF ShellInv, Push
<1>2. UNCHANGED elfvars /\ UNCHANGED netvars
  OBVIOUS
<1>3. LoaderInv' /\ Others' = Others \union {NewFd} /\ NewFd \in Fd /\ NewFd \notin Others /\ wild' = wild
  BY <1>1, <1>2, ShellOpens DEF ShellInv, HeldInv
<1>4. HeldInv' /\ load' = load /\ cmd' = cmd
  BY <1>2, <1>3, FixedSame, NetSame, LoadSame DEF ShellInv, HeldInv
<1>5. Calls(stack) /\ Others = FdsOf(stack)
  BY DEF ShellInv, CallsOK
<1>6. Calls(stack') /\ FdsOf(stack') = FdsOf(stack) \union {NewFd}
  BY <1>1, <1>3, <1>5, CallsPush
<1>7. CallsOK'
  BY <1>1, <1>3, <1>4, <1>5, <1>6, CallsNext
<1> QED BY <1>3, <1>4, <1>7 DEF Keeps, ShellInv

(* The call on top closes its file and returns.                            *)
LEMMA CloseKeeps ==
  ASSUME ShellInv, stack # <<>>, Top.k # "line", Top.fd \in Fd, FdOf(Top) = {Top.fd}, NEW st \in Status,
         ClosesAndFrees(Top.fd, {}), Return(st), UNCHANGED <<elfvars, netvars>>
  PROVE  Keeps
<1>1. load.pc = "idle" /\ cmd.pc = "idle" /\ Calls(stack) /\ Others = FdsOf(stack) /\ stack' = Resume(Front(stack), st)
  BY DEF ShellInv, CallsOK, Busy, Runnable, Return
<1>2. UNCHANGED elfvars /\ UNCHANGED netvars
  OBVIOUS
<1>3. LoaderInv' /\ Others' = Others \ {Top.fd} /\ wild' = wild
  BY <1>1, <1>2, ShellCloses DEF ShellInv, HeldInv
<1>4. HeldInv' /\ load' = load /\ cmd' = cmd
  BY <1>2, <1>3, FixedSame, NetSame, LoadSame DEF ShellInv, HeldInv
<1>5. Calls(stack') /\ FdsOf(stack') = FdsOf(stack) \ {Top.fd}
  BY <1>1, ReturnIs DEF Top
<1>6. CallsOK'
  BY <1>1, <1>3, <1>4, <1>5, CallsNext
<1> QED BY <1>3, <1>4, <1>6 DEF Keeps, ShellInv

(* ls, cat and the like: a file is opened, or the command fails.           *)
LEMMA ShowsKeeps ==
  ASSUME ShellInv, NEW c, c # "blank", Runs(c), NEW paths, NEW st \in Status, Shows(paths, st)
  PROVE  Keeps
<1>1. CASE UNCHANGED files /\ SegReturns(st)
  BY <1>1, AtOnceKeeps DEF Shows
<1>2. CASE \E p \in paths : Opens(p) /\ Push(ShowFrame(NewFd))
  <2>1. PICK p \in paths : Opens(p) /\ Push(ShowFrame(NewFd))
    BY <1>2
  <2>2. NewFd \in Fd
    BY <2>1, OpensIs DEF ShellInv, HeldInv, LoaderInv
  <2>3. ShowFrame(NewFd) \in Frame /\ FdOf(ShowFrame(NewFd)) = {NewFd}
    BY <2>2 DEF Frame, ShowType, ShowFrame, FdOf
  <2> QED BY <2>1, <2>3, OpenKeeps DEF Shows
<1> QED BY <1>1, <1>2 DEF Shows

(* source opens its script.                                                *)
LEMMA SourceKeeps == ASSUME ShellInv, cmd_source PROVE Keeps
<1>1. Runs("source") /\ UNCHANGED <<elfvars, netvars>>
  BY DEF cmd_source
<1>2. CASE UNCHANGED files /\ SegReturns(-1)
  <2>1. -1 \in Status
    BY DEF Status
  <2> QED BY <1>1, <1>2, <2>1, AtOnceKeeps
<1>3. CASE Seg.arg \in DOMAIN Script /\ Opens(Seg.arg) /\ Push(SourceFrame(NewFd, Script[Seg.arg]))
  <2>1. NewFd \in Fd
    BY <1>3, OpensIs DEF ShellInv, HeldInv, LoaderInv
  <2>2. PICK rest \in Seq(Lines) : rest = Script[Seg.arg]
    BY <1>3, ServicesAssumption
  <2>3. SourceFrame(NewFd, rest) \in Frame /\ FdOf(SourceFrame(NewFd, rest)) = {NewFd}
    BY <2>1 DEF Frame, SourceType, SourceFrame, FdOf, Status
  <2> QED BY <1>1, <1>3, <2>2, <2>3, OpenKeeps
<1> QED BY <1>2, <1>3 DEF cmd_source

(* cat closes its file.                                                    *)
LEMMA ShowEndKeeps == ASSUME ShellInv, ShowEnd PROVE Keeps
<1>1. stack # <<>> /\ Top.k = "show" /\ ClosesAndFrees(Top.fd, {}) /\ Return(0) /\ UNCHANGED <<elfvars, netvars>>
  BY DEF ShowEnd, IsTop
<1>2. Top \in ShowType
  BY <1>1, TopIs DEF ShellInv
<1>3. Top.fd \in Fd /\ FdOf(Top) = {Top.fd} /\ 0 \in Status
  BY <1>1, <1>2 DEF ShowType, FdOf, Status
<1> QED BY <1>1, <1>3, CloseKeeps

(* source closes its script at the end.                                    *)
LEMMA SourceEndKeeps == ASSUME ShellInv, SourceEnd PROVE Keeps
<1>1. stack # <<>> /\ Top.k = "source" /\ ClosesAndFrees(Top.fd, {}) /\ Return(Top.st) /\ UNCHANGED <<elfvars, netvars>>
  BY DEF SourceEnd, IsTop
<1>2. Top \in SourceType
  BY <1>1, TopIs DEF ShellInv
<1>3. Top.fd \in Fd /\ FdOf(Top) = {Top.fd} /\ Top.st \in Status
  BY <1>1, <1>2 DEF SourceType, FdOf
<1> QED BY <1>1, <1>3, CloseKeeps

(* source runs the next line of its script.                                *)
LEMMA SourceLineKeeps == ASSUME ShellInv, SourceLine PROVE Keeps
<1>1. /\ stack # <<>> /\ Top.k = "source" /\ Top.rest # <<>> /\ UNCHANGED <<files, elfvars, netvars>>
      /\ stack' = Append(Front(stack), [Top EXCEPT !.rest = Tail(@)]) \o <<LineFrame(Head(Top.rest))>>
  BY DEF SourceLine, IsTop
<1>2. HeldInv' /\ Others' = Others /\ wild' = wild
  BY <1>1, HeldSame DEF ShellInv
<1>3. Top \in SourceType /\ Top.rest \in Seq(Lines)
  BY <1>1, TopIs DEF ShellInv, SourceType
<1>4. Head(Top.rest) \in Lines /\ Tail(Top.rest) \in Seq(Lines)
  BY <1>1, <1>3, HeadTailProperties
<1>5. PICK g : g = [Top EXCEPT !.rest = Tail(@)]
  OBVIOUS
<1>6. g \in SourceType /\ g.fd = Top.fd /\ g.k = "source"
  BY <1>3, <1>4, <1>5 DEF SourceType
<1>7. g \in Frame /\ FdOf(g) = FdOf(Top) /\ Waiting(g)
  BY <1>1, <1>6 DEF Frame, FdOf, Waiting
<1>8. PICK l \in Frame : l = LineFrame(Head(Top.rest)) /\ FdOf(l) = {}
  <2>1. FdOf(LineFrame(Head(Top.rest))) = {}
    BY DEF LineFrame, FdOf
  <2> QED BY <1>4, <2>1, NewLineIs DEF Frame
<1>9. Calls(stack) /\ Others = FdsOf(stack) /\ load.pc = "idle" /\ cmd.pc = "idle" /\ load' = load /\ cmd' = cmd
  BY <1>1 DEF ShellInv, CallsOK, Busy, Runnable, elfvars, netvars
<1>10. PICK s : s = Append(Front(stack), g)
  OBVIOUS
<1>11. Calls(s) /\ FdsOf(s) = FdsOf(stack) /\ Below(s) /\ s \in Seq(Frame)
  <2>1. Calls(s) /\ FdsOf(s) = FdsOf(stack)
    BY <1>1, <1>7, <1>9, <1>10, CallsReplace DEF Top
  <2>2. Front(stack) \in Seq(Frame) /\ Below(Front(stack))
    BY <1>1, <1>9, SplitIs DEF Calls
  <2> QED BY <1>7, <1>10, <2>1, <2>2, PushIs
<1>12. stack' = Append(s, l)
  BY <1>1, <1>5, <1>8, <1>10, <1>11, AppendIsConcat
<1>13. Calls(stack') /\ FdsOf(stack') = FdsOf(stack)
  BY <1>8, <1>11, <1>12, CallsPush
<1>14. CallsOK'
  BY <1>2, <1>9, <1>13, CallsNext
<1> QED BY <1>2, <1>14 DEF Keeps, ShellInv

(* run calls elf_run.                                                      *)
LEMMA RunKeeps == ASSUME ShellInv, cmd_run PROVE Keeps
<1>1. /\ Runs("run") /\ load' = NewLoad("open", Seg.arg, Seg.tid, 0)
      /\ UNCHANGED <<heap, wild, fds, mods, app>> /\ UNCHANGED netvars /\ stack' = stack
  BY DEF cmd_run, elf_run
<1>2. stack # <<>> /\ Runnable(Top) /\ Seg \in Segments /\ Seg.cmd = "run" /\ load.pc = "idle" /\ cmd.pc = "idle"
  BY <1>1, RunsIs DEF ShellInv
<1>3. Seg.tid \in Task \union {0} /\ Seg.arg \in Args
  BY <1>2, ServicesAssumption DEF Args
<1>4. LoaderInv' /\ Others' = Others /\ wild' = wild
  BY <1>1, <1>2, <1>3, LoadIdles DEF ShellInv, HeldInv, files
<1>5. load'.pc = "open" /\ load'.path = Seg.arg /\ load'.tid = Seg.tid
  BY <1>1 DEF NewLoad
<1>6. FixedOK'
  BY <1>1, <1>2, <1>5 DEF ShellInv, HeldInv, FixedOK, Used
<1>7. NetOK' /\ cmd' = cmd
  BY <1>1, NetSame DEF ShellInv, HeldInv
<1>8. CallsOK'
  BY <1>1, <1>2, <1>4, <1>7 DEF ShellInv, CallsOK, Busy, Top
<1> QED BY <1>4, <1>6, <1>7, <1>8 DEF Keeps, ShellInv, HeldInv

(* elf_run returns to run.                                                 *)
LEMMA RunEndKeeps == ASSUME ShellInv, RunEnd PROVE Keeps
<1>1. /\ load.pc = "done" /\ load' = NewLoad("idle", "", 0, 0) /\ UNCHANGED <<files, mods, app, netvars>>
      /\ \E st \in Status : SegReturns(st)
  BY DEF RunEnd, NoLoad, Status
<1>2. PICK st \in Status : stack' = Resume(stack, st)
  BY <1>1 DEF SegReturns
<1>3. "" \in Args /\ 0 \in Task \union {0}
  BY DEF Args
<1>4. LoaderInv' /\ Others' = Others /\ wild' = wild
  BY <1>1, <1>3, LoadIdles DEF ShellInv, HeldInv
<1>5. load'.pc = "idle"
  BY <1>1 DEF NewLoad
<1>6. FixedOK'
  BY <1>1, <1>5 DEF ShellInv, HeldInv, FixedOK, Used
<1>7. NetOK' /\ cmd' = cmd
  BY <1>1, NetSame DEF ShellInv, HeldInv
<1>8. cmd.pc = "idle" /\ Calls(stack) /\ Others = FdsOf(stack) /\ stack # <<>> /\ Runnable(Top)
  BY <1>1 DEF ShellInv, CallsOK, Busy
<1>9. Below(stack)
  BY <1>8, TopIs DEF ShellInv, Waiting
<1>10. Calls(stack') /\ FdsOf(stack') = FdsOf(stack)
  BY <1>2, <1>8, <1>9, ResumeIs
<1>11. CallsOK'
  BY <1>4, <1>5, <1>7, <1>8, <1>10, CallsNext
<1> QED BY <1>4, <1>6, <1>7, <1>11 DEF Keeps, ShellInv, HeldInv

(* kill, which frees what the slot has.                                    *)
LEMMA KillKeeps == ASSUME ShellInv, cmd_kill PROVE Keeps
<1>1. Runs("kill") /\ UNCHANGED netvars /\ 0 \in Status /\ -1 \in Status
  BY DEF cmd_kill, Status
<1>2. CASE SegReturns(-1) /\ UNCHANGED <<files, elfvars>>
  BY <1>1, <1>2, AtOnceKeeps
<1>3. CASE elf_kill(Seg.tid) /\ SegReturns(0)
  <2>1. stack # <<>> /\ Below(stack) /\ Seg \in Segments /\ Seg.cmd = "kill" /\ load.pc = "idle" /\ cmd.pc = "idle"
    BY <1>1, RunsIs DEF ShellInv
  <2>2. LoaderInv' /\ Others' = Others
    BY <1>3, <2>1, KillStep DEF ShellInv, HeldInv
  <2>3. PICK m \in Used :
          /\ mods[m].tskid = Seg.tid /\ (mods[m].img # Window => wild' = wild)
          /\ Used' = Used \ {m} /\ \A n \in Used \ {m} : mods'[n] = mods[n]
    BY <1>3, <2>1, KillStep DEF ShellInv, HeldInv
  <2>4. load' = load
    BY <1>3 DEF elf_kill
  <2>5. FixedOK'
    BY <2>1, <2>3, <2>4 DEF ShellInv, HeldInv, FixedOK
  <2>6. KillsHeapOnly => wild' = wild
    BY <2>1, <2>3 DEF ShellInv, HeldInv, FixedOK, KillsHeapOnly
  <2>7. NetOK' /\ cmd' = cmd
    BY <1>1, NetSame DEF ShellInv, HeldInv
  <2>8. Calls(stack) /\ Others = FdsOf(stack) /\ stack' = Resume(stack, 0)
    BY <1>3 DEF ShellInv, CallsOK, SegReturns
  <2>9. Calls(stack') /\ FdsOf(stack') = FdsOf(stack)
    BY <1>1, <2>1, <2>8, ResumeIs
  <2>10. CallsOK'
    BY <2>1, <2>2, <2>4, <2>7, <2>8, <2>9, CallsNext
  <2> QED BY <2>2, <2>5, <2>6, <2>7, <2>10 DEF Keeps, ShellInv, HeldInv
<1> QED BY <1>2, <1>3 DEF cmd_kill

(* ping, ifconfig and arp start.                                           *)
LEMMA NetCmdKeeps == ASSUME ShellInv, NetCmd PROVE Keeps
<1>1. /\ \E c \in {"ping", "ifconfig", "arp"} : Runs(c)
      /\ ping_start \/ \E what \in {"ifconfig", "arp"} : if_start(what)
      /\ UNCHANGED <<files, elfvars>> /\ stack' = stack
  BY DEF NetCmd
<1>2. stack # <<>> /\ Runnable(Top) /\ load.pc = "idle" /\ cmd.pc = "idle"
  BY <1>1, RunsIs DEF ShellInv
<1>3. NetOK'
  BY <1>1, <1>2, NetStart DEF ShellInv, HeldInv
<1>4. UNCHANGED <<heap, wild, fds, mods, app, load>>
  BY <1>1 DEF files, elfvars
<1>5. LoaderInv' /\ FixedOK' /\ Others' = Others
  <2>1. HeapOK /\ LoadOK /\ SlotsOK /\ AppOK
    BY DEF ShellInv, HeldInv, LoaderInv
  <2>2. SlotsOK' /\ Slots' = Slots /\ AppOK' /\ FdsOK' /\ Files' = Files /\ Loading' = Loading
    BY <1>4, <2>1, SlotsSame, AppSame, FdsSame DEF Loading, Held, InLoad
  <2>3. HeapOK' /\ LoadOK'
    BY <1>4, <2>1, <2>2 DEF HeapOK, LoadOK, ImageOK
  <2>4. FixedOK' /\ Others' = Others
    BY <1>4 DEF ShellInv, HeldInv, FixedOK, Used, Others
  <2> QED BY <2>2, <2>3, <2>4 DEF LoaderInv
<1>6. CallsOK'
  BY <1>1, <1>2, <1>4, <1>5 DEF ShellInv, CallsOK, Busy, Top
<1> QED BY <1>3, <1>4, <1>5, <1>6 DEF Keeps, ShellInv, HeldInv

(* The loader's part, when only the network's or the stack changes.        *)
LEMMA LoaderSame ==
  ASSUME HeldInv, UNCHANGED <<files, elfvars>> PROVE LoaderInv' /\ FixedOK' /\ Others' = Others /\ wild' = wild /\ load' = load
<1>1. UNCHANGED <<heap, wild, fds, mods, app, load>> /\ HeapOK /\ LoadOK /\ SlotsOK /\ AppOK
  BY DEF files, elfvars, HeldInv, LoaderInv
<1>2. SlotsOK' /\ Slots' = Slots /\ AppOK' /\ FdsOK' /\ Files' = Files /\ Loading' = Loading
  BY <1>1, SlotsSame, AppSame, FdsSame DEF Loading, Held, InLoad
<1>3. HeapOK' /\ LoadOK'
  BY <1>1, <1>2 DEF HeapOK, LoadOK, ImageOK
<1>4. FixedOK' /\ Others' = Others
  BY <1>1 DEF HeldInv, FixedOK, Used, Others
<1> QED BY <1>1, <1>2, <1>3, <1>4 DEF LoaderInv

(* They return.                                                            *)
LEMMA NetCmdEndKeeps == ASSUME ShellInv, NetCmdEnd PROVE Keeps
<1>1. /\ cmd.pc = "done" /\ cmd' = NoCmd /\ UNCHANGED <<core, pcb, sem, wire, up>> /\ UNCHANGED <<files, elfvars>>
      /\ stack' = Resume(stack, cmd.rc)
  BY DEF NetCmdEnd, SegReturns
<1>2. NetOK' /\ cmd.rc \in Status /\ cmd'.pc = "idle"
  BY <1>1, NetEnd DEF ShellInv, HeldInv
<1>3. LoaderInv' /\ FixedOK' /\ Others' = Others /\ wild' = wild /\ load' = load
  BY <1>1, LoaderSame DEF ShellInv
<1>4. load.pc = "idle" /\ Calls(stack) /\ Others = FdsOf(stack) /\ stack # <<>> /\ Runnable(Top)
  BY <1>1 DEF ShellInv, CallsOK, Busy
<1>5. Below(stack)
  BY <1>4, TopIs DEF ShellInv, Waiting
<1>6. Calls(stack') /\ FdsOf(stack') = FdsOf(stack)
  BY <1>1, <1>2, <1>4, <1>5, ResumeIs
<1>7. CallsOK'
  BY <1>2, <1>3, <1>4, <1>6, CallsNext
<1> QED BY <1>2, <1>3, <1>7 DEF Keeps, ShellInv, HeldInv

(* elf_run goes on; the calls wait.                                        *)
LEMMA LoaderStepKeeps == ASSUME ShellInv, LoaderStep, UNCHANGED <<netvars, stack>> PROVE Keeps
<1>1. LoaderInv' /\ Others' = Others /\ wild' = wild /\ FixedOK'
  BY LoaderKeeps, FixedKeeps DEF ShellInv, HeldInv
<1>2. NetOK' /\ cmd' = cmd /\ stack' = stack
  BY NetSame DEF ShellInv, HeldInv
<1>3. load.pc # "idle"
  BY DEF LoaderStep, load_open, load_read, load_image, run_alloc, run_create, run_activate, run_record, At
<1>4. cmd.pc = "idle" /\ stack # <<>> /\ Runnable(Top) /\ Calls(stack) /\ Others = FdsOf(stack)
  BY <1>3 DEF ShellInv, CallsOK, Busy
<1>5. CallsOK'
  BY <1>1, <1>2, <1>4 DEF CallsOK, Top
<1> QED BY <1>1, <1>2, <1>5 DEF Keeps, ShellInv, HeldInv

(* A network command goes on, or lwIP's thread does.                       *)
LEMMA PingStepKeeps == ASSUME ShellInv, PingStep \/ TcpipStep, UNCHANGED <<files, elfvars, stack>> PROVE Keeps
<1>1. LoaderInv' /\ FixedOK' /\ Others' = Others /\ wild' = wild /\ load' = load /\ stack' = stack
  BY LoaderSame DEF ShellInv
<1>2. CASE PingStep
  <2>1. NetOK' /\ cmd.pc # "idle"
    BY <1>2, PingKeeps DEF ShellInv, HeldInv
  <2>2. load.pc = "idle" /\ stack # <<>> /\ Runnable(Top) /\ Calls(stack) /\ Others = FdsOf(stack)
    BY <2>1 DEF ShellInv, CallsOK, Busy
  <2>3. CallsOK'
    BY <1>1, <2>2 DEF CallsOK, Top
  <2> QED BY <1>1, <2>1, <2>3 DEF Keeps, ShellInv, HeldInv
<1>3. CASE TcpipStep
  <2>1. NetOK' /\ cmd' = cmd
    BY <1>3, TcpipKeeps DEF ShellInv, HeldInv
  <2>2. CallsOK'
    BY <1>1, <2>1 DEF ShellInv, CallsOK, Busy, Top
  <2> QED BY <1>1, <2>1, <2>2 DEF Keeps, ShellInv, HeldInv
<1> QED BY <1>2, <1>3

(* A program ends by itself.                                               *)
LEMMA EndsKeeps ==
  ASSUME ShellInv, NEW t \in Task, AppReturns(t) \/ AppDeleted(t), UNCHANGED <<netvars, stack>> PROVE Keeps
<1>1. LoaderInv' /\ Others' = Others /\ wild' = wild
  BY EndsStep DEF ShellInv, HeldInv
<1>2. load' = load /\ mods' = mods
  BY DEF AppReturns, AppDeleted
<1>3. FixedOK'
  BY <1>2 DEF ShellInv, HeldInv, FixedOK, Used
<1>4. NetOK' /\ cmd' = cmd /\ stack' = stack
  BY NetSame DEF ShellInv, HeldInv
<1>5. CallsOK'
  BY <1>1, <1>2, <1>4 DEF ShellInv, CallsOK, Busy, Top
<1> QED BY <1>1, <1>3, <1>4, <1>5 DEF Keeps, ShellInv, HeldInv

(* Every step of the shell's part keeps the invariant.                     *)
LEMMA ShellKeeps == ASSUME ShellInv, ShellNext PROVE Keeps
<1>1. 0 \in Status /\ -1 \in Status
  BY DEF Status
<1>2. CASE unknown \/ cmd_echo \/ cmd_ls
  BY <1>1, <1>2, AtOnceKeeps DEF unknown, cmd_echo, cmd_ls
<1>3. CASE cmd_cat \/ cmd_ps \/ cmd_irq \/ cmd_ticks \/ cmd_load
  BY <1>1, <1>3, ShowsKeeps DEF cmd_cat, cmd_ps, cmd_irq, cmd_ticks, cmd_load
<1>4. CASE ShellStep
  BY <1>2, <1>3, <1>4, PassOverKeeps, EndOfLineKeeps, ShowEndKeeps, SourceKeeps, SourceLineKeeps, SourceEndKeeps,
     RunKeeps, RunEndKeeps, KillKeeps, NetCmdKeeps, NetCmdEndKeeps, LoaderStepKeeps, PingStepKeeps DEF ShellStep
<1>5. CASE ReadLine \/ Tcpip \/ \E t \in Task : (AppReturns(t) \/ AppDeleted(t)) /\ UNCHANGED <<netvars, stack>>
  BY <1>5, ReadLineKeeps, PingStepKeeps, EndsKeeps DEF Tcpip
<1> QED BY <1>4, <1>5 DEF ShellNext

------------------------------------------------------------------------------
(* The invariant holds throughout.                                         *)
LEMMA ShellInit == ASSUME Init PROVE ShellInv /\ wild = {}
<1>1. /\ heap = {} /\ wild = {} /\ fds = [d \in Fd |-> FreeFd] /\ mods = [m \in Mod |-> FreeMod]
      /\ load = NewLoad("idle", "", 0, 0) /\ stack = <<>> /\ NetInit
      /\ app = [t \in Task |-> IF t = SHELL THEN [NoTask EXCEPT !.st = "RUN"] ELSE NoTask]
  BY DEF Init, FilesInit, ElfInit, NoLoad
<1>2. /\ load.pc = "idle" /\ load.fd = -1 /\ load.buf = 0 /\ load.owned = FALSE /\ load.stk = 0
      /\ load \in LoadType
  <2>1. "idle" \in LoadPc /\ "" \in Args /\ 0 \in Task \union {0} /\ 0 \in Int \union Task
    BY DEF LoadPc, Args
  <2>2. load \in LoadType
    BY <1>1, <2>1, NewLoadIs
  <2> QED BY <1>1, <2>2 DEF NewLoad
<1>3. FdsOK /\ Files = {} /\ {d \in Fd : fds[d].used} = {}
  <2>1. \A d \in Fd : fds[d] = FreeFd /\ fds[d].used = FALSE /\ fds[d].blks = {}
    BY <1>1 DEF FreeFd
  <2>2. fds \in [Fd -> [used : BOOLEAN, blks : SUBSET Block]]
    BY <1>1 DEF FreeFd
  <2> QED BY <2>1, <2>2 DEF FdsOK, Files
<1>4. Used = {} /\ Slots = {} /\ SlotsOK
  <2>1. \A m \in Mod : mods[m].used = FALSE
    BY <1>1 DEF FreeMod
  <2>2. mods \in [Mod -> ModType]
    BY <1>1 DEF FreeMod, ModType
  <2> QED BY <2>1, <2>2 DEF Used, Slots, SlotsOK
<1>5. HeapOK
  <2>1. Loading = {}
    BY <1>2 DEF Loading, Held
  <2> QED BY <1>1, <1>3, <1>4, <2>1 DEF HeapOK
<1>6. LoadOK
  BY <1>2 DEF LoadOK
<1>7. AppOK
  <2>1. app[SHELL] = [NoTask EXCEPT !.st = "RUN"] /\ \A t \in Task \ {SHELL} : app[t] = NoTask
    BY <1>1, ShellIs
  <2>2. app \in [Task -> AppType]
    BY <1>1 DEF NoTask, AppType
  <2> QED BY <2>1, <2>2 DEF AppOK, NoTask
<1>8. FixedOK
  BY <1>2, <1>4 DEF FixedOK
<1>9. NetOK /\ cmd.pc = "idle"
  BY <1>1, NetInitOK
<1>10. CallsOK
  BY <1>1, <1>2, <1>3, <1>9, NoCalls DEF CallsOK, Busy, Others
<1> QED BY <1>1, <1>5, <1>6, <1>7, <1>4, <1>8, <1>9, <1>10 DEF ShellInv, HeldInv, LoaderInv

(* Every step does.                                                        *)
LEMMA ShellNextKeeps == ASSUME ShellInv, [Next]_vars PROVE Keeps
<1>1. CASE ShellNext
  BY <1>1, ShellKeeps
<1>2. CASE UNCHANGED shellvars
  <2>1. UNCHANGED <<files, elfvars, netvars>> /\ stack' = stack
    BY <1>2 DEF shellvars
  <2>2. HeldInv' /\ Others' = Others /\ wild' = wild
    BY <2>1, HeldSame DEF ShellInv
  <2>3. load' = load /\ cmd' = cmd
    BY <2>1 DEF elfvars, netvars
  <2>4. CallsOK'
    BY <2>1, <2>2, <2>3 DEF ShellInv, CallsOK, Busy, Top
  <2> QED BY <2>2, <2>4 DEF Keeps, ShellInv
<1> QED BY <1>1, <1>2 DEF Next, Of, vars

(* The invariant is one.                                                   *)
LEMMA ShellInvariance == Spec => [](ShellInv /\ (KillsHeapOnly => wild = {}))
<1>1. Init => ShellInv /\ (KillsHeapOnly => wild = {})
  BY ShellInit
<1>2. ShellInv /\ (KillsHeapOnly => wild = {}) /\ [Next]_vars => (ShellInv /\ (KillsHeapOnly => wild = {}))'
  BY ShellNextKeeps DEF Keeps, KillsHeapOnly, FixedIds, Ids
<1> QED BY <1>1, <1>2, PTL DEF Spec

------------------------------------------------------------------------------
(* What follows of it.                                                     *)
LEMMA ChainHolds == ASSUME ShellInv PROVE ChainRule
<1>1. stack \in Seq(Frame)
  BY DEF ShellInv, CallsOK, Calls
<1>2. ASSUME NEW i \in DOMAIN stack, stack[i].k = "line" PROVE stack[i] \in LineType /\ LineOK(stack[i])
  <2>1. stack[i] \in Frame
    BY <1>1
  <2> QED BY <1>2, <2>1 DEF Frame, SourceType, ShowType
<1>3. ASSUME NEW i \in DOMAIN stack, stack[i].k = "line", NEW j \in DOMAIN stack[i].done
      PROVE  Decided(stack[i], Truth(stack[i]), j)
  BY <1>2, <1>3, LineTruth
<1> QED BY <1>3 DEF ChainRule, Decided

(* ping's semaphore and frame outlive its pcb.                             *)
LEMMA PingHolds == ASSUME ShellInv PROVE PingFrameAlive
BY DEF ShellInv, HeldInv, NetOK, PingFrameAlive, PingPc, PcbPc, CorePc

(* Programs have their memory, and can be killed.                          *)
LEMMA ProgramsHold == ASSUME ShellInv PROVE ProgramsOK
<1>1. LoaderInv /\ HeapOK /\ LoadOK /\ SlotsOK /\ AppOK
  BY DEF ShellInv, HeldInv, LoaderInv
<1>2. NoUseAfterFree
  <2> SUFFICES ASSUME NEW t \in Task \ {SHELL}, app[t].st # "NOEXS"
               PROVE  {app[t].img, app[t].stk} \subseteq heap \union {Window}
    BY DEF NoUseAfterFree
  <2>1. CASE InSlot(t)
    <3>1. PICK m \in Used : mods[m].img = app[t].img /\ mods[m].stk = app[t].stk
      BY <2>1 DEF InSlot
    <3>2. Memory(m) \subseteq heap
      BY <1>1 DEF HeapOK, Slots
    <3> QED BY <3>1, <3>2 DEF Memory
  <2>2. CASE InLoad(t)
    <3>1. app[t].img = load.img /\ app[t].stk = load.stk /\ load.pc \in {"create", "activate", "record"}
      BY <1>1, <2>2 DEF InLoad, LoadOK
    <3>2. Loading = Held /\ Held = {load.img, load.stk} \ {Window}
      BY <1>1, <3>1, LateIs
    <3>3. Held \subseteq heap
      BY <1>1, <3>2 DEF HeapOK
    <3> QED BY <3>1, <3>2, <3>3
  <2> QED BY <1>1, <2>1, <2>2 DEF AppOK
<1>3. Killable
  BY <1>1 DEF Killable, AppOK, InSlot, InLoad, Used
<1> QED BY <1>2, <1>3 DEF ProgramsOK

(* Descriptors are those of the calls under way.                           *)
LEMMA DescriptorsHold == ASSUME ShellInv PROVE DescriptorsExact
<1>1. LoadOK /\ load \in LoadType /\ Calls(stack) /\ Others = FdsOf(stack) /\ stack \in Seq(Frame)
  BY DEF ShellInv, HeldInv, LoaderInv, CallsOK, Calls, LoadOK
<1>2. FrameFds = FdsOf(stack)
  BY DEF FrameFds, FdsOf, FdOf, Opener
<1>3. CASE load.fd = -1
  <2>1. Others = {d \in Fd : fds[d].used}
    BY <1>3, ShellIs DEF Others
  <2> QED BY <1>1, <1>2, <1>3, <2>1 DEF DescriptorsExact, Others, Calls, Apart, FdOf, Opener
<1>4. CASE load.fd # -1
  <2>1. load.pc = "read"
    BY <1>1, <1>4 DEF LoadOK, LoadType, LoadPc
  <2>2. load.fd \in Fd /\ fds[load.fd].used
    BY <1>1, <2>1 DEF LoadOK
  <2>3. load.fd >= 0
    BY <2>2, FilesAssumption DEF Fd
  <2> QED BY <1>1, <1>2, <2>2, <2>3 DEF DescriptorsExact, Others, Calls, Apart, FdOf, Opener
<1> QED BY <1>3, <1>4

(* The heap is what its holders have.                                      *)
LEMMA HeapHolds == ASSUME ShellInv, wild = {} PROVE HeapExact
<1>1. HeapOK /\ SlotsOK
  BY DEF ShellInv, HeldInv, LoaderInv
<1>2. Owned.files = Files /\ Owned.loading = Loading
  BY DEF Owned, Files, Loading
<1>3. Owned.slots = Slots
  BY DEF Owned, Slots
<1>4. ASSUME NEW m \in Mod, NEW n \in Mod, mods[m].used, mods[n].used, m # n PROVE mods[m].stk # mods[n].stk
  <2>1. m \in Used /\ n \in Used
    BY <1>4 DEF Used
  <2>2. mods[m].stk \in Memory(m) /\ mods[n].stk \in Memory(n)
    BY <1>1, <2>1, BlocksAre DEF SlotsOK, Memory
  <2>3. Memory(m) \intersect Memory(n) = {}
    BY <1>1, <1>4, <2>1 DEF SlotsOK
  <2> QED BY <2>2, <2>3
<1> HIDE DEF Owned
<1> QED BY <1>1, <1>2, <1>3, <1>4 DEF HeapExact, HeapOK

(* Types.                                                                  *)
LEMMA TypeHolds == ASSUME ShellInv PROVE TypeOK
<1>1. heap \subseteq Block /\ mods \in [Mod -> ModType] /\ app \in [Task -> AppType]
  BY DEF ShellInv, HeldInv, LoaderInv, HeapOK, SlotsOK, AppOK
<1>2. core \in {"free", "shell", "tcpip"} /\ sem.cnt \in Nat /\ sem.cnt <= Batches(PINGS)
  BY DEF ShellInv, HeldInv, NetOK
<1>3. Batches(PINGS) \in Nat /\ Batches(PINGS) = 2 * PINGS * MAXCOPIES
  BY NetShellAssumption, BatchesIs DEF Batches
<1>4. sem.cnt \in 0..Batches(PINGS)
  BY <1>2, <1>3
<1> QED BY <1>1, <1>2, <1>3, <1>4 DEF TypeOK, ModType, AppType

(* A line's segments run exactly when the and-or list before them leaves   *)
(* it to them, whatever they call and however source nests; and ping's     *)
(* semaphore and frame outlive its pcb (shell_parse.c, shell_net.c).       *)
THEOREM ShellCommandsOK == Spec => []CommandsOK
<1>1. ShellInv => CommandsOK
  BY ChainHolds, PingHolds DEF CommandsOK
<1> QED BY <1>1, ShellInvariance, PTL

(* A loaded program has its memory as long as it may run, and kill finds   *)
(* it, for any number of slots and IDs (elf_load.c).                       *)
THEOREM ShellProgramsOK == Spec => []ProgramsOK
<1>1. ShellInv => ProgramsOK
  BY ProgramsHold
<1> QED BY <1>1, ShellInvariance, PTL

(* Descriptors and heap belong to the calls under way and to the loaded    *)
(* programs, for any heap, any lines and scripts: of which none kills a    *)
(* program of the fixed window, which elf_kill would free.                 *)
THEOREM ShellHoldingsExact == ASSUME KillsHeapOnly PROVE Spec => []HoldingsExact
<1>1. ShellInv /\ (KillsHeapOnly => wild = {}) => HoldingsExact
  BY TypeHolds, DescriptorsHold, HeapHolds DEF HoldingsExact
<1> QED BY <1>1, ShellInvariance, PTL

------------------------------------------------------------------------------
(* Readers of /proc and /sys.                                              *)
Names == ProcFile \union SysFile \union Dir \union {""}
Val == Int \union (Nat \X Nat) \union Names
Write == [i : Int, c : Int]
RdType ==
  [at : {"closed", "gen", "fill", "alloc", "open", "list", "listed"}, name : Names, seen : Seq(Val),
   todo : Seq(Write), text : Seq(Int), len : Nat, pos : Nat, snap : Seq(Int), torn : {FALSE}, opens : Nat]

(* What was counted.                                                       *)
TelOK ==
  /\ tel \in [ticks : 0..MaxTicks, wall : Nat, idle : Nat, run : [Reader -> Nat]]
  /\ tel.wall = tel.ticks /\ tel.idle <= tel.wall
TimOK ==
  /\ tim \in [st_high : Nat, st_low : 0..(TIC_DENO - 1)]
  /\ tim.st_high * TIC_DENO + tim.st_low = tel.ticks

(* An open that has read some counters: nothing became idle meanwhile.     *)
GenOK(f) ==
  f.at = "gen" =>
    /\ f.pos = 0
    /\ (Reads(f.name) = <<>> /\ f.seen = <<>>) \/ Len(f.seen) < Len(Reads(f.name))
    /\ \A j \in 1..Len(f.seen) : Reads(f.name)[j] # "tim" => f.seen[j] \in Nat
    /\ f.name \in {"stat", "cpu/load"} =>
         /\ Len(f.seen) >= 1 => tel.idle <= f.seen[1]
         /\ Len(f.seen) >= 2 => f.seen[2] <= f.seen[1]
         /\ Len(f.seen) >= 3 => tel.idle <= f.seen[3]

(* A text is what a reader may expect of it.                               *)
SnapOK(f) ==
  f.snap # <<>> =>
    /\ f.name = "stat" => f.snap[2] <= f.snap[1] /\ f.snap[3] <= 100
    /\ f.name = "cpu/load" => f.snap[1] <= 100
    /\ f.name = "ticks" => Len(f.snap) = 2 /\ f.snap[2] < TIC_DENO /\ f.snap[1] * TIC_DENO + f.snap[2] <= tel.ticks

(* The buffer of a file of /sys, and the characters still to be written:   *)
(* the last of those for a place, if there is one, is the text's.          *)
Target(f, i) == IF i <= Len(f.snap) THEN f.snap[i] ELSE NUL
LastWrite(f, i, j) == f.todo[j] = [i |-> i, c |-> Target(f, i)] /\ \A k \in (j + 1)..Len(f.todo) : f.todo[k].i # i
Reached(f, i) == bufs[f.name][i] = Target(f, i) /\ \A j \in 1..Len(f.todo) : f.todo[j].i # i
FillOK(f) ==
  f.at \in {"fill", "alloc", "open"} /\ f.name \in SysBuffered =>
    /\ Len(f.snap) + 1 \in 2..BUFSZ /\ \A i \in 1..Len(f.snap) : f.snap[i] # NUL
    /\ \A j \in 1..Len(f.todo) : f.todo[j].i \in 1..BUFSZ
    /\ \A i \in 1..(Len(f.snap) + 1) : Reached(f, i) \/ \E j \in 1..Len(f.todo) : LastWrite(f, i, j)

(* A listing so far.                                                       *)
ListOK(f) ==
  f.at \in {"list", "listed"} =>
    /\ f.name \in Dir /\ f.pos <= Len(Listing(f.name)) /\ Len(f.seen) = f.pos
    /\ \A j \in 1..f.pos : f.seen[j] = Listing(f.name)[j]
    /\ f.at = "listed" => f.pos = Len(Listing(f.name))

PlaceOK(f) ==
  /\ f.at \in {"closed", "gen", "list", "listed"} => f.snap = <<>> /\ f.todo = <<>>
  /\ f.at \in {"gen", "fill", "alloc", "open"} => f.name \in Opened
  /\ f.at = "fill" => f.name \in SysBuffered /\ f.todo # <<>>
  /\ f.at \in {"alloc", "open"} => f.todo = <<>>
  /\ f.at \in {"fill", "alloc"} => f.pos = 0
  /\ f.at = "open" => f.len = Len(f.snap) /\ f.pos <= f.len /\ (f.name \in ProcFile => f.text = f.snap)
ReaderOK(f) == f \in RdType /\ PlaceOK(f) /\ GenOK(f) /\ SnapOK(f) /\ FillOK(f) /\ ListOK(f)
Exclusive ==
  \A q, r \in Reader : q # r /\ Opening(q) /\ Opening(r) /\ rd[q].name \in SysBuffered => rd[q].name # rd[r].name
ReadInv ==
  /\ TelOK /\ TimOK /\ ready \subseteq Reader
  /\ bufs \in [SysBuffered -> [1..BUFSZ -> Int]]
  /\ rd \in [Reader -> RdType]
  /\ \A r \in Reader : rd[r].at \notin {"closed", "open"} => r \in ready
  /\ \A r \in Reader : ReaderOK(rd[r])
  /\ Exclusive /\ pheap \in Nat /\ HandlesFreed

(* Two thirds, say, rounded, of a hundred.                                 *)
LEMMA PctIs ==
  ASSUME NEW w \in Nat, NEW n \in Nat
  PROVE  cpu_pct(w, n) \in Nat /\ (n <= w => cpu_pct(w, n) <= 100)
<1>1. CASE w = 0
  BY <1>1 DEF cpu_pct
<1>2. CASE w # 0
  <2> DEFINE p == n * 100 + w \div 2
             q == p \div w
  <2>1. w \div 2 \in Nat /\ 2 * (w \div 2) <= w
    OBVIOUS
  <2>2. p \in Nat
    BY <2>1
  <2>3. cpu_pct(w, n) = q
    BY <1>2 DEF cpu_pct
  <2> HIDE DEF p
  <2>4. q \in Nat /\ (p % w) \in Nat /\ p = q * w + (p % w)
    BY <1>2, <2>2
  <2> HIDE DEF q
  <2>5. ASSUME n <= w, q >= 101 PROVE FALSE
    <3>1. q * w >= 101 * w
      BY <2>4, <2>5
    <3>2. p <= w * 100 + w \div 2
      BY <2>1, <2>5 DEF p
    <3> QED BY <1>2, <2>1, <2>2, <2>4, <3>1, <3>2
  <2> QED BY <2>3, <2>4, <2>5
<1> QED BY <1>1, <1>2

(* The one task that runs, if any is ready.                                *)
LEMMA RunsIsReady ==
  ASSUME ready \subseteq Reader
  PROVE  runtsk \subseteq ready /\ (runtsk = {} <=> ready = {})
<1>1. CASE ready = {}
  BY <1>1 DEF runtsk
<1>2. CASE ready # {}
  <2>1. ready \in SUBSET Nat
    BY ProcFsAssumption, FS_CardinalityType
  <2>2. PICK m \in ready : \A q \in ready : m <= q
    BY <1>2, <2>1, LeastNumber
  <2>3. (CHOOSE r \in ready : \A q \in ready : r <= q) \in ready
    BY <2>2
  <2> QED BY <1>2, <2>3 DEF runtsk
<1> QED BY <1>1, <1>2

(* A step of one reader, in its own call.  The others see of it no more    *)
(* than a shared buffer which none of them has open.                       *)
LEMMA OneReader ==
  ASSUME ReadInv, NEW r \in Reader, NEW v, v \in RdType, Sets(r, v),
         UNCHANGED <<tel, tim, ready>>, r \in ready, ReaderOK(v)',
         bufs' \in [SysBuffered -> [1..BUFSZ -> Int]],
         \A n \in SysBuffered : bufs'[n] = bufs[n] \/ (n = rd[r].name /\ Opening(r)),
         Exclusive', pheap' \in Nat, HandlesFreed'
  PROVE  ReadInv'
<1>1. rd' \in [Reader -> RdType] /\ rd'[r] = v /\ \A q \in Reader : q # r => rd'[q] = rd[q]
  BY DEF ReadInv, Sets
<1>2. TelOK' /\ TimOK' /\ (ready \subseteq Reader)'
  BY DEF ReadInv, TelOK, TimOK
<1>3. \A q \in Reader : rd'[q].at \notin {"closed", "open"} => q \in ready'
  BY <1>1 DEF ReadInv
<1>4. ASSUME NEW q \in Reader, q # r PROVE ReaderOK(rd[q])'
  <2>1. PICK f : f = rd[q] /\ rd'[q] = f
    BY <1>1, <1>4
  <2>2. ReaderOK(f)
    BY <2>1 DEF ReadInv
  <2>3. ASSUME f.at \in {"fill", "alloc", "open"}, f.name \in SysBuffered PROVE bufs'[f.name] = bufs[f.name]
    BY <1>4, <2>1, <2>3 DEF ReadInv, Exclusive, Opening
  <2>4. PlaceOK(f)' /\ GenOK(f)' /\ SnapOK(f)' /\ ListOK(f)'
    BY <2>2 DEF ReaderOK, PlaceOK, GenOK, SnapOK, ListOK, Reads
  <2>5. FillOK(f)'
    BY <2>2, <2>3 DEF ReaderOK, FillOK, Reached, LastWrite, Target
  <2> QED BY <2>1, <2>2, <2>4, <2>5 DEF ReaderOK, RdType
<1>5. \A q \in Reader : ReaderOK(rd[q])'
  BY <1>1, <1>4
<1> QED BY <1>1, <1>2, <1>3, <1>5 DEF ReadInv

(* Blocks and handles.                                                     *)
OpenIn(S) == {r \in Reader : rd[r].at = "open" /\ rd[r].name \in S}

(* The handles, counted by where their files are.                          *)
LEMMA FreedIs ==
  /\ HandlesFreed <=> pheap = 2 * Cardinality(OpenIn(ProcFile)) + Cardinality(OpenIn(SysFile))
  /\ HandlesFreed' <=> pheap' = 2 * Cardinality(OpenIn(ProcFile)') + Cardinality(OpenIn(SysFile)')
BY DEF HandlesFreed, OpenIn

(* Open handles are finitely many.                                         *)
LEMMA OpenCounts ==
  ASSUME NEW S PROVE IsFiniteSet(OpenIn(S)) /\ Cardinality(OpenIn(S)) \in Nat
<1>1. OpenIn(S) \subseteq Reader
  BY DEF OpenIn
<1> QED BY <1>1, ProcFsAssumption, FS_Subset, FS_CardinalityType

(* A step that opens and closes nothing leaves the handles alone.          *)
LEMMA SameHandles ==
  ASSUME ReadInv, NEW r \in Reader, NEW v \in RdType, Sets(r, v), pheap' = pheap,
         (v.at # "open" /\ rd[r].at # "open") \/ (v.at = rd[r].at /\ v.name = rd[r].name)
  PROVE  HandlesFreed' /\ pheap' \in Nat
<1>1. rd'[r] = v /\ \A q \in Reader : q # r => rd'[q] = rd[q]
  BY DEF ReadInv, Sets
<1>2. ASSUME NEW S PROVE OpenIn(S)' = OpenIn(S)
  BY <1>1 DEF OpenIn
<1> QED BY <1>2, FreedIs DEF ReadInv

(* The names of /proc, of /sys and of directories are different ones.      *)
LEMMA KindsDiffer == ProcFile \intersect SysFile = {} /\ Dir \intersect (ProcFile \union SysFile) = {} /\ SysBuffered \subseteq SysFile
BY DEF ProcFile, SysFile, SysBuffered, Dir

(* A handle more, or one less, in memory of its own.                       *)
LEMMA HandleOpens ==
  ASSUME ReadInv, NEW r \in Reader, NEW v \in RdType, Sets(r, v), rd[r].at # "open", v.at = "open",
         \/ v.name \in ProcFile /\ pheap' = pheap + 2
         \/ v.name \in SysFile /\ pheap' = pheap + 1
  PROVE  HandlesFreed' /\ pheap' \in Nat
<1>1. rd'[r] = v /\ \A q \in Reader : q # r => rd'[q] = rd[q]
  BY DEF ReadInv, Sets
<1>2. ASSUME NEW S, v.name \in S PROVE Cardinality(OpenIn(S)') = Cardinality(OpenIn(S)) + 1
  <2>1. OpenIn(S)' = OpenIn(S) \union {r} /\ r \notin OpenIn(S)
    BY <1>1, <1>2 DEF OpenIn
  <2> QED BY <2>1, OpenCounts, FS_AddElement
<1>3. ASSUME NEW S, v.name \notin S PROVE Cardinality(OpenIn(S)') = Cardinality(OpenIn(S))
  <2>1. OpenIn(S)' = OpenIn(S)
    BY <1>1, <1>3 DEF OpenIn
  <2> QED BY <2>1
<1>4. pheap \in Nat /\ HandlesFreed
  BY DEF ReadInv
<1>5. Cardinality(OpenIn(ProcFile)) \in Nat /\ Cardinality(OpenIn(SysFile)) \in Nat
  BY OpenCounts
<1>6. CASE v.name \in ProcFile
  <2>1. v.name \notin SysFile /\ pheap' = pheap + 2
    BY <1>6, KindsDiffer
  <2> QED BY <1>2, <1>3, <1>4, <1>5, <1>6, <2>1, FreedIs
<1>7. CASE v.name \in SysFile
  <2>1. v.name \notin ProcFile /\ pheap' = pheap + 1
    BY <1>7, KindsDiffer
  <2> QED BY <1>2, <1>3, <1>4, <1>5, <1>7, <2>1, FreedIs
<1> QED BY <1>6, <1>7

(* A close gives back exactly what its open took.                          *)
LEMMA HandleCloses ==
  ASSUME ReadInv, NEW r \in Reader, NEW v \in RdType, Sets(r, v), rd[r].at = "open", v.at # "open",
         \/ rd[r].name \in ProcFile /\ pheap' = pheap - 2
         \/ rd[r].name \in SysFile /\ pheap' = pheap - 1
  PROVE  HandlesFreed' /\ pheap' \in Nat
<1>1. rd'[r] = v /\ \A q \in Reader : q # r => rd'[q] = rd[q]
  BY DEF ReadInv, Sets
<1>2. ASSUME NEW S, rd[r].name \in S PROVE Cardinality(OpenIn(S)') = Cardinality(OpenIn(S)) - 1 /\ Cardinality(OpenIn(S)) >= 1
  <2>1. OpenIn(S)' = OpenIn(S) \ {r} /\ r \in OpenIn(S)
    BY <1>1, <1>2 DEF OpenIn
  <2>2. Cardinality(OpenIn(S)) # 0
    BY <2>1, OpenCounts, FS_EmptySet
  <2>3. PICK O : O = OpenIn(S) /\ IsFiniteSet(O) /\ Cardinality(O) \in Nat
    BY OpenCounts
  <2>4. Cardinality(O \ {r}) = Cardinality(O) - 1
    BY <2>1, <2>3, FS_RemoveElement
  <2> QED BY <2>1, <2>2, <2>3, <2>4
<1>3. ASSUME NEW S, rd[r].name \notin S PROVE Cardinality(OpenIn(S)') = Cardinality(OpenIn(S))
  <2>1. OpenIn(S)' = OpenIn(S)
    BY <1>1, <1>3 DEF OpenIn
  <2> QED BY <2>1
<1>4. pheap \in Nat /\ HandlesFreed
  BY DEF ReadInv
<1>5. Cardinality(OpenIn(ProcFile)) \in Nat /\ Cardinality(OpenIn(SysFile)) \in Nat
  BY OpenCounts
<1>6. CASE rd[r].name \in ProcFile
  <2>1. rd[r].name \notin SysFile /\ pheap' = pheap - 2
    BY <1>6, KindsDiffer
  <2> QED BY <1>2, <1>3, <1>4, <1>5, <1>6, <2>1, FreedIs
<1>7. CASE rd[r].name \in SysFile
  <2>1. rd[r].name \notin ProcFile /\ pheap' = pheap - 1
    BY <1>7, KindsDiffer
  <2> QED BY <1>2, <1>3, <1>4, <1>5, <1>7, <2>1, FreedIs
<1> QED BY <1>6, <1>7

(* What a call starts with.                                                *)
LEMMA NewCallIs ==
  ASSUME NEW place \in {"closed", "gen", "list"}, NEW n \in Names, NEW k \in Nat,
         NEW v, v = NewCall(place, n, k)
  PROVE  /\ v \in RdType /\ v.at = place /\ v.name = n /\ v.seen = <<>> /\ v.pos = 0
         /\ v.snap = <<>> /\ v.todo = <<>>
<1>1. <<>> \in Seq(Val) /\ <<>> \in Seq(Write) /\ <<>> \in Seq(Int)
  OBVIOUS
<1> QED BY <1>1 DEF RdType, NewCall

(* Nothing is open and nothing was counted.                                *)
LEMMA IdleOK == Idle \in RdType /\ ReaderOK(Idle) /\ Idle.at = "closed"
<1>1. PICK v : v = Idle
  OBVIOUS
<1>2. v \in RdType /\ v.at = "closed" /\ v.snap = <<>> /\ v.todo = <<>>
  <2>1. PICK e \in Names : e = ""
    BY DEF Names
  <2>2. v = NewCall("closed", e, 0)
    BY <1>1, <2>1 DEF Idle
  <2>3. "closed" \in {"closed", "gen", "list"} /\ 0 \in Nat
    OBVIOUS
  <2> QED BY <2>2, <2>3, NewCallIs
<1>3. ReaderOK(v)
  BY <1>2 DEF ReaderOK, PlaceOK, GenOK, SnapOK, FillOK, ListOK
<1> QED BY <1>1, <1>2, <1>3

(* At first nobody reads.                                                  *)
LEMMA ReadStart == ASSUME ProcInit PROVE ReadInv
<1>1. /\ tel = [ticks |-> 0, wall |-> 0, idle |-> 0, run |-> [r \in Reader |-> 0]]
      /\ tim = [st_high |-> 0, st_low |-> 0] /\ ready = {} /\ pheap = 0
      /\ bufs = [f \in SysBuffered |-> [i \in 1..BUFSZ |-> NUL]] /\ rd = [r \in Reader |-> Idle]
  BY DEF ProcInit
<1>2. TelOK
  BY <1>1, ProcFsAssumption DEF TelOK
<1>3. TimOK
  BY <1>1, ProcFsAssumption DEF TimOK
<1>4. bufs \in [SysBuffered -> [1..BUFSZ -> Int]]
  BY <1>1 DEF NUL
<1>5. rd \in [Reader -> RdType] /\ \A r \in Reader : ReaderOK(rd[r]) /\ rd[r].at = "closed"
  BY <1>1, IdleOK
<1>6. Exclusive
  BY <1>5 DEF Exclusive, Opening
<1>7. HandlesFreed
  <2>1. ASSUME NEW S PROVE Cardinality(OpenIn(S)) = 0
    <3>1. OpenIn(S) = {}
      BY <1>5 DEF OpenIn
    <3> QED BY <3>1, FS_EmptySet
  <2> QED BY <1>1, <2>1, FreedIs
<1> QED BY <1>1, <1>2, <1>3, <1>4, <1>5, <1>6, <1>7 DEF ReadInv

(* A tick.  It counts as idle when no reader is in an open.                *)
LEMMA TickKeeps ==
  ASSUME ReadInv, timer_handler, MaxTicks < WRAP PROVE ReadInv'
<1>1. /\ tel.ticks < MaxTicks /\ timer_hw_enter /\ UNCHANGED <<ready, bufs, pheap, rd>>
      /\ tel' = [tel EXCEPT !.ticks = @ + 1, !.wall = (@ + 1) % WRAP,
               !.run = [r \in Reader |-> IF r \in runtsk THEN (@[r] + 1) % WRAP ELSE @[r]],
               !.idle = IF runtsk = {} THEN (@ + 1) % WRAP ELSE @]
  BY DEF timer_handler
<1>2. /\ tel \in [ticks : 0..MaxTicks, wall : Nat, idle : Nat, run : [Reader -> Nat]]
      /\ tel.wall = tel.ticks /\ tel.idle <= tel.wall
  BY DEF ReadInv, TelOK
<1>3. MaxTicks \in Nat /\ WRAP \in Nat \ {0} /\ TIC_DENO \in Nat \ {0}
  BY ProcFsAssumption
<1>4. \A n \in 0..MaxTicks : n < MaxTicks => (n + 1) % WRAP = n + 1
  BY <1>3
<1>5. TelOK' /\ tel'.ticks = tel.ticks + 1
  <2> DEFINE run == [r \in Reader |-> IF r \in runtsk THEN (tel.run[r] + 1) % WRAP ELSE tel.run[r]]
             idle == IF runtsk = {} THEN (tel.idle + 1) % WRAP ELSE tel.idle
  <2>1. run \in [Reader -> Nat]
    <3>1. \A r \in Reader : (tel.run[r] + 1) % WRAP \in Nat
      BY <1>2, <1>3
    <3> QED BY <1>2, <3>1
  <2>2. idle \in Nat /\ idle <= tel.wall + 1
    <3>1. tel.idle \in 0..MaxTicks /\ tel.idle < MaxTicks
      BY <1>1, <1>2, <1>3
    <3>2. (tel.idle + 1) % WRAP = tel.idle + 1
      BY <1>4, <3>1
    <3> QED BY <1>2, <3>2
  <2>3. (tel.wall + 1) % WRAP = tel.ticks + 1 /\ tel.ticks + 1 \in 0..MaxTicks
    BY <1>1, <1>2, <1>3, <1>4
  <2>4. tel' = [ticks |-> tel.ticks + 1, wall |-> tel.ticks + 1, idle |-> idle, run |-> run]
    BY <1>1, <1>2, <2>3
  <2> HIDE DEF run, idle
  <2> QED BY <1>2, <2>1, <2>2, <2>3, <2>4 DEF TelOK
<1>6. tel'.idle = tel.idle \/ runtsk = {}
  BY <1>1, <1>2
<1>7. TimOK'
  <2>1. tim \in [st_high : Nat, st_low : 0..(TIC_DENO - 1)] /\ tim.st_high * TIC_DENO + tim.st_low = tel.ticks
    BY DEF ReadInv, TimOK
  <2>2. PICK h, l : h \in Nat /\ l \in 0..(TIC_DENO - 1) /\ tim.st_high = h /\ tim.st_low = l
    BY <2>1
  <2>3. (h + 1) * TIC_DENO = h * TIC_DENO + TIC_DENO
    BY <1>3, <2>2
  <2>4. CASE l + 1 = TIC_DENO
    <3>1. tim' = [st_high |-> h + 1, st_low |-> 0]
      BY <1>1, <2>2, <2>4 DEF timer_hw_enter
    <3>2. (h + 1) * TIC_DENO + 0 = tel.ticks + 1
      <4>1. h * TIC_DENO \in Int /\ h * TIC_DENO + l = tel.ticks
        BY <1>3, <2>1, <2>2
      <4> QED BY <1>3, <2>2, <2>3, <2>4, <4>1
    <3> QED BY <1>3, <1>5, <2>2, <3>1, <3>2 DEF TimOK
  <2>5. CASE l + 1 # TIC_DENO
    <3>1. tim' = [st_high |-> h, st_low |-> l + 1]
      BY <1>1, <2>1, <2>2, <2>5 DEF timer_hw_enter
    <3>2. h * TIC_DENO + (l + 1) = tel.ticks + 1
      <4>1. h * TIC_DENO \in Int /\ h * TIC_DENO + l = tel.ticks
        BY <1>3, <2>1, <2>2
      <4> QED BY <2>2, <4>1
    <3> QED BY <1>3, <1>5, <2>2, <2>5, <3>1, <3>2 DEF TimOK
  <2> QED BY <2>4, <2>5
<1>8. ASSUME NEW r \in Reader PROVE ReaderOK(rd[r])'
  <2>1. PICK f : f = rd[r] /\ f \in RdType /\ ReaderOK(f)
    BY DEF ReadInv
  <2>2. PlaceOK(f)' /\ FillOK(f)' /\ ListOK(f)'
    BY <1>1, <2>1 DEF ReaderOK, PlaceOK, FillOK, ListOK, Reached, LastWrite
  <2>3. f.at = "gen" => tel'.idle = tel.idle
    BY <1>6, <2>1, RunsIsReady DEF ReadInv
  <2>4. GenOK(f)'
    BY <2>1, <2>3 DEF ReaderOK, GenOK, Reads
  <2>5. SnapOK(f)'
    <3>1. f.snap \in Seq(Int) /\ SnapOK(f) /\ tel.ticks \in Nat
      BY <1>2, <2>1 DEF ReaderOK, RdType
    <3>2. ASSUME f.snap # <<>>, f.name = "ticks" PROVE f.snap[1] * TIC_DENO + f.snap[2] <= tel.ticks + 1
      <4> DEFINE x == f.snap[1] * TIC_DENO + f.snap[2]
      <4>1. x <= tel.ticks /\ x \in Int
        <5>1. f.snap[1] \in Int /\ f.snap[2] \in Int
          BY <3>1, <3>2 DEF SnapOK
        <5> QED BY <1>3, <3>1, <3>2, <5>1 DEF SnapOK
      <4> HIDE DEF x
      <4>2. x <= tel.ticks + 1
        BY <3>1, <4>1
      <4> QED BY <4>2 DEF x
    <3> QED BY <1>5, <3>1, <3>2 DEF SnapOK
  <2> QED BY <1>1, <2>1, <2>2, <2>4, <2>5 DEF ReaderOK, RdType
<1>9. /\ (ready \subseteq Reader)' /\ bufs' \in [SysBuffered -> [1..BUFSZ -> Int]] /\ rd' \in [Reader -> RdType]
      /\ \A r \in Reader : rd'[r].at \notin {"closed", "open"} => r \in ready'
      /\ Exclusive' /\ pheap' \in Nat /\ HandlesFreed'
  BY <1>1 DEF ReadInv, Exclusive, Opening, HandlesFreed
<1> QED BY <1>5, <1>7, <1>8, <1>9 DEF ReadInv

(* Whoever goes on is the task that runs.                                  *)
LEMMA RunIs ==
  ASSUME ReadInv, NEW r \in Reader, NEW place, RunsAt(r, place)
  PROVE  r \in ready /\ rd[r].at = place /\ rd[r] \in RdType /\ ReaderOK(rd[r])
BY RunsIsReady DEF ReadInv, RunsAt

(* Two opens never share a buffer.                                         *)
LEMMA ExclusiveKeeps ==
  ASSUME ReadInv, NEW r \in Reader, NEW v \in RdType, Sets(r, v),
         \/ v.at \notin {"gen", "fill", "alloc", "open"}
         \/ v.name \notin SysBuffered
         \/ Opening(r) /\ v.name = rd[r].name
         \/ \A q \in Reader : Opening(q) => rd[q].name # v.name
  PROVE  Exclusive'
<1>1. rd'[r] = v /\ \A q \in Reader : q # r => rd'[q] = rd[q]
  BY DEF ReadInv, Sets
<1> SUFFICES ASSUME NEW p \in Reader, NEW q \in Reader, p # q, rd'[p].at \in {"gen", "fill", "alloc", "open"},
                    rd'[q].at \in {"gen", "fill", "alloc", "open"}, rd'[p].name \in SysBuffered
             PROVE  rd'[p].name # rd'[q].name
  BY DEF Exclusive, Opening
<1>2. CASE p # r /\ q # r
  BY <1>1, <1>2 DEF ReadInv, Exclusive, Opening
<1>3. CASE p = r
  BY <1>1, <1>3 DEF ReadInv, Exclusive, Opening
<1>4. CASE q = r
  BY <1>1, <1>4 DEF ReadInv, Exclusive, Opening
<1> QED BY <1>2, <1>3, <1>4

(* What holds of a reader depends on the counters and the buffers alone.   *)
LEMMA SameReader ==
  ASSUME NEW f, ReaderOK(f), UNCHANGED <<tel, bufs>> PROVE ReaderOK(f)'
BY DEF ReaderOK, PlaceOK, GenOK, SnapOK, FillOK, ListOK, Reached, LastWrite, Target, RdType, Reads

(* A step that touches nothing but the reader's own part.                  *)
LEMMA OwnStep ==
  ASSUME ReadInv, NEW r \in Reader, r \in ready, NEW v \in RdType, Sets(r, v), UNCHANGED <<tel, tim, ready, bufs>>,
         ReaderOK(v), Exclusive', HandlesFreed', pheap' \in Nat
  PROVE  ReadInv'
<1>1. ReaderOK(v)'
  BY SameReader
<1> QED BY <1>1, OneReader DEF ReadInv

(* A call is over, or a listing is.                                        *)
LEMMA BackOK ==
  ASSUME NEW n \in Nat PROVE NewCall("closed", "", n) \in RdType /\ ReaderOK(NewCall("closed", "", n))
<1>1. PICK v : v = NewCall("closed", "", n)
  OBVIOUS
<1>2. v \in RdType /\ v.at = "closed" /\ v.snap = <<>> /\ v.todo = <<>>
  <2>1. PICK e \in Names : e = ""
    BY DEF Names
  <2>2. v = NewCall("closed", e, n)
    BY <1>1, <2>1
  <2>3. "closed" \in {"closed", "gen", "list"}
    OBVIOUS
  <2> QED BY <2>2, <2>3, NewCallIs
<1>3. ReaderOK(v)
  BY <1>2 DEF ReaderOK, PlaceOK, GenOK, SnapOK, FillOK, ListOK
<1> QED BY <1>1, <1>2, <1>3

(* The counters that each file is made of.                                 *)
LEMMA ReadsIs ==
  /\ Reads("stat") = <<"wall", "idle", "wall", "idle">>
  /\ Reads("cpu/load") = <<"wall", "idle", "wall">>
  /\ Reads("tasks") = [i \in 1..(2 * Cardinality(Reader)) |-> IF i % 2 = 1 THEN "wall" ELSE "run"]
  /\ Reads("ticks") = <<"tim">>
  /\ Reads("interrupts") = <<"wall">>
  /\ \A n : n \notin {"stat", "cpu/load", "tasks", "ticks", "interrupts"} => Reads(n) = <<>>
BY DEF Reads

(* Counters are of four kinds.                                             *)
LEMMA ReadsType ==
  ASSUME NEW n PROVE Reads(n) \in Seq({"wall", "idle", "run", "tim"}) /\ (Reader # {} /\ Reads(n) # <<>> => Len(Reads(n)) >= 1)
<1>1. CASE n = "tasks"
  <2>1. Cardinality(Reader) \in Nat /\ (Reader # {} => Cardinality(Reader) # 0)
    BY ProcFsAssumption, FS_CardinalityType, FS_EmptySet
  <2>2. PICK k \in Nat : k = 2 * Cardinality(Reader) /\ (Reader # {} => k >= 1)
    BY <2>1
  <2>3. Reads(n) = [i \in 1..k |-> IF i % 2 = 1 THEN "wall" ELSE "run"]
    BY <1>1, <2>2, ReadsIs
  <2>4. Reads(n) \in Seq({"wall", "idle", "run", "tim"}) /\ Len(Reads(n)) = k
    BY <2>3
  <2> QED BY <2>2, <2>4
<1>2. CASE n = "stat"
  <2>1. Reads(n) = <<"wall", "idle", "wall", "idle">>
    BY <1>2, ReadsIs
  <2> QED BY <2>1
<1>3. CASE n = "cpu/load"
  <2>1. Reads(n) = <<"wall", "idle", "wall">>
    BY <1>3, ReadsIs
  <2> QED BY <2>1
<1>4. CASE n \in {"ticks", "interrupts"}
  <2>1. PICK c \in {"tim", "wall"} : Reads(n) = <<c>>
    BY <1>4, ReadsIs
  <2> QED BY <2>1
<1>5. CASE n \notin {"stat", "cpu/load", "tasks", "ticks", "interrupts"}
  <2>1. Reads(n) = <<>>
    BY <1>5, ReadsIs
  <2> QED BY <2>1
<1> QED BY <1>1, <1>2, <1>3, <1>4, <1>5

(* A reader wakes, or waits between two calls.                             *)
LEMMA WakesKeeps == ASSUME ReadInv, NEW r \in Reader, wakes(r) \/ waits(r) PROVE ReadInv'
<1>1. UNCHANGED <<tel, tim, bufs, pheap, rd>> /\ (ready \subseteq Reader)'
      /\ \A q \in Reader : rd[q].at \notin {"closed", "open"} /\ q \in ready => q \in ready'
  <2>1. CASE wakes(r)
    BY <2>1 DEF wakes, ReadInv
  <2>2. CASE waits(r)
    BY <2>2 DEF waits, ReadInv, RunsAt
  <2> QED BY <2>1, <2>2
<1>2. ASSUME NEW q \in Reader PROVE ReaderOK(rd[q])'
  <2>1. PICK f : f = rd[q] /\ f = rd'[q] /\ ReaderOK(f)
    BY <1>1 DEF ReadInv
  <2>2. ReaderOK(f)'
    BY <1>1, <2>1, SameReader
  <2> QED BY <2>1, <2>2
<1> QED BY <1>1, <1>2 DEF ReadInv, TelOK, TimOK, Exclusive, Opening, HandlesFreed

(* An open starts when no other has the same buffer.                       *)
LEMMA OpenStartsKeeps ==
  ASSUME ReadInv, ~Share, NEW r \in Reader, NEW name \in Opened, open_starts(r, name) PROVE ReadInv'
<1> PICK v : v = NewCall("gen", name, rd[r].opens + 1)
  OBVIOUS
<1>1. /\ RunsAt(r, "closed") /\ Sets(r, v) /\ UNCHANGED <<tel, tim, ready, bufs, pheap>>
      /\ name \notin SysBuffered \/ \A q \in Reader : Opening(q) => rd[q].name # name
  BY DEF open_starts
<1>2. r \in ready /\ rd[r].at = "closed" /\ rd[r].opens \in Nat
  BY <1>1, RunIs DEF RdType
<1>3. v \in RdType /\ v.at = "gen" /\ v.name = name /\ v.snap = <<>> /\ v.todo = <<>> /\ v.seen = <<>> /\ v.pos = 0
  <2>1. name \in Names
    BY ProcFsAssumption DEF Names
  <2>2. rd[r].opens + 1 \in Nat
    BY <1>2
  <2> QED BY <2>1, <2>2, NewCallIs
<1>4. ReaderOK(v)
  <2>1. GenOK(v)
    BY <1>3, ReadsType DEF GenOK
  <2> QED BY <1>3, <2>1 DEF ReaderOK, PlaceOK, SnapOK, FillOK, ListOK
<1>5. Exclusive'
  BY <1>1, <1>3, ExclusiveKeeps
<1>6. HandlesFreed' /\ pheap' \in Nat
  BY <1>1, <1>2, <1>3, SameHandles
<1> QED BY <1>1, <1>2, <1>3, <1>4, <1>5, <1>6, OwnStep

(* A listing starts at the first name.                                     *)
LEMMA ListStartsKeeps ==
  ASSUME ReadInv, NEW r \in Reader, NEW dir \in Dir, list_starts(r, dir) PROVE ReadInv'
<1> PICK v : v = NewCall("list", dir, rd[r].opens + 1)
  OBVIOUS
<1>1. RunsAt(r, "closed") /\ Sets(r, v) /\ UNCHANGED <<tel, tim, ready, bufs, pheap>>
  BY DEF list_starts
<1>2. r \in ready /\ rd[r].at = "closed" /\ rd[r].opens \in Nat
  BY <1>1, RunIs DEF RdType
<1>3. v \in RdType /\ v.at = "list" /\ v.name = dir /\ v.snap = <<>> /\ v.todo = <<>> /\ v.seen = <<>> /\ v.pos = 0
  <2>1. dir \in Names
    BY DEF Names
  <2>2. rd[r].opens + 1 \in Nat
    BY <1>2
  <2> QED BY <2>1, <2>2, NewCallIs
<1>4. ReaderOK(v)
  <2>1. Len(Listing(dir)) >= 0
    BY DEF Listing, Dir, proc_names
  <2> QED BY <1>3, <2>1 DEF ReaderOK, PlaceOK, GenOK, SnapOK, FillOK, ListOK
<1>5. Exclusive'
  BY <1>1, <1>3, ExclusiveKeeps
<1>6. HandlesFreed' /\ pheap' \in Nat
  BY <1>1, <1>2, <1>3, SameHandles
<1> QED BY <1>1, <1>2, <1>3, <1>4, <1>5, <1>6, OwnStep

(* A directory lists at least one name.                                    *)
LEMMA ListingIs ==
  ASSUME NEW d \in Dir
  PROVE  Listing(d) \in Seq(Names) /\ Len(Listing(d)) \in Nat \ {0}
<1>1. /\ ProcFile \subseteq Names /\ SysFile \subseteq Names /\ Dir \subseteq Names
  BY DEF Names
<1>2. CASE d = "/proc"
  <2>1. Listing(d) = <<"tasks", "ticks", "mem", "stat", "interrupts", "version">>
    BY <1>2 DEF Listing, proc_names
  <2>2. Listing(d) \in Seq(ProcFile) /\ Len(Listing(d)) = 6
    BY <2>1 DEF ProcFile
  <2> QED BY <1>1, <2>2
<1>3. CASE d = "/sys"
  <2>1. Listing(d) = <<"cpu", "net">>
    BY <1>3 DEF Listing
  <2>2. Listing(d) \in Seq(Dir) /\ Len(Listing(d)) = 2
    BY <2>1 DEF Dir
  <2> QED BY <1>1, <2>2
<1>4. CASE d = "cpu"
  <2>1. Listing(d) = <<"cpu/el", "cpu/cntfrq", "cpu/midr", "cpu/mmu", "cpu/load">>
    BY <1>4 DEF Listing
  <2>2. Listing(d) \in Seq(SysFile) /\ Len(Listing(d)) = 5
    BY <2>1 DEF SysFile, SysBuffered
  <2> QED BY <1>1, <2>2
<1>5. CASE d = "net"
  <2>1. Listing(d) = <<"net/loopback">>
    BY <1>5 DEF Listing
  <2>2. Listing(d) \in Seq(SysFile) /\ Len(Listing(d)) = 1
    BY <2>1 DEF SysFile
  <2> QED BY <1>1, <2>2
<1> QED BY <1>2, <1>3, <1>4, <1>5 DEF Dir

(* A listing goes on to the next name, or ends after the last.             *)
LEMMA ListdirKeeps ==
  ASSUME ReadInv, NEW r \in Reader, listdir(r) PROVE ReadInv'
<1>1. PICK f : f = rd[r] /\ f \in RdType /\ ReaderOK(f) /\ f.at = "list" /\ r \in ready
  BY RunIs DEF listdir
<1>2. PICK l : l = Listing(f.name)
  OBVIOUS
<1>3. /\ f.name \in Dir /\ f.pos <= Len(l) /\ Len(f.seen) = f.pos
      /\ \A j \in 1..f.pos : f.seen[j] = l[j]
      /\ f.snap = <<>> /\ f.todo = <<>>
  BY <1>1, <1>2 DEF ReaderOK, ListOK, PlaceOK
<1>4. l \in Seq(Names) /\ Len(l) \in Nat
  BY <1>2, <1>3, ListingIs
<1>5. PICK v : /\ Sets(r, v) /\ v = IF f.pos >= Len(l) THEN [f EXCEPT !.at = "listed"]
                                    ELSE [f EXCEPT !.pos = @ + 1, !.seen = Append(@, l[f.pos + 1])]
               /\ UNCHANGED <<tel, tim, ready, bufs, pheap>>
  BY <1>1, <1>2 DEF listdir
<1>6. v \in RdType /\ ReaderOK(v) /\ v.at \in {"list", "listed"} /\ v.name = f.name
  <2>1. CASE f.pos >= Len(l)
    <3>1. v = [f EXCEPT !.at = "listed"] /\ f.pos = Len(l)
      BY <1>1, <1>3, <1>4, <1>5, <2>1 DEF RdType
    <3>2. v \in RdType /\ v.at = "listed" /\ v.name = f.name /\ v.snap = <<>> /\ v.todo = <<>> /\ v.seen = f.seen /\ v.pos = f.pos
      BY <1>1, <1>3, <3>1 DEF RdType
    <3> QED BY <1>2, <1>3, <3>1, <3>2 DEF ReaderOK, PlaceOK, GenOK, SnapOK, FillOK, ListOK
  <2>2. CASE f.pos < Len(l)
    <3>1. PICK n \in Nat : n = f.pos /\ n + 1 \in 1..Len(l)
      <4>1. f.pos \in Nat
        BY <1>1 DEF RdType
      <4> QED BY <1>4, <2>2, <4>1
    <3>2. v = [f EXCEPT !.pos = n + 1, !.seen = Append(f.seen, l[n + 1])]
      <4>1. ~(f.pos >= Len(l))
        BY <1>4, <2>2, <3>1
      <4>2. v = [f EXCEPT !.pos = @ + 1, !.seen = Append(@, l[f.pos + 1])]
        BY <1>5, <4>1
      <4> QED BY <3>1, <4>2
    <3>3. f.seen \in Seq(Val) /\ l[n + 1] \in Val
      <4>1. l[n + 1] \in Names
        BY <1>4, <3>1
      <4>2. f.seen \in Seq(Val)
        BY <1>1 DEF RdType
      <4> QED BY <4>1, <4>2 DEF Val
    <3>4. Append(f.seen, l[n + 1]) \in Seq(Val) /\ Len(Append(f.seen, l[n + 1])) = n + 1
          /\ \A j \in 1..(n + 1) : Append(f.seen, l[n + 1])[j] = l[j]
      BY <1>3, <3>1, <3>3
    <3>5. v \in RdType /\ v.at = "list" /\ v.name = f.name /\ v.snap = <<>> /\ v.todo = <<>>
          /\ v.seen = Append(f.seen, l[n + 1]) /\ v.pos = n + 1
      <4> DEFINE s == Append(f.seen, l[n + 1])
      <4>1. s \in Seq(Val) /\ n + 1 \in Nat /\ v = [f EXCEPT !.pos = n + 1, !.seen = s]
        BY <3>1, <3>2, <3>4
      <4> HIDE DEF s
      <4>2. v \in RdType /\ v.at = f.at /\ v.name = f.name /\ v.snap = f.snap /\ v.todo = f.todo
            /\ v.seen = s /\ v.pos = n + 1
        BY <1>1, <4>1 DEF RdType
      <4> QED BY <1>1, <1>3, <4>2 DEF s
    <3> QED BY <1>2, <1>3, <3>1, <3>4, <3>5 DEF ReaderOK, PlaceOK, GenOK, SnapOK, FillOK, ListOK
  <2>3. f.pos \in Nat
    BY <1>1 DEF RdType
  <2> QED BY <1>4, <2>1, <2>2, <2>3
<1>7. Exclusive'
  BY <1>5, <1>6, ExclusiveKeeps
<1>8. HandlesFreed' /\ pheap' \in Nat
  BY <1>1, <1>5, <1>6, SameHandles
<1> QED BY <1>1, <1>5, <1>6, <1>7, <1>8, OwnStep

(* What was open, or was not to be opened, is closed.                      *)
LEMMA BackKeeps ==
  ASSUME ReadInv, NEW r \in Reader, r \in ready, Back(r), UNCHANGED <<tel, tim, ready, bufs>>,
         \/ rd[r].at # "open" /\ pheap' = pheap
         \/ rd[r].at = "open" /\ rd[r].name \in ProcFile /\ pheap' = pheap - 2
         \/ rd[r].at = "open" /\ rd[r].name \in SysFile /\ pheap' = pheap - 1
  PROVE  ReadInv'
<1>1. PICK v : v = NewCall("closed", "", rd[r].opens)
  OBVIOUS
<1>2. v \in RdType /\ ReaderOK(v) /\ v.at = "closed"
  <2>1. rd[r].opens \in Nat
    BY DEF ReadInv, RdType
  <2> QED BY <1>1, <2>1, BackOK DEF NewCall
<1>3. Sets(r, v)
  BY <1>1 DEF Back
<1>4. Exclusive'
  BY <1>2, <1>3, ExclusiveKeeps
<1>5. HandlesFreed' /\ pheap' \in Nat
  BY <1>2, <1>3, SameHandles, HandleCloses
<1> QED BY <1>2, <1>3, <1>4, <1>5, OwnStep

(* A close, of either kind, and the end of a listing.                      *)
LEMMA ClosesKeeps ==
  ASSUME ReadInv, NEW r \in Reader, pf_close(r) \/ sf_close(r) \/ list_ends(r) PROVE ReadInv'
<1>1. CASE pf_close(r)
  BY <1>1, RunIs, BackKeeps DEF pf_close
<1>2. CASE sf_close(r)
  BY <1>2, RunIs, BackKeeps DEF sf_close
<1>3. CASE list_ends(r)
  BY <1>3, RunIs, BackKeeps DEF list_ends
<1> QED BY <1>1, <1>2, <1>3

(* A character of the text goes to its place in the buffer.                *)
LEMMA FillKeeps ==
  ASSUME ReadInv, NEW r \in Reader, fill_file(r) PROVE ReadInv'
<1>1. PICK f : f = rd[r] /\ f \in RdType /\ ReaderOK(f) /\ f.at = "fill" /\ r \in ready
  BY RunIs DEF fill_file
<1>2. /\ f.name \in SysBuffered /\ f.todo # <<>> /\ f.name \in Opened /\ f.todo \in Seq(Write)
      /\ Len(f.snap) \in Nat /\ f.snap \in Seq(Int) /\ f.pos = 0
  <2>1. f.name \in SysBuffered /\ f.todo # <<>> /\ f.name \in Opened /\ f.pos = 0
    BY <1>1 DEF ReaderOK, PlaceOK
  <2>2. f.todo \in Seq(Write) /\ f.snap \in Seq(Int)
    BY <1>1 DEF RdType
  <2> QED BY <2>1, <2>2
<1>3. PICK w, t : /\ w = Head(f.todo) /\ t = Tail(f.todo) /\ w \in Write /\ t \in Seq(Write)
                  /\ f.todo[1] = w /\ Len(t) = Len(f.todo) - 1 /\ Len(f.todo) \in Nat \ {0}
                  /\ \A j \in 1..Len(t) : t[j] = f.todo[j + 1]
  <2>1. PICK s : s = f.todo /\ s \in Seq(Write) /\ s # <<>>
    BY <1>2
  <2>2. Head(s) \in Write /\ Tail(s) \in Seq(Write) /\ Head(s) = s[1] /\ Len(Tail(s)) = Len(s) - 1
        /\ Len(s) \in Nat \ {0}
    BY <2>1
  <2>3. \A j \in 1..Len(Tail(s)) : Tail(s)[j] = s[j + 1]
    BY <2>1, <2>2
  <2> QED BY <2>1, <2>2, <2>3
<1>4. /\ Len(f.snap) + 1 \in 2..BUFSZ /\ \A i \in 1..Len(f.snap) : f.snap[i] # NUL
      /\ \A j \in 1..Len(f.todo) : f.todo[j].i \in 1..BUFSZ
      /\ \A i \in 1..(Len(f.snap) + 1) : Reached(f, i) \/ \E j \in 1..Len(f.todo) : LastWrite(f, i, j)
  BY <1>1, <1>2 DEF ReaderOK, FillOK
<1>5. PICK v : v = [f EXCEPT !.todo = t, !.at = IF Len(f.todo) = 1 THEN "alloc" ELSE "fill"]
  OBVIOUS
<1>6. /\ Sets(r, v) /\ UNCHANGED <<tel, tim, ready, pheap>>
      /\ bufs' = [bufs EXCEPT ![f.name][w.i] = w.c]
  BY <1>1, <1>3, <1>5 DEF fill_file
<1>7. /\ v \in RdType /\ v.todo = t /\ v.at \in {"alloc", "fill"} /\ (v.at = "alloc" <=> Len(f.todo) = 1)
      /\ v.name = f.name /\ v.snap = f.snap /\ v.pos = f.pos
  BY <1>1, <1>3, <1>5 DEF RdType
<1>8. bufs \in [SysBuffered -> [1..BUFSZ -> Int]] /\ w.i \in 1..BUFSZ /\ w.c \in Int
  <2>1. 1 \in 1..Len(f.todo)
    BY <1>3
  <2> QED BY <1>3, <1>4, <2>1 DEF ReadInv, Write
<1>9. /\ bufs' \in [SysBuffered -> [1..BUFSZ -> Int]]
      /\ \A n \in SysBuffered : n # f.name => bufs'[n] = bufs[n]
      /\ \A i \in 1..BUFSZ : bufs'[f.name][i] = IF i = w.i THEN w.c ELSE bufs[f.name][i]
  BY <1>2, <1>6, <1>8
<1>10. FillOK(v)'
  <2>1. \A j \in 1..Len(t) : t[j].i \in 1..BUFSZ
    <3>1. \A j \in 1..Len(t) : j + 1 \in 1..Len(f.todo)
      BY <1>3
    <3> QED BY <1>3, <1>4, <3>1
  <2>2. ASSUME NEW i \in 1..(Len(f.snap) + 1)
        PROVE  Reached(v, i)' \/ \E j \in 1..Len(t) : LastWrite(v, i, j)'
    <3>1. i \in 1..BUFSZ /\ Target(v, i) = Target(f, i) /\ Target(v, i)' = Target(f, i)
      <4>1. Target(v, i) = Target(f, i) /\ Target(v, i)' = Target(f, i)
        BY <1>7 DEF Target
      <4> QED BY <1>2, <1>4, <4>1 DEF BUFSZ
    <3>2. CASE Reached(f, i)
      <4>1. bufs[f.name][i] = Target(f, i) /\ \A j \in 1..Len(f.todo) : f.todo[j].i # i
        BY <3>2 DEF Reached
      <4>2. w.i # i
        <5>1. 1 \in 1..Len(f.todo)
          BY <1>3
        <5> QED BY <1>3, <4>1, <5>1
      <4>3. \A j \in 1..Len(t) : t[j].i # i
        <5>1. \A j \in 1..Len(t) : j + 1 \in 1..Len(f.todo)
          BY <1>3
        <5> QED BY <1>3, <4>1, <5>1
      <4> QED BY <1>7, <1>9, <3>1, <4>1, <4>2, <4>3 DEF Reached
    <3>3. ASSUME NEW j \in 1..Len(f.todo), LastWrite(f, i, j)
          PROVE  Reached(v, i)' \/ \E k \in 1..Len(t) : LastWrite(v, i, k)'
      <4>1. f.todo[j] = [i |-> i, c |-> Target(f, i)] /\ \A k \in (j + 1)..Len(f.todo) : f.todo[k].i # i
        BY <3>3 DEF LastWrite
      <4>2. CASE j = 1
        <5>1. \A k \in 1..Len(t) : t[k].i # i
          <6>1. \A k \in 1..Len(t) : k + 1 \in (j + 1)..Len(f.todo)
            BY <1>3, <4>2
          <6> QED BY <1>3, <4>1, <6>1
        <5>2. w.i = i /\ w.c = Target(f, i)
          BY <1>3, <4>1, <4>2
        <5> QED BY <1>7, <1>9, <3>1, <5>1, <5>2 DEF Reached
      <4>3. CASE j # 1
        <5>1. PICK k \in 1..Len(t) : j = k + 1
          <6>1. j - 1 \in 1..Len(t) /\ j = (j - 1) + 1
            BY <1>3, <4>3
          <6> QED BY <6>1
        <5>2. t[k] = [i |-> i, c |-> Target(f, i)]
          BY <1>3, <4>1, <5>1
        <5>3. \A l \in (k + 1)..Len(t) : t[l].i # i
          <6>1. \A l \in (k + 1)..Len(t) : l \in 1..Len(t) /\ l + 1 \in (j + 1)..Len(f.todo)
            BY <1>3, <5>1
          <6> QED BY <1>3, <4>1, <6>1
        <5> QED BY <1>7, <3>1, <5>2, <5>3 DEF LastWrite
      <4> QED BY <4>2, <4>3
    <3> QED BY <1>4, <3>2, <3>3
  <2>3. v.todo = t /\ v.snap = f.snap
    BY <1>7
  <2>4. \A i \in 1..(Len(v.snap) + 1) : Reached(v, i)' \/ \E j \in 1..Len(v.todo) : LastWrite(v, i, j)'
    BY <2>2, <2>3
  <2>5. Len(v.snap) + 1 \in 2..BUFSZ /\ \A i \in 1..Len(v.snap) : v.snap[i] # NUL
    BY <1>4, <2>3
  <2>6. \A j \in 1..Len(v.todo) : v.todo[j].i \in 1..BUFSZ
    BY <2>1, <2>3
  <2>7. (/\ Len(v.snap) + 1 \in 2..BUFSZ /\ \A i \in 1..Len(v.snap) : v.snap[i] # NUL
         /\ \A j \in 1..Len(v.todo) : v.todo[j].i \in 1..BUFSZ
         /\ \A i \in 1..(Len(v.snap) + 1) : Reached(v, i) \/ \E j \in 1..Len(v.todo) : LastWrite(v, i, j))'
    BY <2>4, <2>5, <2>6
  <2> QED BY <2>7 DEF FillOK
<1>11. PlaceOK(v)
  <2>1. v.at = "fill" => t # <<>>
    <3>1. t = <<>> => Len(f.todo) = 1
      <4>1. PICK n \in Nat \ {0} : n = Len(f.todo) /\ Len(t) = n - 1
        BY <1>3
      <4>2. t = <<>> => Len(t) = 0
        OBVIOUS
      <4> QED BY <4>1, <4>2
    <3> QED BY <1>7, <3>1
  <2>2. v.at = "alloc" => t = <<>>
    BY <1>3, <1>7
  <2> QED BY <1>2, <1>7, <2>1, <2>2 DEF PlaceOK
<1>12. ReaderOK(v)'
  <2>1. PlaceOK(v)' /\ GenOK(v)' /\ ListOK(v)'
    BY <1>7, <1>11 DEF PlaceOK, GenOK, ListOK
  <2>2. SnapOK(f) /\ tel' = tel
    BY <1>1, <1>6 DEF ReaderOK
  <2>3. SnapOK(v)'
    BY <1>7, <2>2 DEF SnapOK
  <2> QED BY <1>7, <1>10, <2>1, <2>3 DEF ReaderOK, RdType
<1>13. Exclusive'
  BY <1>1, <1>6, <1>7, ExclusiveKeeps DEF Opening
<1>14. HandlesFreed' /\ pheap' \in Nat
  BY <1>1, <1>6, <1>7, SameHandles
<1>15. \A n \in SysBuffered : bufs'[n] = bufs[n] \/ (n = rd[r].name /\ Opening(r))
  BY <1>1, <1>9 DEF Opening
<1> QED BY <1>1, <1>6, <1>7, <1>9, <1>12, <1>13, <1>14, <1>15, OneReader

(* The length of a text is where its end is.                               *)
LEMMA StrlenIs ==
  ASSUME NEW b \in [1..BUFSZ -> Int], NEW n \in Nat, n + 1 \in 1..BUFSZ, b[n + 1] = NUL, \A i \in 1..n : b[i] # NUL
  PROVE  strlen(b) = n
<1> DEFINE P(i) == b[i] = NUL /\ \A j \in 1..(i - 1) : b[j] # NUL
<1>1. n + 1 \in DOMAIN b /\ P(n + 1)
  <2>1. (n + 1) - 1 = n
    OBVIOUS
  <2> QED BY <2>1
<1>2. ASSUME NEW i \in DOMAIN b, P(i) PROVE i = n + 1
  <2>1. i \in 1..BUFSZ /\ BUFSZ \in Nat
    BY DEF BUFSZ
  <2>2. i >= n + 1
    BY <1>2, <2>1
  <2>3. i > n + 1 => n + 1 \in 1..(i - 1)
    BY <2>1
  <2> QED BY <1>2, <2>1, <2>2, <2>3
<1>3. PICK k : k = CHOOSE i \in DOMAIN b : P(i)
  OBVIOUS
<1>4. strlen(b) = k - 1
  BY <1>3 DEF strlen
<1>5. k \in DOMAIN b /\ P(k)
  BY <1>1, <1>3
<1>6. k = n + 1
  BY <1>2, <1>5
<1> QED BY <1>4, <1>6

(* A filled buffer holds the text, and ends after it.                      *)
LEMMA FilledIs ==
  ASSUME ReadInv, NEW f, ReaderOK(f), f.at \in {"alloc", "open"}, f.name \in SysBuffered
  PROVE  strlen(bufs[f.name]) = Len(f.snap) /\ \A i \in 1..Len(f.snap) : bufs[f.name][i] = f.snap[i]
<1>1. f.todo = <<>> /\ f.snap \in Seq(Int) /\ bufs[f.name] \in [1..BUFSZ -> Int]
  BY DEF ReaderOK, PlaceOK, RdType, ReadInv
<1>2. /\ Len(f.snap) + 1 \in 2..BUFSZ /\ \A i \in 1..Len(f.snap) : f.snap[i] # NUL
      /\ \A i \in 1..(Len(f.snap) + 1) : Reached(f, i) \/ \E j \in 1..Len(f.todo) : LastWrite(f, i, j)
  BY DEF ReaderOK, FillOK
<1>3. \A i \in 1..(Len(f.snap) + 1) : bufs[f.name][i] = Target(f, i)
  <2>1. 1..Len(f.todo) = {}
    BY <1>1
  <2> QED BY <1>2, <2>1 DEF Reached
<1>4. PICK n \in Nat : n = Len(f.snap)
  BY <1>1
<1>5. \A i \in 1..n : bufs[f.name][i] = f.snap[i]
  BY <1>3, <1>4 DEF Target
<1>6. bufs[f.name][n + 1] = NUL
  BY <1>3, <1>4 DEF Target
<1>7. n + 1 \in 1..BUFSZ
  BY <1>2, <1>4 DEF BUFSZ
<1> QED BY <1>1, <1>2, <1>4, <1>5, <1>6, <1>7, StrlenIs

(* A handle and its text.                                                  *)
LEMMA OpensKeeps ==
  ASSUME ReadInv, NEW r \in Reader, pf_open(r) \/ sf_open(r) PROVE ReadInv'
<1>1. PICK f : f = rd[r] /\ f \in RdType /\ ReaderOK(f) /\ f.at = "alloc" /\ r \in ready
  BY RunIs DEF pf_open, sf_open
<1>2. f.name \in Opened /\ f.todo = <<>> /\ f.snap \in Seq(Int) /\ f.pos = 0 /\ UNCHANGED <<tel, tim, ready, bufs>>
      /\ Len(f.snap) \in Nat
  <2>1. f.name \in Opened /\ f.todo = <<>> /\ f.pos = 0
    BY <1>1 DEF ReaderOK, PlaceOK
  <2>2. f.snap \in Seq(Int)
    BY <1>1 DEF RdType
  <2>3. UNCHANGED <<tel, tim, ready, bufs>>
    BY DEF pf_open, sf_open
  <2> QED BY <2>1, <2>2, <2>3
<1>3. ASSUME NEW v \in RdType, Sets(r, v), v.at = "open", v.name = f.name, v.snap = f.snap, v.todo = f.todo,
             v.pos = f.pos, v.len = Len(f.snap), v.name \in ProcFile => v.text = v.snap,
             \/ v.name \in ProcFile /\ pheap' = pheap + 2
             \/ v.name \in SysFile /\ pheap' = pheap + 1
      PROVE  ReadInv'
  <2>1. PlaceOK(v) /\ GenOK(v) /\ ListOK(v)
    BY <1>2, <1>3 DEF PlaceOK, GenOK, ListOK
  <2>2. SnapOK(v)
    BY <1>1, <1>3 DEF ReaderOK, SnapOK
  <2>3. FillOK(v)
    <3>1. FillOK(f) /\ v.todo = f.todo /\ v.snap = f.snap /\ v.name = f.name
      BY <1>1, <1>3 DEF ReaderOK
    <3>2. \A i : Target(v, i) = Target(f, i)
      BY <3>1 DEF Target
    <3>3. \A i : (Reached(v, i) <=> Reached(f, i)) /\ \A j : LastWrite(v, i, j) <=> LastWrite(f, i, j)
      BY <3>1, <3>2 DEF Reached, LastWrite
    <3> QED BY <1>1, <3>1, <3>3 DEF FillOK
  <2>4. Exclusive'
    BY <1>1, <1>3, ExclusiveKeeps DEF Opening
  <2>5. HandlesFreed' /\ pheap' \in Nat
    BY <1>1, <1>3, HandleOpens
  <2> QED BY <1>1, <1>2, <1>3, <2>1, <2>2, <2>3, <2>4, <2>5, OwnStep DEF ReaderOK
<1>4. CASE Back(r) /\ UNCHANGED pheap
  BY <1>1, <1>2, <1>4, BackKeeps
<1>5. CASE pf_open(r) /\ ~(Back(r) /\ UNCHANGED pheap)
  <2>1. PICK v : v = [f EXCEPT !.at = "open", !.text = f.snap, !.len = Len(f.snap)]
    OBVIOUS
  <2>2. Sets(r, v) /\ pheap' = pheap + 2 /\ f.name \in ProcFile
    BY <1>1, <1>5, <2>1 DEF pf_open
  <2>3. v \in RdType /\ v.at = "open" /\ v.name = f.name /\ v.snap = f.snap /\ v.todo = f.todo
        /\ v.pos = f.pos /\ v.len = Len(f.snap) /\ v.text = v.snap
    <3>1. PICK s, n : s = f.snap /\ n = Len(f.snap) /\ s \in Seq(Int) /\ n \in Nat
      BY <1>2
    <3>2. v = [f EXCEPT !.at = "open", !.text = s, !.len = n]
      BY <2>1, <3>1
    <3>3. v \in RdType /\ v.at = "open" /\ v.name = f.name /\ v.snap = f.snap /\ v.todo = f.todo
          /\ v.pos = f.pos /\ v.len = n /\ v.text = s
      BY <1>1, <3>1, <3>2 DEF RdType
    <3> QED BY <3>1, <3>3
  <2> QED BY <1>3, <2>2, <2>3
<1>6. CASE sf_open(r) /\ ~(Back(r) /\ UNCHANGED pheap)
  <2>1. PICK n : n = IF f.name \in SysBuffered THEN strlen(bufs[f.name]) ELSE Len(f.snap)
    OBVIOUS
  <2>2. n = Len(f.snap) /\ n \in Nat
    BY <1>1, <1>2, <2>1, FilledIs
  <2>3. PICK v : v = [f EXCEPT !.at = "open", !.len = n]
    OBVIOUS
  <2>4. Sets(r, v) /\ pheap' = pheap + 1 /\ f.name \in SysFile
    BY <1>1, <1>6, <2>1, <2>3 DEF sf_open
  <2>5. v \in RdType /\ v.at = "open" /\ v.name = f.name /\ v.snap = f.snap /\ v.todo = f.todo
        /\ v.pos = f.pos /\ v.len = Len(f.snap)
    BY <1>1, <1>2, <2>2, <2>3 DEF RdType
  <2> QED BY <1>3, <2>2, <2>4, <2>5, KindsDiffer
<1> QED BY <1>4, <1>5, <1>6

(* What is read is what the open generated.                                *)
LEMMA FileReadKeeps ==
  ASSUME ReadInv, NEW r \in Reader, NEW n \in 1..2, file_read(r, n) PROVE ReadInv'
<1>1. PICK f : f = rd[r] /\ f \in RdType /\ ReaderOK(f) /\ f.at = "open" /\ r \in ready
  BY RunIs DEF file_read
<1>2. /\ f.name \in Opened /\ f.len = Len(f.snap) /\ f.pos \in Nat /\ f.len \in Nat /\ f.snap \in Seq(Int)
      /\ (f.name \in ProcFile => f.text = f.snap) /\ UNCHANGED <<tel, tim, ready, bufs, pheap>> /\ f.torn = FALSE
      /\ f.pos < f.len
  BY <1>1 DEF ReaderOK, PlaceOK, RdType, file_read
<1>3. PICK to : to = IF f.pos + n <= f.len THEN f.pos + n ELSE f.len
  OBVIOUS
<1>4. to \in Nat /\ to <= f.len
  BY <1>2, <1>3
<1>5. ~\E i \in (f.pos + 1)..to : i > Len(f.snap) \/ Shown(f, i) # f.snap[i]
  <2> SUFFICES ASSUME NEW i \in (f.pos + 1)..to PROVE i <= Len(f.snap) /\ Shown(f, i) = f.snap[i]
    BY <1>2, <1>4
  <2>1. i \in 1..Len(f.snap)
    BY <1>2, <1>4
  <2>2. CASE f.name \in SysBuffered
    BY <1>1, <2>1, <2>2, FilledIs DEF Shown
  <2>3. CASE f.name \notin SysBuffered
    BY <1>2, <2>1, <2>3 DEF Shown
  <2> QED BY <2>1, <2>2, <2>3
<1>6. PICK v : v = [f EXCEPT !.pos = to, !.torn = @ \/ \E i \in (f.pos + 1)..to : i > Len(f.snap) \/ Shown(f, i) # f.snap[i]]
  OBVIOUS
<1>7. Sets(r, v)
  BY <1>1, <1>3, <1>6 DEF file_read
<1>8. v = [f EXCEPT !.pos = to, !.torn = FALSE]
  <2>1. (f.torn \/ \E i \in (f.pos + 1)..to : i > Len(f.snap) \/ Shown(f, i) # f.snap[i]) = FALSE
    BY <1>2, <1>5
  <2> QED BY <1>6, <2>1
<1>9. v \in RdType /\ v.at = "open" /\ v.name = f.name /\ v.snap = f.snap /\ v.todo = f.todo
      /\ v.text = f.text /\ v.len = f.len /\ v.pos = to
  BY <1>1, <1>4, <1>8 DEF RdType
<1>10. ReaderOK(v)
  <2>1. PlaceOK(v) /\ GenOK(v) /\ ListOK(v)
    BY <1>1, <1>4, <1>9 DEF ReaderOK, PlaceOK, GenOK, ListOK
  <2>2. SnapOK(v)
    BY <1>1, <1>9 DEF ReaderOK, SnapOK
  <2>3. FillOK(v)
    BY <1>1, <1>9 DEF ReaderOK, FillOK, Reached, LastWrite, Target
  <2> QED BY <1>9, <2>1, <2>2, <2>3 DEF ReaderOK
<1>11. Exclusive'
  BY <1>1, <1>7, <1>9, ExclusiveKeeps DEF Opening
<1>12. HandlesFreed' /\ pheap' \in Nat
  BY <1>1, <1>2, <1>7, <1>9, SameHandles
<1> QED BY <1>1, <1>2, <1>7, <1>9, <1>10, <1>11, <1>12, OwnStep

(* A seek stays inside the file.                                           *)
LEMMA LseekKeeps ==
  ASSUME ReadInv, NEW r \in Reader, NEW np \in 0..1, sf_lseek(r, np) PROVE ReadInv'
<1>1. PICK f : f = rd[r] /\ f \in RdType /\ ReaderOK(f) /\ f.at = "open" /\ r \in ready
  BY RunIs DEF sf_lseek
<1>2. PICK v : v = [f EXCEPT !.pos = np]
  OBVIOUS
<1>3. Sets(r, v) /\ UNCHANGED <<tel, tim, ready, bufs, pheap>> /\ np <= f.len
  BY <1>1, <1>2 DEF sf_lseek
<1>4. v \in RdType /\ v.at = "open" /\ v.name = f.name /\ v.snap = f.snap /\ v.todo = f.todo
      /\ v.text = f.text /\ v.len = f.len /\ v.pos = np
  <2>1. np \in Nat
    OBVIOUS
  <2> QED BY <1>1, <1>2, <2>1 DEF RdType
<1>5. ReaderOK(v)
  <2>1. PlaceOK(v) /\ GenOK(v) /\ ListOK(v)
    BY <1>1, <1>3, <1>4 DEF ReaderOK, PlaceOK, GenOK, ListOK
  <2>2. SnapOK(v)
    BY <1>1, <1>4 DEF ReaderOK, SnapOK
  <2>3. FillOK(v)
    BY <1>1, <1>4 DEF ReaderOK, FillOK, Reached, LastWrite, Target
  <2> QED BY <1>4, <2>1, <2>2, <2>3 DEF ReaderOK
<1>6. Exclusive'
  BY <1>1, <1>3, <1>4, ExclusiveKeeps DEF Opening
<1>7. HandlesFreed' /\ pheap' \in Nat
  BY <1>1, <1>3, <1>4, SameHandles
<1> QED BY <1>1, <1>3, <1>4, <1>5, <1>6, <1>7, OwnStep

(* Two readings to a task: the task of the n-th.                           *)
LEMMA HalfIs ==
  ASSUME NEW n \in Nat, NEW k \in Nat, n # 0, n < 2 * k PROVE (n + 1) \div 2 \in 1..k
<1>1. PICK m \in Nat : m = (n + 1) \div 2 /\ 2 * m <= n + 1 /\ n + 1 < 2 * m + 2
  OBVIOUS
<1>2. m >= 1 /\ m <= k
  BY <1>1
<1> QED BY <1>1, <1>2

(* A counter, read.                                                        *)
LEMMA CounterIs ==
  ASSUME ReadInv, NEW r \in Reader, NEW f, f = rd[r], f.at = "gen", Len(f.seen) < Len(Reads(f.name)),
         NEW x, x = Value(Reads(f.name)[Len(f.seen) + 1], Len(f.seen))
  PROVE  /\ x \in Val /\ (Reads(f.name)[Len(f.seen) + 1] # "tim" => x \in Nat)
         /\ Reads(f.name)[Len(f.seen) + 1] = "wall" => x = tel.wall
         /\ Reads(f.name)[Len(f.seen) + 1] = "idle" => x = tel.idle
         /\ Reads(f.name)[Len(f.seen) + 1] = "tim" => x = <<tim.st_high, tim.st_low>>
<1>1. PICK n : n = Len(f.seen) /\ n \in Nat
  BY DEF ReadInv, RdType
<1>2. PICK c : c = Reads(f.name)[n + 1] /\ x = Value(c, n) /\ c \in {"wall", "idle", "run", "tim"}
  <2>1. Reads(f.name) \in Seq({"wall", "idle", "run", "tim"})
    BY ReadsType
  <2>2. n + 1 \in 1..Len(Reads(f.name))
    BY <1>1, <2>1
  <2> QED BY <1>1, <2>1, <2>2
<1>3. tel \in [ticks : 0..MaxTicks, wall : Nat, idle : Nat, run : [Reader -> Nat]]
      /\ tim \in [st_high : Nat, st_low : 0..(TIC_DENO - 1)]
  BY DEF ReadInv, TelOK, TimOK
<1>4. CASE c = "run"
  <2>1. f.name = "tasks"
    <3>1. f.name \notin {"stat", "cpu/load", "tasks", "ticks", "interrupts"} => Len(Reads(f.name)) = 0
      BY ReadsIs
    <3>2. f.name = "stat" => c \in {"wall", "idle"}
      <4>1. f.name = "stat" => n + 1 \in 1..4
        BY <1>1, ReadsIs
      <4> QED BY <1>2, <4>1, ReadsIs
    <3>3. f.name = "cpu/load" => c \in {"wall", "idle"}
      <4>1. f.name = "cpu/load" => n + 1 \in 1..3
        BY <1>1, ReadsIs
      <4> QED BY <1>2, <4>1, ReadsIs
    <3>4. f.name = "ticks" => c = "tim"
      <4>1. f.name = "ticks" => n = 0
        BY <1>1, ReadsIs
      <4> QED BY <1>2, <4>1, ReadsIs
    <3>5. f.name = "interrupts" => c = "wall"
      <4>1. f.name = "interrupts" => n = 0
        BY <1>1, ReadsIs
      <4> QED BY <1>2, <4>1, ReadsIs
    <3> QED BY <1>1, <1>4, <3>1, <3>2, <3>3, <3>4, <3>5
  <2>2. PICK k \in Nat : k = Cardinality(Reader) /\ Reader = 1..k
    BY ProcFsAssumption, FS_CardinalityType
  <2>3. Len(Reads(f.name)) = 2 * k
    BY <2>1, <2>2, ReadsIs
  <2>4. (n + 1) \div 2 \in Reader
    <3>1. n < 2 * k
      BY <1>1, <2>3
    <3>2. n # 0
      <4>1. n = 0 => c = "wall"
        <5>1. n = 0 => n + 1 \in 1..(2 * k) /\ (n + 1) % 2 = 1
          BY <3>1, <2>2
        <5>2. Reads(f.name) = [i \in 1..(2 * k) |-> IF i % 2 = 1 THEN "wall" ELSE "run"]
          BY <2>1, <2>2, ReadsIs
        <5> QED BY <1>2, <5>1, <5>2
      <4> QED BY <1>4, <4>1
    <3>3. n \in Nat
      BY <1>1
    <3> QED BY <2>2, <3>1, <3>2, <3>3, HalfIs
  <2>5. x = tel.run[(n + 1) \div 2]
    BY <1>2, <1>4 DEF Value
  <2>6. x \in Nat
    BY <1>3, <2>4, <2>5
  <2> QED BY <1>1, <1>2, <1>4, <2>6 DEF Val
<1>5. CASE c = "wall"
  <2>1. x = tel.wall
    BY <1>2, <1>5 DEF Value
  <2>2. x \in Nat
    BY <1>3, <2>1
  <2> QED BY <1>1, <1>2, <1>5, <2>1, <2>2 DEF Val
<1>6. CASE c = "idle"
  <2>1. x = tel.idle
    BY <1>2, <1>6 DEF Value
  <2>2. x \in Nat
    BY <1>3, <2>1
  <2> QED BY <1>1, <1>2, <1>6, <2>1, <2>2 DEF Val
<1>7. CASE c = "tim"
  <2>1. x = <<tim.st_high, tim.st_low>>
    BY <1>2, <1>7 DEF Value, get_tim
  <2>2. tim.st_high \in Nat /\ tim.st_low \in Nat
    BY <1>3, ProcFsAssumption
  <2>3. x \in Nat \X Nat
    BY <2>1, <2>2
  <2> QED BY <1>1, <1>2, <1>7, <2>1, <2>3 DEF Val
<1> QED BY <1>2, <1>4, <1>5, <1>6, <1>7

(* How far stat and cpu/load have come.                                    *)
LEMMA FourOrThree ==
  ASSUME NEW name \in {"stat", "cpu/load"}, NEW n \in Nat, n < Len(Reads(name))
  PROVE  n \in {0, 1, 2, 3} /\ (n = 3 => name = "stat")
<1>1. CASE name = "stat"
  <2>1. Len(Reads(name)) = 4
    BY <1>1, ReadsIs
  <2>2. n < 4
    BY <2>1
  <2>3. n \in {0, 1, 2, 3}
    BY ONLY n \in Nat, <2>2
  <2> QED BY <1>1, <2>3
<1>2. CASE name = "cpu/load"
  <2>1. Len(Reads(name)) = 3
    BY <1>2, ReadsIs
  <2> QED BY <2>1
<1> QED BY <1>1, <1>2

(* What an open has seen, with the counter it reads now.                   *)
Seen(f, s) ==
  /\ s \in Seq(Val) /\ Len(s) <= Len(Reads(f.name))
  /\ \A j \in 1..Len(s) : Reads(f.name)[j] # "tim" => s[j] \in Nat
  /\ f.name \in {"stat", "cpu/load"} =>
       /\ Len(s) >= 1 => tel.idle <= s[1]
       /\ Len(s) >= 2 => s[2] <= s[1]
       /\ Len(s) >= 3 => tel.idle <= s[3]
       /\ Len(s) >= 4 => s[4] <= s[3]
  /\ f.name = "ticks" /\ Len(s) = 1 => s[1] = <<tim.st_high, tim.st_low>>

(* It is what was counted, and idle never overtakes wall.                  *)
LEMMA SeenIs ==
  ASSUME ReadInv, NEW r \in Reader, NEW f, f = rd[r], f.at = "gen", Len(f.seen) < Len(Reads(f.name)),
         NEW x, x = Value(Reads(f.name)[Len(f.seen) + 1], Len(f.seen)), NEW s, s = Append(f.seen, x)
  PROVE  Seen(f, s) /\ Len(s) = Len(f.seen) + 1
<1>1. PICK t, n : t = f.seen /\ n = Len(t) /\ n \in Nat /\ t \in Seq(Val) /\ s = Append(t, x)
  <2>1. f \in RdType
    BY DEF ReadInv
  <2>2. f.seen \in Seq(Val)
    BY <2>1 DEF RdType
  <2>3. Len(f.seen) \in Nat
    BY <2>2
  <2> QED BY <2>2, <2>3
<1>2. /\ x \in Val /\ (Reads(f.name)[n + 1] # "tim" => x \in Nat)
      /\ Reads(f.name)[n + 1] = "wall" => x = tel.wall
      /\ Reads(f.name)[n + 1] = "idle" => x = tel.idle
      /\ Reads(f.name)[n + 1] = "tim" => x = <<tim.st_high, tim.st_low>>
  BY <1>1, CounterIs
<1>3. s \in Seq(Val) /\ Len(s) = n + 1 /\ s[n + 1] = x /\ \A j \in 1..n : s[j] = t[j]
  BY <1>1, <1>2
<1>4. /\ n < Len(Reads(f.name)) /\ Len(Reads(f.name)) \in Nat
      /\ \A j \in 1..n : Reads(f.name)[j] # "tim" => t[j] \in Nat
      /\ f.name \in {"stat", "cpu/load"} =>
           /\ n >= 1 => tel.idle <= t[1]
           /\ n >= 2 => t[2] <= t[1]
           /\ n >= 3 => tel.idle <= t[3]
  BY <1>1, ReadsType DEF ReadInv, ReaderOK, GenOK
<1>5. tel.idle \in Nat /\ tel.wall \in Nat /\ tel.idle <= tel.wall
  BY DEF ReadInv, TelOK
<1>6. \A j \in 1..Len(s) : Reads(f.name)[j] # "tim" => s[j] \in Nat
  <2>1. \A j \in 1..Len(s) : j \in 1..n \/ j = n + 1
    BY <1>1, <1>3
  <2> QED BY <1>2, <1>3, <1>4, <2>1
<1>7. ASSUME f.name \in {"stat", "cpu/load"}
      PROVE  /\ n + 1 >= 1 => tel.idle <= s[1]
             /\ n + 1 >= 2 => s[2] <= s[1]
             /\ n + 1 >= 3 => tel.idle <= s[3]
             /\ n + 1 >= 4 => s[4] <= s[3]
  <2>1. n \in {0, 1, 2, 3} /\ (n = 3 => f.name = "stat")
    <3>1. n \in Nat /\ n < Len(Reads(f.name))
      BY <1>1, <1>4
    <3> QED BY <1>7, <3>1, FourOrThree
  <2>2. CASE n = 0
    <3>1. x = tel.wall
      BY <1>2, <1>7, <2>2, ReadsIs
    <3> QED BY <1>3, <1>5, <2>2, <3>1
  <2>3. CASE n = 1
    <3>1. x = tel.idle
      BY <1>2, <1>7, <2>3, ReadsIs
    <3> QED BY <1>3, <1>4, <1>5, <1>7, <2>3, <3>1
  <2>4. CASE n = 2
    <3>1. x = tel.wall
      BY <1>2, <1>7, <2>4, ReadsIs
    <3>2. s[1] = t[1] /\ s[2] = t[2] /\ s[3] = x
      BY <1>3, <2>4
    <3>3. tel.idle <= t[1] /\ t[2] <= t[1]
      BY <1>4, <1>7, <2>4
    <3>4. tel.idle <= s[1] /\ s[2] <= s[1] /\ tel.idle <= s[3]
      BY <1>5, <3>1, <3>2, <3>3
    <3>5. ~(n + 1 >= 4)
      BY <2>4
    <3> QED BY <3>4, <3>5
  <2>5. CASE n = 3
    <3>1. x = tel.idle
      <4>1. f.name = "stat"
        BY <2>1, <2>5
      <4> QED BY <1>2, <2>5, <4>1, ReadsIs
    <3>2. s[1] = t[1] /\ s[2] = t[2] /\ s[3] = t[3] /\ s[4] = x
      BY <1>3, <2>5
    <3>3. tel.idle <= t[1] /\ t[2] <= t[1] /\ tel.idle <= t[3]
      BY <1>4, <1>7, <2>5
    <3> QED BY <1>5, <2>5, <3>1, <3>2, <3>3
  <2> QED BY <2>1, <2>2, <2>3, <2>4, <2>5
<1>8. ASSUME f.name = "ticks", Len(s) = 1 PROVE s[1] = <<tim.st_high, tim.st_low>>
  <2>1. n = 0
    BY <1>1, <1>3, <1>8
  <2> QED BY <1>2, <1>3, <1>8, <2>1, ReadsIs
<1>9. Len(s) <= Len(Reads(f.name))
  BY <1>1, <1>3, <1>4
<1> QED BY <1>1, <1>3, <1>6, <1>7, <1>8, <1>9 DEF Seen

(* Digits are numbers, up to three of them here.                           *)
LEMMA DecIs ==
  ASSUME NEW x \in Nat PROVE u64_to_dec(x) \in Seq(Nat) /\ Len(u64_to_dec(x)) \in 1..3
<1>1. x % 2 \in Nat /\ (x \div 2) % 2 \in Nat
  <2>1. x \div 2 \in Nat
    OBVIOUS
  <2> QED BY <2>1
<1>2. PICK y, z : y = x % 2 /\ z = (x \div 2) % 2 /\ y \in Nat /\ z \in Nat
  BY <1>1
<1>3. u64_to_dec(x) = IF x < 2 THEN <<x>> ELSE IF x < 4 THEN <<1, y>> ELSE <<1, z, y>>
  BY <1>2 DEF u64_to_dec
<1>4. <<x>> \in Seq(Nat) /\ <<1, y>> \in Seq(Nat) /\ <<1, z, y>> \in Seq(Nat)
  BY <1>2
<1>5. Len(<<x>>) = 1 /\ Len(<<1, y>>) = 2 /\ Len(<<1, z, y>>) = 3
  OBVIOUS
<1> QED BY <1>3, <1>4, <1>5

(* The text that is made of what was seen.                                 *)
TextOK(name, text) ==
  /\ text \in Seq(Int)
  /\ name = "stat" => Len(text) = 3 /\ text[2] <= text[1] /\ text[3] <= 100
  /\ name = "cpu/load" => text[1] <= 100
  /\ name = "ticks" => Len(text) = 2 /\ text[2] < TIC_DENO /\ text[1] * TIC_DENO + text[2] <= tel.ticks
  /\ name \in SysBuffered =>
       /\ Len(text) \in 1..5 /\ \A i \in 1..Len(text) : text[i] # NUL
       /\ name # "cpu/load" => text = <<1, LF>>

(* The text of every file is sane when what was seen is.                   *)
LEMMA TextIs ==
  ASSUME ReadInv, NEW f, NEW name, f.name = name, NEW s, Seen(f, s), Len(s) = Len(Reads(name))
  PROVE  TextOK(name, Text(name, s))
<1> PICK text : text = Text(name, s)
  OBVIOUS
<1>1. /\ s \in Seq(Val) /\ \A j \in 1..Len(s) : Reads(name)[j] # "tim" => s[j] \in Nat
      /\ tel.idle \in Nat /\ tel.ticks \in Nat
  BY DEF Seen, ReadInv, TelOK
<1>0. ASSUME name \in {"stat", "cpu/load"}
      PROVE  (Len(s) >= 2 => s[2] <= s[1]) /\ (Len(s) >= 4 => s[4] <= s[3])
  BY <1>0 DEF Seen
<1>2. CASE name = "stat"
  <2>1. Len(s) = 4 /\ Reads(name) = <<"wall", "idle", "wall", "idle">>
    BY <1>2, ReadsIs
  <2>2. s[1] \in Nat /\ s[2] \in Nat /\ s[3] \in Nat /\ s[4] \in Nat
    BY <1>1, <2>1
  <2>3. s[2] <= s[1] /\ s[4] <= s[3]
    <3>1. Len(s) >= 2 /\ Len(s) >= 4
      BY <2>1
    <3> QED BY <1>0, <1>2, <3>1
  <2>4. PICK p : p = cpu_pct(s[3], s[4]) /\ p \in Nat /\ p <= 100
    BY <2>2, <2>3, PctIs
  <2>5. text = <<s[1], s[2], p>>
    BY <1>2, <2>4 DEF Text, SysBuffered
  <2>6. text \in Seq(Int) /\ Len(text) = 3 /\ text[2] <= text[1] /\ text[3] <= 100
    BY <2>2, <2>3, <2>4, <2>5
  <2> QED BY <1>2, <2>6 DEF TextOK, SysBuffered
<1>3. CASE name = "tasks"
  <2>1. PICK k \in Nat : k = Cardinality(Reader)
    BY ProcFsAssumption, FS_CardinalityType
  <2>2. Reads(name) = [i \in 1..(2 * k) |-> IF i % 2 = 1 THEN "wall" ELSE "run"] /\ Len(s) = 2 * k
    BY <1>3, <2>1, ReadsIs
  <2>3. ASSUME NEW i \in 1..k PROVE cpu_pct(s[2 * i - 1], s[2 * i]) \in Int
    <3>1. 2 * i - 1 \in 1..(2 * k) /\ 2 * i \in 1..(2 * k)
      BY <2>1
    <3>2. \A j \in 1..(2 * k) : Reads(name)[j] # "tim"
      BY <2>2
    <3>3. s[2 * i - 1] \in Nat /\ s[2 * i] \in Nat
      BY <1>1, <2>2, <3>1, <3>2
    <3>4. cpu_pct(s[2 * i - 1], s[2 * i]) \in Nat
      BY <3>3, PctIs
    <3> QED BY <3>4
  <2>4. text = [i \in 1..k |-> cpu_pct(s[2 * i - 1], s[2 * i])]
    BY <1>3, <2>1 DEF Text, SysBuffered
  <2>5. text \in Seq(Int)
    BY <2>3, <2>4
  <2> QED BY <1>3, <2>5 DEF TextOK, SysBuffered
<1>4. CASE name = "ticks"
  <2>1. Len(s) = 1
    BY <1>4, ReadsIs
  <2>2. PICK h, l : h = tim.st_high /\ l = tim.st_low /\ h \in Nat /\ l \in 0..(TIC_DENO - 1)
                    /\ h * TIC_DENO + l = tel.ticks
    BY DEF ReadInv, TimOK
  <2>3. text = <<h, l>>
    <3>1. text = s[1]
      BY <1>4 DEF Text, SysBuffered
    <3>2. s[1] = <<tim.st_high, tim.st_low>>
      BY <1>4, <2>1 DEF Seen
    <3> QED BY <2>2, <3>1, <3>2
  <2>4. TIC_DENO \in Nat
    BY ProcFsAssumption
  <2>5. l \in Nat /\ l < TIC_DENO
    BY <2>2, <2>4
  <2>6. text \in Seq(Int) /\ Len(text) = 2 /\ text[2] = l /\ text[1] = h
    BY <2>2, <2>3, <2>5
  <2>7. text[1] * TIC_DENO + text[2] <= tel.ticks
    BY <1>1, <2>2, <2>6
  <2> QED BY <1>4, <2>5, <2>6, <2>7 DEF TextOK, SysBuffered
<1>5. CASE name = "interrupts"
  <2>1. Len(s) = 1 /\ Reads(name) = <<"wall">>
    BY <1>5, ReadsIs
  <2>2. text = s
    BY <1>5 DEF Text, SysBuffered
  <2>3. s \in Seq(Int)
    <3>1. \A j \in 1..Len(s) : s[j] \in Int
      BY <1>1, <2>1
    <3> QED BY <1>1, <3>1
  <2> QED BY <1>5, <2>2, <2>3 DEF TextOK, SysBuffered
<1>6. CASE name = "cpu/load"
  <2>1. Len(s) = 3 /\ Reads(name) = <<"wall", "idle", "wall">>
    BY <1>6, ReadsIs
  <2>2. s[1] \in Nat /\ s[2] \in Nat /\ s[3] \in Nat
    BY <1>1, <2>1
  <2>3. s[2] <= s[1]
    <3>1. Len(s) >= 2
      BY <2>1
    <3> QED BY <1>0, <1>6, <3>1
  <2>4. PICK p : p = cpu_pct(s[1], s[2]) /\ p \in Nat /\ p <= 100
    BY <2>2, <2>3, PctIs
  <2>5. PICK d : d = u64_to_dec(s[3]) /\ d \in Seq(Nat) /\ Len(d) \in 1..3
    BY <2>2, DecIs
  <2>6. text = <<p>> \o d \o <<LF>>
    BY <1>6, <2>4, <2>5 DEF Text
  <2>7. text \in Seq(Nat \union {LF}) /\ Len(text) = Len(d) + 2 /\ text[1] = p
    <3>1. <<p>> \in Seq(Nat \union {LF}) /\ d \in Seq(Nat \union {LF}) /\ <<LF>> \in Seq(Nat \union {LF})
      BY <2>4, <2>5
    <3> HIDE DEF LF
    <3>2. <<p>> \o d \in Seq(Nat \union {LF}) /\ Len(<<p>> \o d) = Len(d) + 1 /\ (<<p>> \o d)[1] = p
      BY <2>5, <3>1
    <3> QED BY <2>5, <2>6, <3>1, <3>2
  <2>8. \A i \in 1..Len(text) : text[i] # NUL /\ text[i] \in Int
    <3>1. \A i \in 1..Len(text) : text[i] \in Nat \union {LF}
      BY <2>7
    <3> QED BY <3>1 DEF LF, NUL
  <2>9. text \in Seq(Int) /\ Len(text) \in 1..5
    <3>1. text \in Seq(Int)
      BY <2>7, <2>8
    <3>2. PICK k \in 1..3 : k = Len(d)
      BY <2>5
    <3>3. k + 2 \in 1..5
      OBVIOUS
    <3> QED BY <2>7, <3>1, <3>2, <3>3
  <2> QED BY <1>6, <2>4, <2>7, <2>8, <2>9 DEF TextOK
<1>7. CASE name \in SysBuffered \ {"cpu/load"}
  <2>1. name \notin {"stat", "tasks", "ticks", "interrupts"}
    BY <1>7 DEF SysBuffered
  <2>2. text = <<1, LF>>
    BY <1>7, <2>1 DEF Text
  <2>3. text \in Seq(Int) /\ Len(text) = 2 /\ \A i \in 1..2 : text[i] # NUL
    BY <2>2 DEF LF, NUL
  <2> QED BY <1>7, <2>1, <2>2, <2>3 DEF TextOK
<1>8. CASE name \notin SysBuffered /\ name \notin {"stat", "tasks", "ticks", "interrupts", "cpu/load"}
  <2>1. text = <<1>>
    BY <1>8 DEF Text
  <2> QED BY <1>8, <2>1 DEF TextOK
<1> QED BY <1>2, <1>3, <1>4, <1>5, <1>6, <1>7, <1>8

(* How it comes into the buffer.                                           *)
Writing(t, text) ==
  /\ t \in Seq(Write) /\ t # <<>> /\ \A j \in 1..Len(t) : t[j].i \in 1..BUFSZ
  /\ \A i \in 1..(Len(text) + 1) : \E j \in 1..Len(t) :
       /\ t[j] = [i |-> i, c |-> IF i <= Len(text) THEN text[i] ELSE NUL]
       /\ \A k \in (j + 1)..Len(t) : t[k].i # i

(* A sequence and one element more.                                        *)
LEMMA OneMore ==
  ASSUME NEW S, NEW a \in Seq(S), NEW e \in S, NEW n \in Nat, n = Len(a), NEW t, t = a \o <<e>>
  PROVE  t \in Seq(S) /\ Len(t) = n + 1 /\ t[n + 1] = e /\ \A i \in 1..n : t[i] = a[i]
OBVIOUS

(* Four of them, one after another.                                        *)
LEMMA FourIs ==
  ASSUME NEW a, NEW b, NEW c, NEW d
  PROVE  <<a>> \o <<b>> \o <<c>> \o <<d>> = <<a, b, c, d>>
<1>1. PICK S : a \in S /\ b \in S /\ c \in S /\ d \in S
  <2>1. a \in {a, b, c, d} /\ b \in {a, b, c, d} /\ c \in {a, b, c, d} /\ d \in {a, b, c, d}
    OBVIOUS
  <2> QED BY <2>1
<1>2. PICK p, q, r, t : p = <<a>> /\ q = p \o <<b>> /\ r = q \o <<c>> /\ t = r \o <<d>>
  OBVIOUS
<1>3. p \in Seq(S) /\ Len(p) = 1 /\ p[1] = a
  BY <1>1, <1>2
<1>4. q \in Seq(S) /\ Len(q) = 2 /\ q[1] = a /\ q[2] = b
  <2>5. PICK e : e = <<b>>
    OBVIOUS
  <2>1. e = <<b>> /\ e \in Seq(S) /\ Len(e) = 1 /\ e[1] = b
    BY <1>1, <2>5
  <2>2. q = p \o e
    BY <1>2, <2>1
  <2>3. q \in Seq(S) /\ Len(q) = Len(p) + Len(e)
        /\ \A i \in 1..(Len(p) + Len(e)) : q[i] = IF i <= Len(p) THEN p[i] ELSE e[i - Len(p)]
    BY ONLY <1>3, <2>1, <2>2, ConcatProperties
  <2>4. q[1] = p[1] /\ q[2] = e[1]
    BY <1>3, <2>1, <2>3
  <2> QED BY <1>3, <2>1, <2>3, <2>4
<1>5. r \in Seq(S) /\ Len(r) = 3 /\ r[1] = a /\ r[2] = b /\ r[3] = c
  <2>1. r \in Seq(S) /\ Len(r) = 2 + 1 /\ r[2 + 1] = c /\ \A i \in 1..2 : r[i] = q[i]
    BY <1>1, <1>2, <1>4, OneMore
  <2> QED BY <1>4, <2>1
<1>6. t \in Seq(S) /\ Len(t) = 4 /\ t[1] = a /\ t[2] = b /\ t[3] = c /\ t[4] = d
  <2>1. t \in Seq(S) /\ Len(t) = 3 + 1 /\ t[3 + 1] = d /\ \A i \in 1..3 : t[i] = r[i]
    BY <1>1, <1>2, <1>5, OneMore
  <2> QED BY <1>5, <2>1
<1>7. t = <<a, b, c, d>>
  <2>1. PICK u : u = <<a, b, c, d>>
    OBVIOUS
  <2>2. u \in Seq(S) /\ Len(u) = 4 /\ u[1] = a /\ u[2] = b /\ u[3] = c /\ u[4] = d
    BY <1>1, <2>1
  <2>3. \A i \in 1..4 : t[i] = u[i]
    BY <1>6, <2>2
  <2> QED BY <1>6, <2>1, <2>2, <2>3, SeqEqual
<1> QED BY <1>2, <1>7

(* Two of them, taken apart.                                               *)
LEMMA FrontOfTwo ==
  ASSUME NEW a, NEW b PROVE Front(<<a, b>>) = <<a>> /\ Last(<<a, b>>) = b
<1> PICK s, t : s = <<a, b>> /\ t = SubSeq(s, 1, 1)
  OBVIOUS
<1>1. s \in Seq({a, b}) /\ Len(s) = 2 /\ s[1] = a /\ s[2] = b
  OBVIOUS
<1>2. t \in Seq({a, b}) /\ Len(t) = 1 /\ t[1] = s[1]
  <2>1. \A i \in 1..1 : s[i] \in {a, b}
    BY <1>1
  <2>2. Len(t) = 1 - 1 + 1 /\ t \in Seq({a, b}) /\ \A i \in 1..(1 - 1 + 1) : t[i] = s[1 + i - 1]
    BY <2>1, SubSeqProperties
  <2> QED BY <2>2
<1>3. t = <<a>>
  <2>1. <<a>> \in Seq({a, b}) /\ Len(<<a>>) = 1 /\ <<a>>[1] = a
    OBVIOUS
  <2>2. \A i \in 1..1 : t[i] = <<a>>[i]
    BY <1>1, <1>2
  <2> QED BY <1>2, <2>1, <2>2, SeqEqual
<1>4. Front(s) = t /\ Last(s) = b
  <2>1. Len(s) - 1 = 1
    BY <1>1
  <2> QED BY <1>1, <2>1 DEF Front, Last
<1> QED BY <1>3, <1>4

(* The characters of cpu/load come into the buffer one by one.             *)
LEMMA LoadWrites ==
  ASSUME NEW text \in Seq(Int), NEW n \in 1..5, n = Len(text), NEW all, NEW t,
         all = [i \in 1..n |-> [i |-> i, c |-> text[i]]], t = all \o <<[i |-> n + 1, c |-> NUL]>>
  PROVE  Writing(t, text)
<1>1. \A i \in 1..n : [i |-> i, c |-> text[i]] \in Write
  BY DEF Write
<1>2. all \in Seq(Write) /\ Len(all) = n /\ \A i \in 1..n : all[i] = [i |-> i, c |-> text[i]]
  BY <1>1
<1>3. PICK e : e = [i |-> n + 1, c |-> NUL] /\ e \in Write
  BY DEF Write, NUL
<1>4. t \in Seq(Write) /\ Len(t) = n + 1 /\ t[n + 1] = e /\ \A i \in 1..n : t[i] = all[i]
  <2>1. n \in Nat /\ t = all \o <<e>>
    BY <1>3
  <2> QED BY <1>2, <1>3, <2>1, OneMore
<1>5. ASSUME NEW j \in 1..(n + 1) PROVE t[j] = [i |-> j, c |-> IF j <= n THEN text[j] ELSE NUL]
  <2>1. CASE j = n + 1
    <3>1. ~(j <= n)
      BY ONLY n \in 1..5, <2>1
    <3> QED BY <1>3, <1>4, <2>1, <3>1
  <2>2. CASE j # n + 1
    <3>1. j \in 1..n /\ j <= n
      BY ONLY n \in 1..5, j \in 1..(n + 1), <2>2
    <3> QED BY <1>2, <1>4, <3>1
  <2> QED BY <2>1, <2>2
<1>6. \A j \in 1..(n + 1) : t[j].i = j
  <2> SUFFICES ASSUME NEW j \in 1..(n + 1) PROVE t[j].i = j
    OBVIOUS
  <2>1. PICK c : t[j] = [i |-> j, c |-> c]
    BY <1>5
  <2> QED BY <2>1
<1>7. \A j \in 1..(n + 1) : j \in 1..BUFSZ
  BY ONLY n \in 1..5 DEF BUFSZ
<1>8. ASSUME NEW i \in 1..(n + 1) PROVE  \A k \in (i + 1)..(n + 1) : t[k].i # i
  <2>1. \A k \in (i + 1)..(n + 1) : k \in 1..(n + 1) /\ k # i
    BY ONLY n \in 1..5, i \in 1..(n + 1)
  <2> QED BY <1>6, <2>1
<1>9. t # <<>>
  BY <1>4
<1>10. \A i \in 1..(n + 1) : \E j \in 1..(n + 1) :
         /\ t[j] = [i |-> i, c |-> IF i <= n THEN text[i] ELSE NUL]
         /\ \A k \in (j + 1)..(n + 1) : t[k].i # i
  <2> SUFFICES ASSUME NEW i \in 1..(n + 1)
               PROVE  /\ t[i] = [i |-> i, c |-> IF i <= n THEN text[i] ELSE NUL]
                      /\ \A k \in (i + 1)..(n + 1) : t[k].i # i
    OBVIOUS
  <2>1. t[i] = [i |-> i, c |-> IF i <= n THEN text[i] ELSE NUL]
    BY <1>5
  <2>2. \A k \in (i + 1)..(n + 1) : t[k].i # i
    BY <1>8
  <2> QED BY <2>1, <2>2
<1>11. \A i \in 1..(Len(text) + 1) : \E j \in 1..Len(t) :
         /\ t[j] = [i |-> i, c |-> IF i <= Len(text) THEN text[i] ELSE NUL]
         /\ \A k \in (j + 1)..Len(t) : t[k].i # i
  <2>1. Len(text) = n /\ Len(t) = n + 1
    BY <1>4
  <2> QED BY ONLY <1>10, <2>1
<1>12. \A j \in 1..Len(t) : t[j].i \in 1..BUFSZ
  BY <1>4, <1>6, <1>7
<1> QED BY <1>4, <1>9, <1>11, <1>12 DEF Writing

(* The characters of cpu/load, or the two of another file, all arrive.     *)
LEMMA WritesIs ==
  ASSUME NEW name \in SysBuffered, NEW text \in Seq(Int), Len(text) \in 1..5,
         name # "cpu/load" => text = <<1, LF>>, NEW t, t = Writes(name, text)
  PROVE  Writing(t, text)
<1>1. NUL \in Int /\ LF \in Int
  BY DEF NUL, LF
<1>2. PICK n : n = Len(text) /\ n \in 1..5
  OBVIOUS
<1>3. PICK all : all = Chars(text)
  OBVIOUS
<1>6. all = [i \in 1..n |-> [i |-> i, c |-> text[i]]]
  <2>1. DOMAIN text = 1..n
    BY <1>2
  <2> QED BY <1>3, <2>1 DEF Chars
<1>4. CASE name = "cpu/load"
  <2>1. t = all \o <<[i |-> n + 1, c |-> NUL]>>
    BY <1>2, <1>3, <1>4 DEF Writes, EndAt
  <2> QED BY <1>2, <1>6, <2>1, LoadWrites
<1>5. CASE name # "cpu/load"
  <2>1. text = <<1, LF>> /\ n = 2
    BY <1>2, <1>5
  <2>2. PICK a, b, c, d : /\ a = [i |-> 1, c |-> 1] /\ b = [i |-> 2, c |-> NUL]
                          /\ c = [i |-> 2, c |-> LF] /\ d = [i |-> 3, c |-> NUL]
    OBVIOUS
  <2>3. all = <<a, c>>
    <3>1. all = [i \in 1..2 |-> [i |-> i, c |-> text[i]]]
      BY <1>6, <2>1
    <3>2. all \in Seq({a, c}) /\ Len(all) = 2 /\ all[1] = a /\ all[2] = c
      <4>1. text[1] = 1 /\ text[2] = LF
        BY <2>1
      <4>2. \A i \in 1..2 : [i |-> i, c |-> text[i]] \in {a, c}
        BY <2>2, <4>1
      <4> QED BY <2>2, <3>1, <4>1, <4>2
    <3> QED BY <3>2
  <2>4. t = Front(all) \o <<b>> \o <<Last(all)>> \o <<d>>
    <3>1. EndAt(2) = <<b>> /\ EndAt(2 + 1) = <<d>>
      BY <2>2 DEF EndAt
    <3>2. t = Front(all) \o EndAt(n) \o <<Last(all)>> \o EndAt(n + 1)
      BY <1>2, <1>3, <1>5 DEF Writes
    <3> QED BY <2>1, <3>1, <3>2
  <2>5. t = <<a, b, c, d>>
    <3>1. Front(<<a, c>>) = <<a>> /\ Last(<<a, c>>) = c
      BY FrontOfTwo
    <3>2. t = <<a>> \o <<b>> \o <<c>> \o <<d>>
      BY <2>3, <2>4, <3>1
    <3>3. <<a>> \o <<b>> \o <<c>> \o <<d>> = <<a, b, c, d>>
      BY FourIs
    <3> QED BY <3>2, <3>3
  <2>6. Len(t) = 4 /\ t[1] = [i |-> 1, c |-> 1] /\ t[2] = [i |-> 2, c |-> NUL]
        /\ t[3] = [i |-> 2, c |-> LF] /\ t[4] = [i |-> 3, c |-> NUL]
    BY <2>2, <2>5
  <2>7. \A j \in 1..4 : t[j] \in Write /\ t[j].i \in 1..BUFSZ
    BY <1>1, <2>6 DEF Write, BUFSZ
  <2>8. t \in Seq(Write) /\ t # <<>>
    BY <2>5, <2>6, <2>7
  <2>9. \A i \in 1..3 : \E j \in 1..4 :
          /\ t[j] = [i |-> i, c |-> IF i <= 2 THEN text[i] ELSE NUL]
          /\ \A k \in (j + 1)..4 : t[k].i # i
    <3>1. ASSUME NEW i \in 1..3
          PROVE  \E j \in 1..4 : /\ t[j] = [i |-> i, c |-> IF i <= 2 THEN text[i] ELSE NUL]
                                 /\ \A k \in (j + 1)..4 : t[k].i # i
      <4>1. CASE i = 1
        <5>1. t[1] = [i |-> i, c |-> IF i <= 2 THEN text[i] ELSE NUL] /\ \A k \in (1 + 1)..4 : t[k].i # i
          BY <2>1, <2>6, <4>1
        <5> QED BY <5>1
      <4>2. CASE i = 2
        <5>1. t[3] = [i |-> i, c |-> IF i <= 2 THEN text[i] ELSE NUL] /\ \A k \in (3 + 1)..4 : t[k].i # i
          BY <2>1, <2>6, <4>2
        <5> QED BY <5>1
      <4>3. CASE i = 3
        <5>1. t[4] = [i |-> i, c |-> IF i <= 2 THEN text[i] ELSE NUL] /\ \A k \in (4 + 1)..4 : t[k].i # i
          BY <2>1, <2>6, <4>3
        <5> QED BY <5>1
      <4> QED BY <4>1, <4>2, <4>3
    <3> QED BY <3>1
  <2>10. Len(text) = 2
    BY <2>1
  <2>11. \A i \in 1..(Len(text) + 1) : \E j \in 1..Len(t) :
           /\ t[j] = [i |-> i, c |-> IF i <= Len(text) THEN text[i] ELSE NUL]
           /\ \A k \in (j + 1)..Len(t) : t[k].i # i
    <3>1. Len(text) + 1 = 3 /\ Len(t) = 4
      BY <2>6, <2>10
    <3> QED BY ONLY <2>9, <2>10, <3>1
  <2>12. \A j \in 1..Len(t) : t[j].i \in 1..BUFSZ
    BY <2>6, <2>7
  <2> QED BY <2>8, <2>11, <2>12 DEF Writing
<1> QED BY <1>4, <1>5

(* An open reads a counter, and after the last makes its text of them.     *)
LEMMA CounterReadKeeps ==
  ASSUME ReadInv, NEW r \in Reader, counter_read(r) PROVE ReadInv'
<1>1. PICK f : f = rd[r] /\ f \in RdType /\ ReaderOK(f) /\ f.at = "gen" /\ r \in ready
  BY RunIs DEF counter_read
<1>2. PICK want : want = Reads(f.name) /\ Len(want) \in Nat
  BY ReadsType
<1>3. f.snap = <<>> /\ f.todo = <<>> /\ f.pos = 0 /\ f.name \in Opened
      /\ ((want = <<>> /\ f.seen = <<>>) \/ Len(f.seen) < Len(want))
  BY <1>1, <1>2 DEF ReaderOK, PlaceOK, GenOK
<1>4. PICK s : s = IF want = <<>> THEN <<>> ELSE Append(f.seen, Value(want[Len(f.seen) + 1], Len(f.seen)))
  OBVIOUS
<1>5. PICK text : text = Text(f.name, s)
  OBVIOUS
<1>6. PICK v : v = IF Len(s) < Len(want) THEN [f EXCEPT !.seen = s]
                   ELSE [f EXCEPT !.seen = s, !.snap = text,
                           !.todo = IF f.name \in SysBuffered THEN Writes(f.name, text) ELSE <<>>,
                           !.at = IF f.name \in SysBuffered THEN "fill" ELSE "alloc"]
  OBVIOUS
<1>7. Sets(r, v) /\ UNCHANGED <<tel, tim, ready, bufs, pheap>>
  BY <1>1, <1>2, <1>4, <1>5, <1>6 DEF counter_read
<1>8. Seen(f, s) /\ s \in Seq(Val) /\ Len(s) \in Nat
  <2>1. CASE want = <<>>
    <3>1. s = <<>> /\ Len(s) = 0 /\ s \in Seq(Val)
      BY <1>4, <2>1
    <3>2. f.name \notin {"stat", "cpu/load"}
      <4>1. Len(want) = 0
        BY <2>1
      <4>2. (f.name = "stat" => Len(want) = 4) /\ (f.name = "cpu/load" => Len(want) = 3)
        BY <1>2, ReadsIs
      <4> QED BY <4>1, <4>2
    <3> QED BY <1>2, <3>1, <3>2 DEF Seen
  <2>2. CASE want # <<>>
    <3>1. Len(f.seen) < Len(want)
      BY <1>3, <2>2
    <3>2. s = Append(f.seen, Value(Reads(f.name)[Len(f.seen) + 1], Len(f.seen)))
      BY <1>2, <1>4, <2>2
    <3>3. Seen(f, s)
      BY <1>1, <1>2, <3>1, <3>2, SeenIs
    <3> QED BY <3>3 DEF Seen
  <2> QED BY <2>1, <2>2
<1>9. v \in RdType /\ ReaderOK(v) /\ v.at \in {"gen", "fill", "alloc"} /\ v.name = f.name
  <2>1. CASE Len(s) < Len(want)
    <3>1. v = [f EXCEPT !.seen = s]
      BY <1>6, <2>1
    <3>2. v \in RdType /\ v.at = "gen" /\ v.name = f.name /\ v.snap = <<>> /\ v.todo = <<>> /\ v.seen = s /\ v.pos = 0
      BY <1>1, <1>3, <1>8, <3>1 DEF RdType
    <3>3. GenOK(v)
      BY <1>2, <1>8, <2>1, <3>2 DEF GenOK, Seen
    <3> QED BY <1>3, <3>2, <3>3 DEF ReaderOK, PlaceOK, SnapOK, FillOK, ListOK
  <2>2. CASE ~(Len(s) < Len(want))
    <3>1. Len(s) = Len(want)
      BY <1>2, <1>8, <2>2 DEF Seen
    <3>2. TextOK(f.name, text)
      BY <1>2, <1>5, <1>8, <3>1, TextIs
    <3>3. text \in Seq(Int)
      BY <3>2 DEF TextOK
    <3>4. PICK t : t = IF f.name \in SysBuffered THEN Writes(f.name, text) ELSE <<>>
      OBVIOUS
    <3>5. PICK place : place = IF f.name \in SysBuffered THEN "fill" ELSE "alloc"
      OBVIOUS
    <3>6. v = [f EXCEPT !.seen = s, !.snap = text, !.todo = t, !.at = place]
      BY <1>6, <2>2, <3>4, <3>5
    <3>7. f.name \in SysBuffered => Writing(t, text) /\ Len(text) \in 1..5 /\ \A i \in 1..Len(text) : text[i] # NUL
      <4>1. ASSUME f.name \in SysBuffered
            PROVE  Len(text) \in 1..5 /\ (\A i \in 1..Len(text) : text[i] # NUL) /\ (f.name # "cpu/load" => text = <<1, LF>>)
        BY <3>2, <4>1 DEF TextOK
      <4> QED BY <3>3, <3>4, <4>1, WritesIs
    <3>8. t \in Seq(Write)
      BY <3>4, <3>7 DEF Writing
    <3>9. v \in RdType /\ v.at = place /\ v.name = f.name /\ v.snap = text /\ v.todo = t /\ v.pos = 0
      BY <1>1, <1>3, <1>8, <3>3, <3>5, <3>6, <3>8 DEF RdType
    <3>10. PlaceOK(v)
      <4>1. f.name \in SysBuffered => t # <<>>
        BY <3>7 DEF Writing
      <4> QED BY <1>3, <3>4, <3>5, <3>9, <4>1 DEF PlaceOK
    <3>11. SnapOK(v)
      BY <3>2, <3>9 DEF SnapOK, TextOK
    <3>12. FillOK(v)
      <4> SUFFICES ASSUME f.name \in SysBuffered PROVE FillOK(v)
        BY <3>9 DEF FillOK
      <4>1. PICK n \in 1..5 : n = Len(text)
        BY <3>7
      <4>2. n + 1 \in 2..BUFSZ
        BY DEF BUFSZ
      <4>3. \A i \in 1..(Len(text) + 1) : \E j \in 1..Len(t) : LastWrite(v, i, j)
        <5> SUFFICES ASSUME NEW i \in 1..(Len(text) + 1) PROVE \E j \in 1..Len(t) : LastWrite(v, i, j)
          OBVIOUS
        <5>1. PICK j \in 1..Len(t) : /\ t[j] = [i |-> i, c |-> IF i <= Len(text) THEN text[i] ELSE NUL]
                                     /\ \A k \in (j + 1)..Len(t) : t[k].i # i
          BY <3>7 DEF Writing
        <5>2. Target(v, i) = IF i <= Len(text) THEN text[i] ELSE NUL
          BY <3>9 DEF Target
        <5>3. LastWrite(v, i, j)
          BY <3>9, <5>1, <5>2 DEF LastWrite
        <5> QED BY <5>3
      <4>4. \A j \in 1..Len(t) : t[j].i \in 1..BUFSZ
        BY <3>7 DEF Writing
      <4> QED BY <3>7, <3>9, <4>1, <4>2, <4>3, <4>4 DEF FillOK
    <3>13. GenOK(v) /\ ListOK(v)
      BY <3>5, <3>9 DEF GenOK, ListOK
    <3> QED BY <3>5, <3>9, <3>10, <3>11, <3>12, <3>13 DEF ReaderOK
  <2> QED BY <2>1, <2>2
<1>10. Exclusive'
  BY <1>1, <1>7, <1>9, ExclusiveKeeps DEF Opening
<1>11. HandlesFreed' /\ pheap' \in Nat
  BY <1>1, <1>7, <1>9, SameHandles
<1> QED BY <1>1, <1>7, <1>9, <1>10, <1>11, OwnStep

(* Every step of a reader, and every tick.                                 *)
LEMMA ReadStepKeeps == ASSUME ReadInv, ~Share, MaxTicks < WRAP, ProcStep PROVE ReadInv'
<1>1. CASE timer_handler
  BY <1>1, TickKeeps
<1>2. ASSUME NEW r \in Reader, ReaderStep(r) PROVE ReadInv'
  BY <1>2, WakesKeeps, ListStartsKeeps, ListdirKeeps, ClosesKeeps, OpenStartsKeeps, CounterReadKeeps, FillKeeps,
     OpensKeeps, FileReadKeeps, LseekKeeps DEF ReaderStep
<1> QED BY <1>1, <1>2 DEF ProcStep

(* Steps of the shell and of littlefs do not concern the readers.          *)
LEMMA ReadSame == ASSUME ReadInv, UNCHANGED procvars PROVE ReadInv'
<1>1. UNCHANGED <<tel, tim, ready, bufs, pheap, rd>>
  BY DEF procvars
<1>2. ASSUME NEW r \in Reader PROVE ReaderOK(rd[r])'
  <2>1. PICK f : f = rd[r] /\ f = rd'[r] /\ ReaderOK(f)
    BY <1>1 DEF ReadInv
  <2>2. ReaderOK(f)'
    BY <1>1, <2>1, SameReader
  <2> QED BY <2>1, <2>2
<1> QED BY <1>1, <1>2 DEF ReadInv, TelOK, TimOK, Exclusive, Opening, HandlesFreed

(* What a listing names.                                                   *)
LEMMA ListedIs ==
  /\ ToSet(Listing("/proc")) = ProcFile /\ ToSet(Listing("/sys")) = {"cpu", "net"}
  /\ ToSet(Listing("cpu")) = SysBuffered /\ ToSet(Listing("net")) = {"net/loopback"}
<1>1. ToSet(Listing("/proc")) = ProcFile
  <2>1. PICK l : l = Listing("/proc") /\ l = <<"tasks", "ticks", "mem", "stat", "interrupts", "version">>
    BY DEF Listing, proc_names
  <2>2. DOMAIN l = 1..6
    BY <2>1
  <2>3. l[1] = "tasks" /\ l[2] = "ticks" /\ l[3] = "mem" /\ l[4] = "stat" /\ l[5] = "interrupts" /\ l[6] = "version"
    BY <2>1
  <2>4. \A i \in 1..6 : i \in {1, 2, 3, 4, 5, 6}
    OBVIOUS
  <2>5. {l[i] : i \in 1..6} = {l[1], l[2], l[3], l[4], l[5], l[6]}
    BY <2>4
  <2> QED BY <2>1, <2>2, <2>3, <2>5 DEF ToSet, ProcFile
<1>2. ToSet(Listing("/sys")) = {"cpu", "net"}
  <2>1. PICK l : l = Listing("/sys") /\ l = <<"cpu", "net">>
    BY DEF Listing
  <2>2. DOMAIN l = {1, 2} /\ l[1] = "cpu" /\ l[2] = "net"
    BY <2>1
  <2> QED BY <2>1, <2>2 DEF ToSet
<1>3. ToSet(Listing("cpu")) = SysBuffered
  <2>1. PICK l : l = Listing("cpu") /\ l = <<"cpu/el", "cpu/cntfrq", "cpu/midr", "cpu/mmu", "cpu/load">>
    BY DEF Listing
  <2>2. DOMAIN l = 1..5
    BY <2>1
  <2>3. l[1] = "cpu/el" /\ l[2] = "cpu/cntfrq" /\ l[3] = "cpu/midr" /\ l[4] = "cpu/mmu" /\ l[5] = "cpu/load"
    BY <2>1
  <2>4. \A i \in 1..5 : i \in {1, 2, 3, 4, 5}
    OBVIOUS
  <2>5. {l[i] : i \in 1..5} = {l[1], l[2], l[3], l[4], l[5]}
    BY <2>4
  <2> QED BY <2>1, <2>2, <2>3, <2>5 DEF ToSet, SysBuffered
<1>4. ToSet(Listing("net")) = {"net/loopback"}
  <2>1. PICK l : l = Listing("net") /\ l = <<"net/loopback">>
    BY DEF Listing
  <2>2. DOMAIN l = {1} /\ l[1] = "net/loopback"
    BY <2>1
  <2> QED BY <2>1, <2>2 DEF ToSet
<1> QED BY <1>1, <1>2, <1>3, <1>4

(* Listings name what can be looked up, and all of it.                     *)
LEMMA NamesHold == ASSUME ReadInv PROVE NamesAgree
<1> SUFFICES ASSUME NEW r \in Reader, NEW f, f = rd[r], NEW names, names = ToSet(f.seen)
    PROVE  /\ f.at = "list" =>
                \A n \in names :
                  IF f.name = "/proc" THEN n \in ProcFile /\ pf_stat(n) = "REG"
                  ELSE sf_stat(n) = (IF n \in SysFile THEN "REG" ELSE "DIR")
           /\ f.at = "listed" /\ f.name = "/proc" => names = ProcFile
           /\ f.at = "listed" /\ f.name = "/sys" => UNION {ToSet(Listing(d)) : d \in names} = SysFile
  BY DEF NamesAgree
<1>1. f \in RdType /\ ListOK(f)
  BY DEF ReadInv, ReaderOK
<1>2. f.seen \in Seq(Val) /\ DOMAIN f.seen = 1..Len(f.seen)
  <2>1. f.seen \in Seq(Val)
    BY <1>1 DEF RdType
  <2> QED BY <2>1
<1>3. ASSUME f.at \in {"list", "listed"}
      PROVE  /\ f.name \in Dir /\ names \subseteq ToSet(Listing(f.name))
             /\ f.at = "listed" => names = ToSet(Listing(f.name))
  <2>1. /\ f.name \in Dir /\ f.pos <= Len(Listing(f.name)) /\ Len(f.seen) = f.pos
        /\ \A j \in 1..f.pos : f.seen[j] = Listing(f.name)[j]
        /\ f.at = "listed" => f.pos = Len(Listing(f.name))
    BY <1>1, <1>3 DEF ListOK
  <2>2. PICK l : l = Listing(f.name) /\ l \in Seq(Names) /\ DOMAIN l = 1..Len(l) /\ Len(l) \in Nat
    BY <2>1, ListingIs
  <2>3. f.pos \in Nat
    BY <1>1 DEF RdType
  <2>4. names = {f.seen[j] : j \in 1..f.pos}
    BY <1>2, <2>1 DEF ToSet
  <2>5. names = {l[j] : j \in 1..f.pos}
    BY <2>1, <2>2, <2>4
  <2>6. ToSet(l) = {l[j] : j \in 1..Len(l)}
    BY <2>2 DEF ToSet
  <2>7. 1..f.pos \subseteq 1..Len(l)
    BY <2>1, <2>2, <2>3
  <2> QED BY <2>1, <2>2, <2>5, <2>6, <2>7
<1>4. ASSUME f.at = "list", NEW n \in names
      PROVE  IF f.name = "/proc" THEN n \in ProcFile /\ pf_stat(n) = "REG"
             ELSE sf_stat(n) = (IF n \in SysFile THEN "REG" ELSE "DIR")
  <2>1. f.name \in Dir /\ n \in ToSet(Listing(f.name))
    BY <1>3, <1>4
  <2>2. CASE f.name = "/proc"
    <3>1. n \in ProcFile /\ ToSet(proc_names) = ProcFile
      BY <2>1, <2>2, ListedIs DEF Listing
    <3>2. n # "/proc"
      BY <3>1 DEF ProcFile
    <3> QED BY <2>2, <3>1, <3>2 DEF pf_stat
  <2>3. CASE f.name = "/sys"
    <3>1. n \in {"cpu", "net"}
      BY <2>1, <2>3, ListedIs
    <3> QED BY <2>3, <3>1 DEF sf_stat, SysFile, SysBuffered, sys_files
  <2>4. CASE f.name \in {"cpu", "net"}
    <3>1. n \in SysFile
      BY <2>1, <2>4, ListedIs DEF SysFile
    <3>2. n \notin {"/sys", "cpu", "net"} /\ SysFile = sys_files
      BY <3>1 DEF SysFile, SysBuffered, sys_files
    <3> QED BY <2>4, <3>1, <3>2 DEF sf_stat
  <2> QED BY <2>1, <2>2, <2>3, <2>4 DEF Dir
<1>5. f.at = "listed" /\ f.name = "/proc" => names = ProcFile
  BY <1>3, ListedIs
<1>6. f.at = "listed" /\ f.name = "/sys" => UNION {ToSet(Listing(d)) : d \in names} = SysFile
  <2> SUFFICES ASSUME f.at = "listed", f.name = "/sys" PROVE UNION {ToSet(Listing(d)) : d \in names} = SysFile
    OBVIOUS
  <2>1. names = {"cpu", "net"}
    BY <1>3, ListedIs
  <2>2. UNION {ToSet(Listing(d)) : d \in names} = ToSet(Listing("cpu")) \union ToSet(Listing("net"))
    BY <2>1
  <2> QED BY <2>2, ListedIs DEF SysFile
<1> QED BY <1>4, <1>5, <1>6

(* What is promised to a reader follows.                                   *)
LEMMA ReadersHold == ASSUME ReadInv PROVE ReadersOK
<1>1. Snapshot
  BY DEF ReadInv, ReaderOK, PlaceOK, RdType, Snapshot
<1>2. ClockWhole
  BY DEF ReadInv, ReaderOK, SnapOK, ClockWhole
<1>3. IdleSane
  BY DEF ReadInv, ReaderOK, SnapOK, IdleSane
<1>4. HandlesFreed
  BY DEF ReadInv
<1> QED BY <1>1, <1>2, <1>3, <1>4, NamesHold DEF ReadersOK

(* The parts of Services that are not the readers leave them alone.        *)
LEMMA ReadNextKeeps ==
  ASSUME ~Share, MaxTicks < WRAP, ReadInv, [Next]_vars PROVE ReadInv'
<1>1. CASE ProcStep
  BY <1>1, ReadStepKeeps
<1>2. CASE UNCHANGED procvars
  BY <1>2, ReadSame
<1>3. ProcStep \/ UNCHANGED procvars
  BY DEF Next, Of, vars
<1> QED BY <1>1, <1>2, <1>3

(* Readers of /proc and /sys, any number of them and whatever they open,   *)
(* get each the one text its open generated, sane and of one moment, and   *)
(* leave no handle: as long as no two have the same file of /sys open, for *)
(* its buffer is shared, and the counters have not come round (procfs.c,   *)
(* sysfs.c, telemetry.c).                                                  *)
THEOREM ShellReadersOK ==
  ASSUME ~Share, MaxTicks < WRAP PROVE Spec => []ReadersOK
<1>1. Init => ReadInv
  BY ReadStart DEF Init
<1>2. ReadInv /\ [Next]_vars => ReadInv'
  BY ReadNextKeeps
<1>3. ReadInv => ReadersOK
  BY ReadersHold
<1> QED BY <1>1, <1>2, <1>3, PTL DEF Spec

------------------------------------------------------------------------------
(* The order of a listing.  A file stands behind as many as have a lesser  *)
(* name, which are fewer than there are, and others for another file.      *)
LEMMA RankIs ==
  ASSUME NEW S \in SUBSET Nat, IsFiniteSet(S), NEW n \in S
  PROVE  /\ Cardinality({m \in S : m < n}) \in 0..(Cardinality(S) - 1) /\ Cardinality(S) \in Nat
         /\ \A p \in S : n < p => Cardinality({m \in S : m < n}) < Cardinality({m \in S : m < p})
<1>1. ASSUME NEW T \in SUBSET S PROVE IsFiniteSet(T) /\ Cardinality(T) \in Nat /\ Cardinality(T) <= Cardinality(S)
  BY FS_Subset, FS_CardinalityType
<1>2. PICK L : L = {m \in S : m < n} /\ L \in SUBSET S
  OBVIOUS
<1>3. Cardinality(L \union {n}) = Cardinality(L) + 1 /\ L \union {n} \in SUBSET S
  <2>1. n \notin L /\ IsFiniteSet(L) /\ L \union {n} \in SUBSET S
    BY <1>1, <1>2
  <2> QED BY <2>1, FS_AddElement
<1>4. Cardinality(L) + 1 <= Cardinality(S) /\ Cardinality(L) \in Nat /\ Cardinality(S) \in Nat
  BY <1>1, <1>2, <1>3
<1>5. ASSUME NEW p \in S, n < p PROVE Cardinality(L) < Cardinality({m \in S : m < p})
  <2>1. PICK P : P = {m \in S : m < p} /\ P \in SUBSET S
    OBVIOUS
  <2>2. L \union {n} \in SUBSET P
    <3>1. \A m \in L : m < p
      BY <1>2, <1>5
    <3> QED BY <1>2, <1>5, <2>1, <3>1
  <2>3. Cardinality(L \union {n}) <= Cardinality(P) /\ Cardinality(P) \in Nat
    BY <1>1, <2>1, <2>2, FS_Subset
  <2> QED BY <1>3, <1>4, <2>1, <2>3
<1> QED BY <1>2, <1>4, <1>5

(* So each place has one file, and all files have a place.                 *)
LEMMA InOrderIs ==
  ASSUME NEW S \in SUBSET Nat, IsFiniteSet(S), NEW s, s = InOrder(S)
  PROVE  /\ s \in Seq(S) /\ Len(s) = Cardinality(S) /\ Cardinality(S) \in Nat
         /\ ToSet(s) = S /\ \A i, j \in 1..Len(s) : i < j => s[i] < s[j]
<1> DEFINE rank == [n \in S |-> Cardinality({m \in S : m < n})]
<1>1. PICK k \in Nat : k = Cardinality(S)
  BY FS_CardinalityType
<1>2. \A n \in S : rank[n] \in 0..(k - 1) /\ \A p \in S : n < p => rank[n] < rank[p]
  BY <1>1, RankIs
<1>3. rank \in Injection(S, 0..(k - 1))
  <2>1. rank \in [S -> 0..(k - 1)]
    BY <1>2
  <2>2. \A n, p \in S : rank[n] = rank[p] => n = p
    <3>1. \A n, p \in S : n < p \/ p < n \/ n = p
      OBVIOUS
    <3>2. \A n \in S : rank[n] \in Int
      BY <1>1, <1>2
    <3> HIDE DEF rank
    <3> QED BY <1>2, <3>1, <3>2
  <2>3. DOMAIN rank = S
    OBVIOUS
  <2> HIDE DEF rank
  <2> QED BY <2>1, <2>2, <2>3 DEF Injection, IsInjective
<1>4. Cardinality(0..(k - 1)) = k /\ IsFiniteSet(0..(k - 1))
  <2>1. CASE k = 0
    BY <2>1, FS_Interval
  <2>2. CASE k # 0
    BY <2>2, FS_Interval
  <2> QED BY <2>1, <2>2
<1>5. rank \in Surjection(S, 0..(k - 1))
  <2> HIDE DEF rank
  <2> QED BY <1>1, <1>3, <1>4, FS_Injection
<1>6. \A i \in 1..k : \E n \in S : rank[n] = i - 1
  <2>1. \A i \in 1..k : i - 1 \in 0..(k - 1)
    OBVIOUS
  <2>2. \A x \in 0..(k - 1) : \E n \in S : rank[n] = x
    <3>1. DOMAIN rank = S
      OBVIOUS
    <3> HIDE DEF rank
    <3> QED BY <1>5, <3>1 DEF Surjection
  <2> HIDE DEF rank
  <2> QED BY <2>1, <2>2
<1>7. \A n \in S : rank[n] \in Int
  BY <1>1, <1>2
<1>8. \A i \in 1..k : s[i] \in S /\ rank[s[i]] = i - 1
  <2> SUFFICES ASSUME NEW i \in 1..k PROVE s[i] \in S /\ rank[s[i]] = i - 1
    OBVIOUS
  <2>1. s[i] = CHOOSE n \in S : Cardinality({m \in S : m < n}) = i - 1
    BY <1>1 DEF InOrder
  <2>2. \E n \in S : Cardinality({m \in S : m < n}) = i - 1
    BY <1>6
  <2>3. s[i] \in S /\ Cardinality({m \in S : m < s[i]}) = i - 1
    BY <2>1, <2>2
  <2> QED BY <2>3
<1>9. s \in Seq(S) /\ Len(s) = k /\ DOMAIN s = 1..k
  <2>1. PICK F : F = [i \in 1..k |-> CHOOSE n \in S : Cardinality({m \in S : m < n}) = i - 1] /\ s = F
    BY <1>1 DEF InOrder
  <2>2. DOMAIN s = 1..k /\ \A i \in 1..k : s[i] \in S
    BY <1>8, <2>1
  <2>3. s = [i \in 1..k |-> s[i]]
    BY <2>1, <2>2
  <2>4. s \in [1..k -> S]
    BY <2>2, <2>3
  <2> QED BY <2>2, <2>4, <1>1
<1>10. ToSet(s) = S
  <2>1. ToSet(s) \subseteq S
    BY <1>8, <1>9 DEF ToSet
  <2>2. ASSUME NEW n \in S PROVE n \in ToSet(s)
    <3>1. PICK i \in 1..k : rank[n] = i - 1
      <4>1. PICK x \in 0..(k - 1) : rank[n] = x
        BY <1>2
      <4>2. x + 1 \in 1..k /\ x = (x + 1) - 1
        OBVIOUS
      <4> HIDE DEF rank
      <4> QED BY <4>1, <4>2
    <3>2. s[i] = n
      <4> HIDE DEF rank
      <4> QED BY <1>3, <1>8, <3>1 DEF Injection, IsInjective
    <3> QED BY <1>9, <3>2 DEF ToSet
  <2> QED BY <2>1, <2>2
<1>11. ASSUME NEW i \in 1..k, NEW j \in 1..k, i < j PROVE s[i] < s[j]
  <2>1. rank[s[i]] < rank[s[j]]
    <3> HIDE DEF rank
    <3> QED BY <1>8, <1>11
  <2>2. s[i] \in S /\ s[j] \in S /\ rank[s[i]] \in Int /\ rank[s[j]] \in Int
    <3>1. s[i] \in S /\ s[j] \in S
      BY <1>8
    <3> HIDE DEF rank
    <3> QED BY <1>7, <3>1
  <2>3. PICK a \in S, b \in S : a = s[i] /\ b = s[j] /\ rank[a] < rank[b] /\ rank[a] \in Int /\ rank[b] \in Int
    BY <2>1, <2>2
  <2>4. b < a => rank[b] < rank[a]
    BY <1>2
  <2>5. a \in Nat /\ b \in Nat
    OBVIOUS
  <2> HIDE DEF rank
  <2> QED BY <2>3, <2>4, <2>5
<1> QED BY <1>1, <1>9, <1>10, <1>11

------------------------------------------------------------------------------
(* littlefs and its port.                                                  *)
WalkType == [on : BOOLEAN, idx : Nat, names : Seq(LfsFile), quiet : BOOLEAN]
PortOK ==
  /\ at \in {"idle", "format", "mount", "vfs"} /\ mounted \in BOOLEAN /\ vmount \in BOOLEAN
  /\ lfs \in [up : BOOLEAN, files : SUBSET LfsFile, made : Nat]
  /\ at = "idle" => mounted = vmount /\ lfs.up = mounted
  /\ at # "idle" => ~mounted /\ ~vmount
  /\ at \in {"format", "mount"} => ~lfs.up
  /\ at = "vfs" => lfs.up

(* What is open was opened of the littlefs that is mounted, and its file   *)
(* is there.                                                               *)
OpenedOK ==
  \A h \in LfsHandle :
    /\ fh[h].kind # "none" => mounted
    /\ fh[h].kind = "file" => fh[h].name \in lfs.files

(* A listing has given the first names of those there are.                 *)
WalkOK ==
  /\ walk \in WalkType /\ (walk.on => mounted)
  /\ walk.on /\ walk.quiet =>
       /\ walk.idx <= Len(InOrder(lfs.files)) /\ Len(walk.names) = walk.idx
       /\ \A i \in 1..walk.idx : walk.names[i] = InOrder(lfs.files)[i]
LfsInv == PortOK /\ fh \in [LfsHandle -> [kind : {"none", "dir", "file"}, name : Nat]] /\ OpenedOK /\ WalkOK /\ ~misuse

(* The names of any directory, in their order.                             *)
LEMMA SortedIs ==
  ASSUME NEW S \in SUBSET LfsFile
  PROVE  /\ InOrder(S) \in Seq(LfsFile) /\ Len(InOrder(S)) \in Nat
         /\ ToSet(InOrder(S)) = S
<1>1. S \in SUBSET Nat /\ IsFiniteSet(S)
  BY LfsAssumption, FS_Subset
<1>2. PICK s : s = InOrder(S)
  OBVIOUS
<1>3. s \in Seq(S) /\ Len(s) \in Nat /\ ToSet(s) = S
  BY <1>1, <1>2, InOrderIs
<1>4. s \in Seq(LfsFile)
  BY <1>3
<1> QED BY <1>2, <1>3, <1>4

(* Nothing is mounted and nothing is open at the start.                    *)
LEMMA LfsStart == ASSUME LfsInit PROVE LfsInv
<1>1. /\ mounted = FALSE /\ at = "idle" /\ vmount = FALSE
      /\ lfs = [up |-> FALSE, files |-> {}, made |-> 0]
      /\ fh = [h \in LfsHandle |-> FreeFh]
      /\ walk = [on |-> FALSE, idx |-> 0, names |-> <<>>, quiet |-> TRUE] /\ misuse = FALSE
  BY DEF LfsInit, NoWalk
<1>2. PortOK
  BY <1>1 DEF PortOK
<1>3. fh \in [LfsHandle -> [kind : {"none", "dir", "file"}, name : Nat]] /\ \A h \in LfsHandle : fh[h].kind = "none"
  BY <1>1 DEF FreeFh
<1>4. WalkOK
  <2>1. <<>> \in Seq(LfsFile)
    OBVIOUS
  <2> QED BY <1>1, <2>1 DEF WalkOK, WalkType
<1> QED BY <1>1, <1>2, <1>3, <1>4 DEF LfsInv, OpenedOK

(* lfs_port.c mounts and unmounts.  While it is mounted a mount does       *)
(* nothing; while it is not, nothing is open.                              *)
LEMMA MountKeeps ==
  ASSUME LfsInv, ~BusyUmount, mount_starts \/ lfs_format \/ lfs_mount \/ lfs_vfs_mount \/ lfs_port_umount
  PROVE  LfsInv'
<1>1. PortOK /\ OpenedOK /\ WalkOK /\ ~misuse /\ fh \in [LfsHandle -> [kind : {"none", "dir", "file"}, name : Nat]]
  BY DEF LfsInv
<1>2. UNCHANGED <<fh, walk, misuse>>
  BY DEF mount_starts, lfs_format, lfs_mount, lfs_vfs_mount, lfs_port_umount
<1>3. PortOK'
  <2>1. CASE mount_starts
    BY <1>1, <2>1 DEF mount_starts, PortOK
  <2>2. CASE lfs_format
    BY <1>1, <2>2 DEF lfs_format, PortOK
  <2>3. CASE lfs_mount
    BY <1>1, <2>3 DEF lfs_mount, PortOK
  <2>4. CASE lfs_vfs_mount
    BY <1>1, <2>4 DEF lfs_vfs_mount, PortOK
  <2>5. CASE lfs_port_umount
    BY <1>1, <2>5 DEF lfs_port_umount, PortOK
  <2> QED BY <2>1, <2>2, <2>3, <2>4, <2>5
<1>4. (mounted /\ mounted' /\ lfs'.files = lfs.files) \/ ~mounted \/ (~walk.on /\ \A h \in LfsHandle : fh[h].kind = "none")
  BY <1>1 DEF mount_starts, lfs_format, lfs_mount, lfs_vfs_mount, lfs_port_umount, PortOK
<1>5. OpenedOK'
  BY <1>1, <1>2, <1>4 DEF OpenedOK
<1>6. WalkOK'
  BY <1>1, <1>2, <1>4 DEF WalkOK
<1> QED BY <1>1, <1>2, <1>3, <1>5, <1>6 DEF LfsInv

(* Calls come to littlefs only while it is mounted.                        *)
LEMMA CallOK ==
  ASSUME LfsInv, NEW ok \in BOOLEAN, Calling(ok), ok, at = "idle", mounted \/ vmount PROVE ~misuse'
BY DEF LfsInv, PortOK, Calling

(* A directory is opened, or littlefs refuses.                             *)
LEMMA OpenDirKeeps == ASSUME LfsInv, lp_open_dir PROVE LfsInv'
<1>1. UNCHANGED <<mounted, at, lfs, vmount, walk>> /\ (OpensAs("dir", 0) \/ UNCHANGED fh) /\ vmount /\ at = "idle"
      /\ Calling(TRUE)
  BY DEF lp_open_dir, Reachable
<1>2. mounted /\ fh \in [LfsHandle -> [kind : {"none", "dir", "file"}, name : Nat]] /\ OpenedOK
  BY <1>1 DEF LfsInv, PortOK
<1>3. fh' \in [LfsHandle -> [kind : {"none", "dir", "file"}, name : Nat]] /\ OpenedOK'
  <2>1. CASE UNCHANGED fh
    BY <1>1, <1>2, <2>1 DEF OpenedOK
  <2>2. CASE OpensAs("dir", 0)
    <3>1. PICK h \in LfsHandle : fh' = [fh EXCEPT ![h] = [kind |-> "dir", name |-> 0]]
      BY <2>2 DEF OpensAs
    <3> QED BY <1>1, <1>2, <3>1 DEF OpenedOK
  <2> QED BY <1>1, <2>1, <2>2
<1>4. ~misuse'
  BY <1>1, CallOK
<1> QED BY <1>1, <1>3, <1>4 DEF LfsInv, PortOK, WalkOK

(* A file that is there, or one that is made, which moves the others on.   *)
LEMMA OpenFileKeeps ==
  ASSUME LfsInv, NEW name \in LfsFile, NEW create \in BOOLEAN, lp_open_file(name, create) PROVE LfsInv'
<1>1. UNCHANGED <<mounted, at, vmount>> /\ vmount /\ at = "idle" /\ Calling(TRUE)
  BY DEF lp_open_file, Reachable
<1>2. mounted /\ fh \in [LfsHandle -> [kind : {"none", "dir", "file"}, name : Nat]] /\ OpenedOK /\ WalkOK /\ PortOK
      /\ name \in Nat /\ lfs \in [up : BOOLEAN, files : SUBSET LfsFile, made : Nat] /\ walk \in WalkType
  BY <1>1, LfsAssumption DEF LfsInv, PortOK, WalkOK
<1>3. ~misuse'
  BY <1>1, CallOK
<1>4. CASE UNCHANGED <<lfs, fh, walk>>
  BY <1>1, <1>3, <1>4 DEF LfsInv, PortOK, OpenedOK, WalkOK
<1>5. ASSUME OpensAs("file", name), name \in lfs'.files, lfs.files \subseteq lfs'.files
      PROVE  fh' \in [LfsHandle -> [kind : {"none", "dir", "file"}, name : Nat]] /\ OpenedOK'
  <2>1. PICK h \in LfsHandle : fh' = [fh EXCEPT ![h] = [kind |-> "file", name |-> name]]
    BY <1>5 DEF OpensAs
  <2> QED BY <1>1, <1>2, <1>5, <2>1 DEF OpenedOK
<1>6. CASE name \in lfs.files /\ OpensAs("file", name) /\ UNCHANGED <<lfs, walk>>
  <2>1. fh' \in [LfsHandle -> [kind : {"none", "dir", "file"}, name : Nat]] /\ OpenedOK'
    BY <1>5, <1>6
  <2> QED BY <1>1, <1>2, <1>3, <1>6, <2>1 DEF LfsInv, PortOK, WalkOK
<1>7. CASE /\ lfs' = [lfs EXCEPT !.files = @ \union {name}, !.made = @ + 1]
           /\ walk' = [walk EXCEPT !.quiet = FALSE] /\ OpensAs("file", name)
  <2>1. lfs' \in [up : BOOLEAN, files : SUBSET LfsFile, made : Nat] /\ lfs'.up = lfs.up /\ lfs'.files = lfs.files \union {name}
    <3>1. lfs' = [up |-> lfs.up, files |-> lfs.files \union {name}, made |-> lfs.made + 1]
      BY <1>2, <1>7
    <3>2. lfs.made + 1 \in Nat /\ lfs.up \in BOOLEAN /\ lfs.files \union {name} \in SUBSET LfsFile
      BY <1>2
    <3> QED BY <3>1, <3>2
  <2>2. walk' \in WalkType /\ walk'.on = walk.on /\ walk'.quiet = FALSE
    BY <1>2, <1>7 DEF WalkType
  <2>3. fh' \in [LfsHandle -> [kind : {"none", "dir", "file"}, name : Nat]] /\ OpenedOK'
    BY <1>5, <1>7, <2>1
  <2>4. PortOK'
    BY <1>1, <1>2, <2>1 DEF PortOK
  <2>5. WalkOK'
    BY <1>1, <1>2, <2>2 DEF WalkOK
  <2> QED BY <1>3, <2>3, <2>4, <2>5 DEF LfsInv
<1> QED BY <1>4, <1>6, <1>7 DEF lp_open_file

(* Reads, writes and closes: of what is open.                              *)
LEMMA HandleKeeps ==
  ASSUME LfsInv, NEW h \in LfsHandle, lp_io(h) \/ lp_close(h) PROVE LfsInv'
<1>1. UNCHANGED <<mounted, at, lfs, vmount, walk>> /\ at = "idle"
  BY DEF lp_io, lp_close
<1>2. fh \in [LfsHandle -> [kind : {"none", "dir", "file"}, name : Nat]] /\ OpenedOK /\ ~misuse
  BY DEF LfsInv
<1>3. ~misuse'
  <2>1. CASE lp_io(h)
    BY <1>1, <1>2, <2>1, CallOK DEF lp_io, OpenedOK
  <2>2. CASE lp_close(h)
    BY <1>1, <1>2, <2>2, CallOK DEF lp_close, OpenedOK
  <2> QED BY <2>1, <2>2
<1>4. fh' \in [LfsHandle -> [kind : {"none", "dir", "file"}, name : Nat]] /\ OpenedOK'
  <2>1. CASE UNCHANGED fh
    BY <1>1, <1>2, <2>1 DEF OpenedOK
  <2>2. CASE fh' = [fh EXCEPT ![h] = FreeFh]
    BY <1>1, <1>2, <2>2 DEF OpenedOK, FreeFh
  <2> QED BY <2>1, <2>2 DEF lp_io, lp_close
<1> QED BY <1>1, <1>3, <1>4 DEF LfsInv, PortOK, WalkOK

(* A look at a file changes nothing.                                       *)
LEMMA StatKeeps == ASSUME LfsInv, lp_stat PROVE LfsInv'
<1>1. UNCHANGED <<mounted, at, lfs, vmount, fh, walk>> /\ at = "idle"
  BY DEF lp_stat
<1>2. ~misuse /\ (IF vmount THEN Calling(TRUE) ELSE UNCHANGED misuse)
  BY DEF lp_stat, LfsInv
<1>3. ~misuse'
  BY <1>1, <1>2, CallOK
<1> QED BY <1>1, <1>3 DEF LfsInv, PortOK, OpenedOK, WalkOK

(* A listing: each name is the next of those there are.                    *)
LEMMA WalkKeeps == ASSUME LfsInv, walk_starts \/ lp_listdir \/ walk_ends PROVE LfsInv'
<1>1. UNCHANGED <<mounted, at, lfs, vmount, fh>> /\ at = "idle"
  BY DEF walk_starts, lp_listdir, walk_ends
<1>2. WalkOK /\ walk \in WalkType /\ PortOK /\ ~misuse /\ (walk.on => mounted)
  BY DEF LfsInv, WalkOK
<1>3. ~misuse'
  <2>1. CASE walk_starts
    BY <1>2, <2>1 DEF walk_starts
  <2>2. CASE lp_listdir \/ walk_ends
    BY <1>1, <1>2, <2>2, CallOK DEF lp_listdir, walk_ends
  <2> QED BY <2>1, <2>2
<1>4. WalkOK'
  <2> PICK l : l = InOrder(lfs.files)
    OBVIOUS
  <2>0. l \in Seq(LfsFile) /\ Len(l) \in Nat
    BY <1>2, SortedIs DEF PortOK
  <2>1. CASE walk_starts
    <3>1. walk' = [on |-> TRUE, idx |-> 0, names |-> <<>>, quiet |-> TRUE] /\ vmount
      BY <2>1 DEF walk_starts, NoWalk
    <3>2. mounted'
      BY <1>1, <1>2, <3>1 DEF PortOK
    <3>3. walk' \in WalkType /\ walk'.idx = 0 /\ walk'.names = <<>> /\ Len(<<>>) = 0
      BY <3>1 DEF WalkType
    <3>4. 0 <= Len(InOrder(lfs.files)) /\ 1..0 = {}
      BY <2>0
    <3> QED BY <1>1, <3>2, <3>3, <3>4 DEF WalkOK
  <2>2. CASE walk_ends
    <3>1. walk' = [on |-> FALSE, idx |-> 0, names |-> <<>>, quiet |-> TRUE]
      BY <2>2 DEF walk_ends, NoWalk
    <3>2. walk' \in WalkType /\ walk'.on = FALSE
      <4>1. <<>> \in Seq(LfsFile)
        OBVIOUS
      <4> QED BY <3>1, <4>1 DEF WalkType
    <3> QED BY <3>2 DEF WalkOK
  <2>3. CASE lp_listdir
    <3>1. PICK i \in Nat : i = walk.idx
      BY <1>2 DEF WalkType
    <3>2. lp_nth(walk.idx) = <<l[i + 1]>> /\ i + 1 <= Len(l)
      <4>1. lp_nth(walk.idx) = IF i + 1 > Len(l) THEN <<>> ELSE <<l[i + 1]>>
        BY <3>1 DEF lp_nth
      <4>2. ~(i + 1 > Len(l))
        BY <2>3, <4>1 DEF lp_listdir
      <4> QED BY <2>0, <3>1, <4>1, <4>2
    <3>3. PICK n : n = walk.names /\ n \in Seq(LfsFile) /\ Len(n) \in Nat
      <4>1. walk.names \in Seq(LfsFile)
        BY <1>2 DEF WalkType
      <4> QED BY <4>1
    <3>4. PICK x \in LfsFile : x = l[i + 1]
      BY <2>0, <3>1, <3>2
    <3>5. PICK m : m = n \o <<x>>
      OBVIOUS
    <3>6. walk' = [walk EXCEPT !.idx = i + 1, !.names = m]
      BY <2>3, <3>1, <3>2, <3>3, <3>4, <3>5 DEF lp_listdir
    <3>7. m \in Seq(LfsFile) /\ Len(m) = Len(n) + 1 /\ m[Len(n) + 1] = x /\ \A j \in 1..Len(n) : m[j] = n[j]
      BY <3>3, <3>4, <3>5
    <3>8. walk' \in WalkType /\ walk'.on = walk.on /\ walk'.quiet = walk.quiet /\ walk'.idx = i + 1 /\ walk'.names = m
      <4>1. walk' = [on |-> walk.on, idx |-> i + 1, names |-> m, quiet |-> walk.quiet]
        BY <1>2, <3>6 DEF WalkType
      <4>2. walk.on \in BOOLEAN /\ walk.quiet \in BOOLEAN /\ i + 1 \in Nat /\ m \in Seq(LfsFile)
        BY <1>2, <3>1, <3>7 DEF WalkType
      <4> QED BY <4>1, <4>2 DEF WalkType
    <3>9. ASSUME walk.on, walk.quiet
          PROVE  Len(m) = i + 1 /\ \A j \in 1..(i + 1) : m[j] = l[j]
      <4>1. Len(n) = i /\ \A j \in 1..i : n[j] = l[j]
        BY <1>2, <3>1, <3>3, <3>9 DEF WalkOK
      <4>2. \A j \in 1..(i + 1) : j \in 1..i \/ j = i + 1
        BY <3>1
      <4> QED BY <3>4, <3>7, <4>1, <4>2
    <3> QED BY <1>1, <1>2, <3>2, <3>8, <3>9 DEF WalkOK
  <2> QED BY <2>1, <2>2, <2>3
<1> QED BY <1>1, <1>3, <1>4 DEF LfsInv, PortOK, OpenedOK

(* Every step of the users of littlefs.                                    *)
LEMMA LfsStepKeeps == ASSUME LfsInv, ~BusyUmount, LfsStep PROVE LfsInv'
BY MountKeeps, OpenDirKeeps, OpenFileKeeps, HandleKeeps, WalkKeeps, StatKeeps DEF LfsStep

(* What others do.                                                         *)
LEMMA LfsSame == ASSUME LfsInv, UNCHANGED lfsvars PROVE LfsInv'
BY DEF LfsInv, PortOK, OpenedOK, WalkOK, lfsvars

(* A listing that is over and during which no file was made has all names. *)
LEMMA WalkWhole ==
  ASSUME LfsInv, LfsStep \/ UNCHANGED lfsvars, walk.on, ~walk'.on, walk.quiet
  PROVE  walk.names = InOrder(lfs.files)
<1>1. WalkOK /\ walk \in WalkType /\ PortOK
  BY DEF LfsInv, WalkOK
<1>2. walk_ends
  <2>1. ASSUME UNCHANGED walk PROVE FALSE
    BY <2>1
  <2>2. walk_ends \/ lp_listdir \/ UNCHANGED walk \/ walk' = [walk EXCEPT !.quiet = FALSE]
    BY DEF LfsStep, mount_starts, lfs_format, lfs_mount, lfs_vfs_mount, lfs_port_umount, lp_open_dir, lp_stat,
           lp_open_file, lp_io, lp_close, walk_starts, lfsvars
  <2>3. walk' = [walk EXCEPT !.quiet = FALSE] \/ lp_listdir => walk'.on = walk.on
    BY <1>1 DEF lp_listdir, WalkType
  <2> QED BY <2>1, <2>2, <2>3
<1>3. PICK l, n, i : l = InOrder(lfs.files) /\ n = walk.names /\ i = walk.idx
  OBVIOUS
<1>4. l \in Seq(LfsFile) /\ Len(l) \in Nat /\ n \in Seq(LfsFile) /\ i \in Nat
  BY <1>1, <1>3, SortedIs DEF PortOK, WalkType
<1>5. i + 1 > Len(l)
  <2>1. lp_nth(i) = IF i + 1 > Len(l) THEN <<>> ELSE <<l[i + 1]>>
    BY <1>3 DEF lp_nth
  <2>2. lp_nth(i) = <<>>
    BY <1>2, <1>3 DEF walk_ends
  <2> QED BY <2>1, <2>2
<1>6. i <= Len(l) /\ Len(n) = i /\ \A j \in 1..i : n[j] = l[j]
  BY <1>1, <1>3 DEF WalkOK
<1>7. i = Len(l)
  BY <1>4, <1>5, <1>6
<1>8. n = l
  BY <1>4, <1>6, <1>7, SeqEqual
<1> QED BY <1>3, <1>8

(* The parts of Services that are not the users of littlefs leave it alone. *)
LEMMA LfsFrame == ASSUME [Next]_vars PROVE LfsStep \/ UNCHANGED lfsvars
BY DEF Next, Of, vars

(* Between its calls the flag of lfs_port.c, the mount table and littlefs  *)
(* agree, littlefs is called only while it is mounted and for what it      *)
(* opened, and a listing during which no file is made gives every file     *)
(* once, in order: whichever calls fail, in whatever order they come, as   *)
(* long as it is not unmounted while something is open (lfs_port.c).       *)
THEOREM ShellLittlefsOK ==
  ASSUME ~BusyUmount PROVE Spec => LittlefsOK
<1>1. Init => LfsInv
  BY LfsStart DEF Init
<1>2. LfsInv /\ [Next]_vars => LfsInv'
  BY LfsFrame, LfsStepKeeps, LfsSame
<1>3. LfsInv => MountExact /\ LittlefsUsedRight
  BY DEF LfsInv, PortOK, MountExact, LittlefsUsedRight
<1>4. LfsInv /\ [Next]_vars =>
        [walk.on /\ ~walk'.on /\ walk.quiet => walk.names = InOrder(lfs.files)]_lfsvars
  BY LfsFrame, WalkWhole
<1> QED BY <1>1, <1>2, <1>3, <1>4, PTL DEF Spec, LittlefsOK, ListingExact
=============================================================================
