--------------------------------- MODULE Elf ----------------------------------
(***************************************************************************)
(* The ELF loader, and the memory and files that it and the shell use.     *)
(***************************************************************************)
EXTENDS Integers, FiniteSets, SequencesExt

(***************************************************************************)
(* What the shell and the ELF loader use of memory and files: a heap of    *)
(* blocks, and the descriptors of vfs.c, whose promise module FileStore    *)
(* states.  An open file costs one heap block, or two in procfs, which     *)
(* keeps the text it generated at the open.  Any malloc may fail.          *)
(***************************************************************************)

CONSTANTS
  Block,          \* heap blocks: 1..n
  VFS_MAX_FD,
  Path,           \* the files there are
  HandleBlocks    \* path -> mallocs in the open of its file system

ASSUME FilesAssumption ==
  /\ Block \subseteq Nat \ {0} /\ IsFiniteSet(Block)
  /\ VFS_MAX_FD \in Nat
  /\ HandleBlocks \in [Path -> {1, 2}]

VARIABLES
  heap,           \* the allocated blocks
  wild,           \* what was freed although it was not allocated
  fds             \* descriptor -> [used, blks]

Fd == 0..(VFS_MAX_FD - 1)
FreeFd == [used |-> FALSE, blks |-> {}]

Least(S) == CHOOSE b \in S : \A c \in S : b <= c
HasRoom(h, n) == Cardinality(Block \ h) >= n
malloc(h) == Least(Block \ h)

(* free on a set of blocks.                                                *)
Frees(S) == heap' = heap \ S /\ wild' = wild \union (S \ heap)

(* pf_open, sf_open, rom_open, rf_open: the blocks of the handle.          *)
NewHandle(h, path) ==
  LET first == malloc(h)
  IN  IF HandleBlocks[path] = 1 THEN {first} ELSE {first, malloc(h \union {first})}

(* vfs_open: the lowest free descriptor, if there is one, the file exists  *)
(* and its handle can be allocated.                                        *)
CanOpen(path) ==
  /\ path \in Path /\ \E d \in Fd : ~fds[d].used
  /\ HasRoom(heap, HandleBlocks[path])
NewFd == Least({d \in Fd : ~fds[d].used})

Opens(path) ==
  /\ CanOpen(path)
  /\ heap' = heap \union NewHandle(heap, path)
  /\ fds' = [fds EXCEPT ![NewFd] = [used |-> TRUE, blks |-> NewHandle(heap, path)]]
  /\ UNCHANGED wild

(* vfs_close of descriptor d, and free of the blocks S with it.            *)
ClosesAndFrees(d, S) ==
  /\ fds' = [fds EXCEPT ![d] = FreeFd]
  /\ Frees(fds[d].blks \union S)

FilesInit == heap = {} /\ wild = {} /\ fds = [d \in Fd |-> FreeFd]

-----------------------------------------------------------------------------
(***************************************************************************)
(* services/elf/elf_load.c: elf_run and elf_kill, step by step, against    *)
(* the heap, the file system and the tasks.  The loader has one caller at  *)
(* a time, the shell task; load is the elf_run under way.  The tasks it    *)
(* creates run between its steps, and end by themselves, or are deleted by *)
(* someone else.                                                           *)
(***************************************************************************)

CONSTANTS
  Kind,             \* path -> what load_elf and load_itrm make of the file
  SHELL,            \* the shell's own task
  UserTask,         \* the other IDs up to TMAX_TSKID
  ReservedTask,     \* the IDs of acre_tsk
  ELF_MODULES_MAX,
  Window            \* the fixed load window, which is not in the heap

ASSUME ElfAssumption ==
  /\ Kind \in [Path -> {"heap", "fixed", "bad"}]
  /\ Window \notin Block
  /\ ReservedTask \subseteq Nat \ {0}
  /\ SHELL \notin UserTask \union ReservedTask
  /\ UserTask \intersect ReservedTask = {}

VARIABLES
  mods,             \* g_mods: slot -> [used, tskid, img, stk]
  app,              \* task -> [st, img, stk]: its state and what it runs in
  load              \* elf_run: [pc, path, tid, fd, buf, img, owned, stk, mod, id, rc]

elfvars == <<mods, app, load>>

Task == {SHELL} \union UserTask \union ReservedTask
Mod == 1..ELF_MODULES_MAX
FreeMod == [used |-> FALSE, tskid |-> 0, img |-> 0, stk |-> 0]
NoTask == [st |-> "NOEXS", img |-> 0, stk |-> 0]
NewLoad(pc, path, tid, rc) ==
  [pc |-> pc, path |-> path, tid |-> tid, fd |-> -1, buf |-> 0, img |-> 0,
   owned |-> FALSE, stk |-> 0, mod |-> 0, id |-> 0, rc |-> rc]
NoLoad == NewLoad("idle", "", 0, 0)

ElfInit ==
  /\ mods = [m \in Mod |-> FreeMod]
  /\ app = [t \in Task |-> IF t = SHELL THEN [NoTask EXCEPT !.st = "RUN"] ELSE NoTask]
  /\ load = NoLoad

At(pc) == load.pc = pc
Goes(pc) == load' = [load EXCEPT !.pc = pc]
Returns(rc) == load' = NewLoad("done", "", 0, rc)

(* elf_unload, and the stack when it is elf_run's own.                     *)
Held == (IF load.owned THEN {load.img} ELSE {})
        \union (IF load.stk = 0 THEN {} ELSE {load.stk})

elf_run(path, tid) ==
  /\ At("idle")
  /\ load' = NewLoad("open", path, tid, 0)
  /\ UNCHANGED <<heap, wild, fds, mods, app>>

(* load_file: stat and open, then a buffer, then the whole file.           *)
load_open ==
  /\ At("open")
  /\ \/ Opens(load.path) /\ load' = [load EXCEPT !.pc = "read", !.fd = NewFd]
     \/ Returns(-1) /\ UNCHANGED <<heap, wild, fds>>
  /\ UNCHANGED <<mods, app>>

(* Faulty: the descriptor is not closed when there is no memory. *)
load_read_Open ==
  /\ At("read")
  /\ \/ /\ HasRoom(heap, 1)
        /\ fds' = [fds EXCEPT ![load.fd] = FreeFd]
        /\ heap' = (heap \union {malloc(heap)}) \ fds[load.fd].blks
        /\ load' = [load EXCEPT !.pc = "image", !.fd = -1, !.buf = malloc(heap)]
        /\ UNCHANGED wild
     \/ Returns(-1) /\ UNCHANGED <<heap, wild, fds>>
  /\ UNCHANGED <<mods, app>>

load_read ==
  /\ At("read")
  /\ \/ /\ HasRoom(heap, 1)
        /\ fds' = [fds EXCEPT ![load.fd] = FreeFd]
        /\ heap' = (heap \union {malloc(heap)}) \ fds[load.fd].blks
        /\ load' = [load EXCEPT !.pc = "image", !.fd = -1, !.buf = malloc(heap)]
        /\ UNCHANGED wild
     \/ Returns(-1) /\ ClosesAndFrees(load.fd, {})
  /\ UNCHANGED <<mods, app>>

(* load_itrm and load_elf: an image in the heap, or in the fixed window,   *)
(* or none because the file is bad; elf_load then frees the file.          *)
load_image ==
  /\ At("image")
  /\ \/ /\ Kind[load.path] = "heap" /\ HasRoom(heap, 1)
        /\ heap' = (heap \union {malloc(heap)}) \ {load.buf}
        /\ load' = [load EXCEPT !.pc = "slot", !.buf = 0, !.img = malloc(heap), !.owned = TRUE]
        /\ UNCHANGED wild
     \/ /\ Kind[load.path] = "fixed"
        /\ Frees({load.buf})
        /\ load' = [load EXCEPT !.pc = "slot", !.buf = 0, !.img = Window, !.owned = FALSE]
     \/ Kind[load.path] /= "fixed" /\ Frees({load.buf}) /\ Returns(-1)
  /\ UNCHANGED <<fds, mods, app>>

(* mod_alloc, and the stack the caller did not bring.                      *)
mod_alloc == {m \in Mod : ~mods[m].used /\ \A n \in Mod : ~mods[n].used => m <= n}
run_alloc ==
  /\ At("slot")
  /\ \/ \E m \in mod_alloc :
          /\ HasRoom(heap, 1)
          /\ heap' = heap \union {malloc(heap)}
          /\ load' = [load EXCEPT !.pc = "create", !.mod = m, !.stk = malloc(heap)]
          /\ UNCHANGED wild
     \/ Frees(Held) /\ Returns(-1)
  /\ UNCHANGED <<fds, mods, app>>

(* acre_tsk takes the lowest reserved ID that is free, cre_tsk the ID it   *)
(* is given, if that is free.                                              *)
NewId(tid) ==
  LET free == {t \in IF tid = 0 THEN ReservedTask ELSE {tid} : app[t].st = "NOEXS"}
  IN  IF tid = 0 THEN {t \in free : \A u \in free : t <= u} ELSE free

(* Faulty: the stack is not freed when no task can be created. *)
run_create_Leak ==
  /\ At("create")
  /\ IF NewId(load.tid) = {}
     THEN Frees(IF load.owned THEN {load.img} ELSE {}) /\ Returns(-1) /\ UNCHANGED app
     ELSE \E t \in NewId(load.tid) :
            /\ app' = [app EXCEPT ![t] = [st |-> "DMT", img |-> load.img, stk |-> load.stk]]
            /\ load' = [load EXCEPT !.pc = "activate", !.id = t]
            /\ UNCHANGED <<heap, wild>>
  /\ UNCHANGED <<fds, mods>>
run_create ==
  /\ At("create")
  /\ IF NewId(load.tid) = {}
     THEN Frees(Held) /\ Returns(-1) /\ UNCHANGED app
     ELSE \E t \in NewId(load.tid) :
            /\ app' = [app EXCEPT ![t] = [st |-> "DMT", img |-> load.img, stk |-> load.stk]]
            /\ load' = [load EXCEPT !.pc = "activate", !.id = t]
            /\ UNCHANGED <<heap, wild>>
  /\ UNCHANGED <<fds, mods>>

(* act_tsk fails only for a task that was deleted again in between.        *)
run_activate ==
  /\ At("activate")
  /\ IF app[load.id].st = "NOEXS"
     THEN Frees(Held) /\ Returns(-1) /\ UNCHANGED app
     ELSE /\ app' = [app EXCEPT ![load.id].st = "RDY"]
          /\ Goes("record")
          /\ UNCHANGED <<heap, wild>>
  /\ UNCHANGED <<fds, mods>>

(* Faulty: the slot of a task that has already returned stays free. *)
run_record_Late ==
  /\ At("record")
  /\ mods' = [mods EXCEPT ![load.mod] =
       [used |-> app[load.id].st = "RDY", tskid |-> load.id, img |-> load.img, stk |-> load.stk]]
  /\ Returns(load.id)
  /\ UNCHANGED <<heap, wild, fds, app>>

(* Only now is the slot taken.  Its image counts as owned, wherever it is. *)
run_record ==
  /\ At("record")
  /\ mods' = [mods EXCEPT ![load.mod] =
       [used |-> TRUE, tskid |-> load.id, img |-> load.img, stk |-> load.stk]]
  /\ Returns(load.id)
  /\ UNCHANGED <<heap, wild, fds, app>>

(* The first slot with the ID.                                             *)
mod_find(tid) == {m \in Mod : /\ mods[m].used /\ mods[m].tskid = tid
                              /\ \A n \in Mod : mods[n].used /\ mods[n].tskid = tid => m <= n}

(* Faulty: only a task that has returned is deleted. *)
elf_kill_Dormant(tid) ==
  \E m \in mod_find(tid) :
    /\ app' = IF app[tid].st = "DMT" THEN [app EXCEPT ![tid] = NoTask] ELSE app
    /\ Frees({mods[m].img, mods[m].stk})
    /\ mods' = [mods EXCEPT ![m] = FreeMod]
    /\ UNCHANGED <<fds, load>>

(* elf_kill: del_tsk, which takes a task that is already gone for success  *)
(* here; then the image, the stack, the slot.                              *)
elf_kill(tid) ==
  \E m \in mod_find(tid) :
    /\ app' = [app EXCEPT ![tid] = NoTask]
    /\ Frees({mods[m].img, mods[m].stk})
    /\ mods' = [mods EXCEPT ![m] = FreeMod]
    /\ UNCHANGED <<fds, load>>

(* A loaded task returns from its entry function (ext_tsk) ...             *)
AppReturns(t) ==
  /\ t /= SHELL /\ app[t].st = "RDY"
  /\ app' = [app EXCEPT ![t].st = "DMT"]
  /\ UNCHANGED <<heap, wild, fds, mods, load>>

(* ... and any task of the system may delete it (del_tsk).                 *)
AppDeleted(t) ==
  /\ t /= SHELL /\ app[t].st /= "NOEXS"
  /\ app' = [app EXCEPT ![t] = NoTask]
  /\ UNCHANGED <<heap, wild, fds, mods, load>>

LoaderStep ==
  \/ load_open \/ load_read \/ load_image \/ run_alloc
  \/ run_create \/ run_activate \/ run_record
=============================================================================
