--------------------------------- MODULE Vfs ----------------------------------
(***************************************************************************)
(* The virtual file system with the rom and the ram file system below it.  *)
(***************************************************************************)
EXTENDS Integers, SequencesExt

-----------------------------------------------------------------------------
(***************************************************************************)
(* services/vfs/romfs.c: a table of named constant data, kept as a         *)
(* sequence of [name, data].                                               *)
(***************************************************************************)

rom_find_ent(r, name) == {i \in DOMAIN r : name /= <<>> /\ r[i].name = name}

(* The flags are ignored: nothing is created, nothing truncated.           *)
rom_open(r, name, mallocOk) ==
  LET found == rom_find_ent(r, name)
  IN  IF found = {} \/ ~mallocOk
      THEN [rc |-> -1, file |-> [ent |-> 0, pos |-> 0]]
      ELSE [rc |-> 0, file |-> [ent |-> CHOOSE i \in found : TRUE, pos |-> 0]]

(* The root is a directory, and there is no other.                         *)
rom_stat(r, rel) ==
  LET found == rom_find_ent(r, rel)
  IN  IF rel = <<>> THEN [rc |-> 0, type |-> "DIR", size |-> 0]
      ELSE IF found = {} THEN [rc |-> -1, type |-> "none", size |-> 0]
      ELSE [rc |-> 0, type |-> "REG", size |-> Len(r[CHOOSE i \in found : TRUE].data)]

(* The entries of the root by index, from 0; 1 behind the last.            *)
rom_listdir(r, rel, idx) ==
  IF rel /= <<>> THEN [rc |-> -1, name |-> <<>>]
  ELSE IF idx >= Len(r) THEN [rc |-> 1, name |-> <<>>]
  ELSE [rc |-> 0, name |-> r[idx + 1].name]

-----------------------------------------------------------------------------
(***************************************************************************)
(* services/vfs/ramfs.c: a table of files whose data lives in a growing    *)
(* heap block.  An entry is [used, name, data, cap]; the size is the       *)
(* length of data.  A handle is [fs, ent, pos].  Each operator is one call *)
(* of the driver on the table e; where it fails, the table it returns      *)
(* keeps what the call had already done.  A name is a sequence of path     *)
(* components, shorter than RAMFS_NAME_MAX.                                *)
(***************************************************************************)

CONSTANTS
  RAMFS_MAX_FILES,  \* entries of the table
  RAMFS_MAX_SIZE,   \* the largest file
  RAMFS_CAP,        \* the first block of a file: 256
  Byte,             \* what callers write
  Junk              \* a byte of the block that nobody has written

ASSUME RamfsAssumption ==
  /\ RAMFS_MAX_FILES \in Nat /\ RAMFS_MAX_SIZE \in Nat \ {0}
  /\ RAMFS_CAP \in 1..RAMFS_MAX_SIZE
  /\ Junk \notin Byte

RamEnt == 1..RAMFS_MAX_FILES
FreeEnt == [used |-> FALSE, name |-> <<>>, data |-> <<>>, cap |-> 0]

ram_find_ent(e, name) == {i \in RamEnt : name /= <<>> /\ e[i].used /\ e[i].name = name}

(* The lowest free entry, zeroed and named.                                *)
alloc_ent(e) == {i \in RamEnt : ~e[i].used /\ \A j \in RamEnt : ~e[j].used => i <= j}
NewEnt(name) == [FreeEnt EXCEPT !.used = TRUE, !.name = name]

(* O_TRUNC frees the data, whoever else has the file open.                 *)
truncated(ent) == [ent EXCEPT !.data = <<>>, !.cap = 0]

(* rf_open: entry i after the flags took effect, and the handle on it if   *)
(* malloc gives one.                                                       *)
rf_opened(ent, flags) == IF "TRUNC" \in flags THEN truncated(ent) ELSE ent
rf_pos(ent, flags) == IF "APPEND" \in flags THEN Len(ent.data) ELSE 0

rf_open_Dup(e, name, flags, mallocOk) ==
  LET fresh == alloc_ent(e)
      i == CHOOSE x \in fresh : TRUE
  IN  IF fresh = {} \/ name = <<>> \/ ~mallocOk
      THEN [rc |-> -1, ents |-> e, file |-> [ent |-> 0, pos |-> 0]]
      ELSE [rc |-> 0, ents |-> [e EXCEPT ![i] = NewEnt(name)], file |-> [ent |-> i, pos |-> 0]]

rf_open(e, name, flags, mallocOk) ==
  LET found == ram_find_ent(e, name)
      fresh == IF "CREAT" \in flags /\ name /= <<>> THEN alloc_ent(e) ELSE {}
      i == CHOOSE x \in (IF found /= {} THEN found ELSE fresh) : TRUE
      ent == rf_opened(IF found /= {} THEN e[i] ELSE NewEnt(name), flags)
  IN  IF found = {} /\ fresh = {}
      THEN [rc |-> -1, ents |-> e, file |-> [ent |-> 0, pos |-> 0]]
      ELSE [rc |-> IF mallocOk THEN 0 ELSE -1,
            ents |-> [e EXCEPT ![i] = ent],
            file |-> [ent |-> i, pos |-> rf_pos(ent, flags)]]

(* A name is an entry's, and no name the directory.                        *)
rf_stat(e, rel) ==
  LET found == ram_find_ent(e, rel)
  IN  IF rel = <<>> THEN [rc |-> 0, type |-> "DIR", size |-> 0]
      ELSE IF found = {} THEN [rc |-> -1, type |-> "none", size |-> 0]
      ELSE [rc |-> 0, type |-> "REG", size |-> Len(e[CHOOSE i \in found : TRUE].data)]

(* The used entries are counted from 0; 1 behind the last.                 *)
rf_listdir(e, rel, idx) ==
  LET nth == {i \in RamEnt : /\ e[i].used
                             /\ Cardinality({j \in 1..(i - 1) : e[j].used}) = idx}
  IN  IF rel /= <<>> THEN [rc |-> -1, name |-> <<>>]
      ELSE IF nth = {} THEN [rc |-> 1, name |-> <<>>]
      ELSE [rc |-> 0, name |-> e[CHOOSE i \in nth : TRUE].name]

(* What a read of n bytes at pos copies: nothing at or past the end.       *)
FileRead(data, pos, n) ==
  SubSeq(data, pos + 1, IF pos + n < Len(data) THEN pos + n ELSE Len(data))

grown_Once(cap, need) == IF cap = 0 THEN RAMFS_CAP ELSE cap

(* Doubling from the present block, or from the first one, up to the size  *)
(* needed, and never past RAMFS_MAX_SIZE.                                  *)
grown(cap, need) ==
  LET from == IF cap = 0 THEN RAMFS_CAP ELSE 2 * cap
      ok == {c \in {from * 2^k : k \in 0..need} : c >= need}
      ncap == CHOOSE c \in ok : \A d \in ok : c <= d
  IN  IF ncap > RAMFS_MAX_SIZE THEN RAMFS_MAX_SIZE ELSE ncap

(* memcpy at pos.  Behind the end of a file that was truncated under the   *)
(* handle, the bytes in between are whatever the block held.               *)
Pad(n) == [i \in 1..n |-> Junk]
FileWrite(data, pos, bytes) ==
  LET from == IF pos <= Len(data) THEN SubSeq(data, 1, pos)
              ELSE data \o Pad(pos - Len(data))
  IN  from \o bytes \o SubSeq(data, pos + Len(bytes) + 1, Len(data))

rf_write_Short(ent, pos, bytes, reallocOk) ==
  IF pos + Len(bytes) > RAMFS_MAX_SIZE THEN [rc |-> -1, ent |-> ent]
  ELSE [rc |-> Len(bytes),
        ent |-> [ent EXCEPT !.cap = grown(@, pos + Len(bytes)),
                            !.data = FileWrite(SubSeq(@, 1, IF pos < Len(@) THEN pos ELSE Len(@)),
                                               pos, bytes)]]

rf_write(ent, pos, bytes, reallocOk) ==
  LET need == pos + Len(bytes)
      full == need > RAMFS_MAX_SIZE \/ (need > ent.cap /\ ~reallocOk)
  IN  IF full THEN [rc |-> -1, ent |-> ent]
      ELSE [rc |-> Len(bytes),
            ent |-> [ent EXCEPT !.cap = IF need > @ THEN grown(@, need) ELSE @,
                                !.data = FileWrite(@, pos, bytes)]]

FileSeek_Past(size, pos, off, whence) ==
  LET np == CASE whence = "SET" -> off [] whence = "CUR" -> pos + off [] whence = "END" -> size + off
  IN  IF np < 0 THEN -1 ELSE np

(* rf_lseek: before the start it fails, past the end it stops at the end.  *)
FileSeek(size, pos, off, whence) ==
  LET np == CASE whence = "SET" -> off
              [] whence = "CUR" -> pos + off
              [] whence = "END" -> size + off
  IN  IF np < 0 THEN -1 ELSE IF np > size THEN size ELSE np

-----------------------------------------------------------------------------
(***************************************************************************)
(* services/vfs/vfs.c over a rom file system (romfs.c) and a ram file      *)
(* system (ramfs.c).  A path is a sequence of components, so a mount       *)
(* point's path matches on component boundaries.  Clients are tasks that   *)
(* call the interface; vfs_open picks a free descriptor, calls the file    *)
(* system, and only then marks the descriptor, and a client may be         *)
(* preempted before the mark.  Every other call is one step.               *)
(***************************************************************************)

CONSTANTS
  Client,           \* tasks
  Path,             \* what they open
  RomMount, RamMount, \* where the board mounts the two file systems
  RomFiles,         \* the built-in table
  VFS_MAX_MOUNTS, VFS_MAX_FD,
  Handle,           \* heap blocks for open files
  NoHandle,
  Lens,             \* lengths of reads and writes
  Alone             \* may no client call vfs_open while another is inside

IsSequence(s) == s \in Seq({s[i] : i \in DOMAIN s})

ASSUME VfsAssumption ==
  /\ VFS_MAX_MOUNTS \in Nat \ {0} /\ VFS_MAX_FD \in Nat
  /\ NoHandle \notin Handle
  /\ RomMount /= RamMount /\ {RomMount, RamMount} \subseteq Seq(STRING)
  /\ Path \subseteq Seq(STRING)
  /\ IsSequence(RomFiles)
  /\ \A i \in DOMAIN RomFiles : RomFiles[i].name \in Seq(STRING) /\ IsSequence(RomFiles[i].data)
  /\ Lens \subseteq Nat
  /\ Alone \in BOOLEAN

VARIABLES
  mounts,   \* mount slot -> [used, path, fs]
  fds,      \* descriptor -> [used, fs, file]
  ents,     \* the table of ramfs.c
  file,     \* heap block -> [fs, ent, pos], fs = "none" when free
  pend,     \* client -> the open it has not finished: [fd, fs, file]
  own,      \* client -> the descriptors it got and has not closed
  ret       \* what the last call returned

state == <<mounts, fds, ents, file, pend, own>>
vars == <<state, ret>>

Fd == 0..(VFS_MAX_FD - 1)
Slot == 1..VFS_MAX_MOUNTS
Fs == {"rom", "ram"}

NoMount == [used |-> FALSE, path |-> <<>>, fs |-> "none"]
FreeFd == [used |-> FALSE, fs |-> "none", file |-> NoHandle]
NoPend == [fd |-> -1, fs |-> "none", file |-> NoHandle]
FreeBlock == [fs |-> "none", ent |-> 0, pos |-> 0]

(* romfs_mount("/"), ramfs_mount("/data") at boot.                         *)
Init ==
  /\ mounts = [i \in Slot |->
       IF i = 1 THEN [used |-> TRUE, path |-> RomMount, fs |-> "rom"]
       ELSE IF i = 2 THEN [used |-> TRUE, path |-> RamMount, fs |-> "ram"] ELSE NoMount]
  /\ fds = [d \in Fd |-> FreeFd]
  /\ ents = [i \in RamEnt |-> FreeEnt]
  /\ file = [h \in Handle |-> FreeBlock]
  /\ pend = [c \in Client |-> NoPend]
  /\ own = [c \in Client |-> {}]
  /\ ret = [op |-> "init", rc |-> 0, data |-> <<>>]

Returns(op, rc, data) == ret' = [op |-> op, rc |-> rc, data |-> data]
Fails(op) == Returns(op, -1, <<>>) /\ UNCHANGED state

(* path_eq_prefix and find_mount: the longest mounted prefix of the path.  *)
path_eq_prefix(path, mnt) == IsPrefix(mnt, path)
find_mount(path) ==
  LET hits == {i \in Slot : mounts[i].used /\ path_eq_prefix(path, mounts[i].path)}
  IN  {i \in hits : \A j \in hits : Len(mounts[j].path) <= Len(mounts[i].path)}
RelOf(path, i) == SubSeq(path, Len(mounts[i].path) + 1, Len(path))

alloc_fd_Any == {d \in Fd : \A e \in Fd : d <= e}
alloc_fd == {d \in Fd : ~fds[d].used /\ \A e \in Fd : ~fds[e].used => d <= e}

(* The open of the file system, whose malloc may fail.                     *)
fs_open(fs, rel, flags, mallocOk) ==
  IF fs = "ram" THEN rf_open(ents, rel, flags, mallocOk)
  ELSE LET r == rom_open(RomFiles, rel, mallocOk)
       IN  [rc |-> r.rc, ents |-> ents, file |-> r.file]

(* The client is about to mark descriptor d, or has its error.             *)
OpenOn(c, i, d, path, flags) ==
  \E mallocOk \in BOOLEAN :
    LET fs == mounts[i].fs
        r == fs_open(fs, RelOf(path, i), flags, mallocOk)
        h == CHOOSE x \in Handle : file[x].fs = "none"
    IN  /\ mallocOk => \E x \in Handle : file[x].fs = "none"
        /\ ents' = r.ents
        /\ IF r.rc = 0
           THEN /\ file' = [file EXCEPT ![h] = [fs |-> fs, ent |-> r.file.ent, pos |-> r.file.pos]]
                /\ pend' = [pend EXCEPT ![c] = [fd |-> d, fs |-> fs, file |-> h]]
                /\ UNCHANGED ret
           ELSE UNCHANGED <<file, pend>> /\ Returns("open", -1, <<>>)
        /\ UNCHANGED <<mounts, fds, own>>

VfsOpen(c, path, flags) ==
  /\ pend[c] = NoPend
  /\ Alone => \A e \in Client : pend[e] = NoPend
  /\ \/ (find_mount(path) = {} \/ alloc_fd = {}) /\ Fails("open")
     \/ \E i \in find_mount(path), d \in alloc_fd : OpenOn(c, i, d, path, flags)

VfsOpenMark(c) ==
  LET p == pend[c]
  IN  /\ p /= NoPend
      /\ fds' = [fds EXCEPT ![p.fd] = [used |-> TRUE, fs |-> p.fs, file |-> p.file]]
      /\ own' = [own EXCEPT ![c] = @ \union {p.fd}]
      /\ pend' = [pend EXCEPT ![c] = NoPend]
      /\ Returns("open", p.fd, <<>>)
      /\ UNCHANGED <<mounts, ents, file>>

(* A client that is not inside vfs_open calls on a descriptor of its own.  *)
Calls(c, d) == pend[c] = NoPend /\ d \in own[c] /\ fds[d].used
DataOf(f) == IF f.fs = "ram" THEN ents[f.ent].data ELSE RomFiles[f.ent].data

VfsRead(c, d, n) ==
  LET h == fds[d].file
      got == FileRead(DataOf(file[h]), file[h].pos, n)
  IN  /\ Calls(c, d)
      /\ file' = [file EXCEPT ![h].pos = @ + Len(got)]
      /\ Returns("read", Len(got), got)
      /\ UNCHANGED <<mounts, fds, ents, pend, own>>

WriteRam(h, bytes) ==
  \E reallocOk \in BOOLEAN :
    LET r == rf_write(ents[file[h].ent], file[h].pos, bytes, reallocOk)
    IN  IF r.rc < 0 THEN Fails("write")
        ELSE /\ ents' = [ents EXCEPT ![file[h].ent] = r.ent]
             /\ file' = [file EXCEPT ![h].pos = @ + r.rc]
             /\ Returns("write", r.rc, <<>>)
             /\ UNCHANGED <<mounts, fds, pend, own>>

VfsWrite(c, d, bytes) ==
  /\ Calls(c, d)
  /\ IF fds[d].fs = "ram" THEN WriteRam(fds[d].file, bytes) ELSE Fails("write")

VfsLseek(c, d, off, whence) ==
  LET h == fds[d].file
      np == FileSeek(Len(DataOf(file[h])), file[h].pos, off, whence)
  IN  /\ Calls(c, d)
      /\ IF np < 0 THEN Fails("lseek")
         ELSE /\ file' = [file EXCEPT ![h].pos = np]
              /\ Returns("lseek", np, <<>>)
              /\ UNCHANGED <<mounts, fds, ents, pend, own>>

VfsClose(c, d) ==
  /\ Calls(c, d)
  /\ file' = [file EXCEPT ![fds[d].file] = FreeBlock]
  /\ fds' = [fds EXCEPT ![d] = FreeFd]
  /\ own' = [own EXCEPT ![c] = @ \ {d}]
  /\ Returns("close", 0, <<>>)
  /\ UNCHANGED <<mounts, ents, pend>>

VfsStat(c, path) ==
  /\ pend[c] = NoPend
  /\ \/ find_mount(path) = {} /\ Fails("stat")
     \/ \E i \in find_mount(path) :
          LET rel == RelOf(path, i)
              st == IF mounts[i].fs = "ram" THEN rf_stat(ents, rel) ELSE rom_stat(RomFiles, rel)
          IN  IF st.rc < 0 THEN Fails("stat")
              ELSE Returns("stat", st.size, <<st.type>>) /\ UNCHANGED state

(* The caller keeps the index between its calls.                           *)
VfsListdir(c, path, idx) ==
  /\ pend[c] = NoPend
  /\ \/ find_mount(path) = {} /\ Fails("list")
     \/ \E i \in find_mount(path) :
          LET rel == RelOf(path, i)
              l == IF mounts[i].fs = "ram" THEN rf_listdir(ents, rel, idx)
                   ELSE rom_listdir(RomFiles, rel, idx)
          IN  Returns("list", l.rc, l.name) /\ UNCHANGED state

(* vfs_umount only clears the slot: open files keep their file system.     *)
VfsUmount(c, path) ==
  LET at == {i \in Slot : mounts[i].used /\ mounts[i].path = path}
  IN  /\ pend[c] = NoPend
      /\ IF at = {} THEN Fails("umount")
         ELSE /\ mounts' = [i \in Slot |-> IF i \in at THEN NoMount ELSE mounts[i]]
              /\ Returns("umount", 0, <<>>)
              /\ UNCHANGED <<fds, ents, file, pend, own>>

(* vfs_mount: not twice on one path, in the first free slot.               *)
vfs_mount(path, fs) ==
  LET free == {i \in Slot : ~mounts[i].used /\ \A j \in Slot : ~mounts[j].used => i <= j}
      twice == \E i \in Slot : mounts[i].used /\ mounts[i].path = path
  IN  IF twice \/ free = {} THEN mounts
      ELSE [i \in Slot |-> IF i \in free THEN [used |-> TRUE, path |-> path, fs |-> fs]
                           ELSE mounts[i]]

(* ramfs_mount wipes the table before it asks for the mount.  Its caller   *)
(* is the board, which has nothing open on it and has it nowhere mounted.  *)
RamfsMount(c, path) ==
  /\ pend[c] = NoPend
  /\ \A i \in Slot : mounts[i].used => mounts[i].fs /= "ram"
  /\ \A h \in Handle : file[h].fs /= "ram"
  /\ ents' = [i \in RamEnt |-> FreeEnt]
  /\ mounts' = vfs_mount(path, "ram")
  /\ Returns("mount", IF mounts' = mounts THEN -1 ELSE 0, <<>>)
  /\ UNCHANGED <<fds, file, pend, own>>

Whence == {"SET", "CUR", "END"}
Flags == SUBSET {"CREAT", "TRUNC", "APPEND"}

Next ==
  \E c \in Client :
    \/ \E path \in Path, flags \in Flags : VfsOpen(c, path, flags)
    \/ VfsOpenMark(c)
    \/ \E d \in Fd, n \in Lens : VfsRead(c, d, n)
    \/ \E d \in Fd, n \in Lens, b \in Byte : VfsWrite(c, d, [i \in 1..n |-> b])
    \/ \E d \in Fd, off \in -1..1, w \in Whence : VfsLseek(c, d, off, w)
    \/ \E d \in Fd : VfsClose(c, d)
    \/ \E path \in Path \union {RomMount, RamMount} : VfsStat(c, path)
    \/ \E path \in {RomMount, RamMount}, idx \in 0..RAMFS_MAX_FILES : VfsListdir(c, path, idx)
    \/ \E path \in {RamMount} : VfsUmount(c, path) \/ RamfsMount(c, path)

Spec == Init /\ [][Next]_vars

------------------------------------------------------------------------------
Block == [fs : Fs \union {"none"}, ent : Nat, pos : Nat]

(* The tables hold what their fields may hold; a ram file's data fits its  *)
(* block, which exists exactly when it has a capacity, and the capacity    *)
(* never passes RAMFS_MAX_SIZE (rf_write); no position passes the largest  *)
(* file, nor the end of a rom file.                                        *)
TypeOK ==
  /\ mounts \in [Slot -> [used : BOOLEAN, path : {RomMount, RamMount, <<>>}, fs : Fs \union {"none"}]]
  /\ fds \in [Fd -> [used : BOOLEAN, fs : Fs \union {"none"}, file : Handle \union {NoHandle}]]
  /\ file \in [Handle -> Block]
  /\ \A h \in Handle :
       /\ file[h].fs = "ram" => file[h].ent \in RamEnt /\ file[h].pos <= RAMFS_MAX_SIZE
       /\ file[h].fs = "rom" => /\ file[h].ent \in DOMAIN RomFiles
                               /\ file[h].pos <= Len(RomFiles[file[h].ent].data)
  /\ \A i \in RamEnt : /\ ents[i].cap \in 0..RAMFS_MAX_SIZE
                       /\ Len(ents[i].data) <= ents[i].cap
                       /\ ents[i].data \in Seq(Byte \union {Junk})
                       /\ ~ents[i].used => ents[i] = FreeEnt
  /\ \A c \in Client : own[c] \subseteq Fd

(* vfs_open and vfs_close: every handle the file systems allocated is held *)
(* by exactly one used descriptor, or by the one open under way, of the    *)
(* same file system; and a used descriptor belongs to exactly one caller.  *)
(* Nothing leaks, nothing is shared, nothing is closed twice.              *)
HandlesExact ==
  LET live == {h \in Handle : file[h].fs /= "none"}
      used == {d \in Fd : fds[d].used}
      opening == {c \in Client : pend[c] /= NoPend}
  IN  /\ live = {fds[d].file : d \in used} \union {pend[c].file : c \in opening}
      /\ Cardinality(live) = Cardinality(used) + Cardinality(opening)
      /\ \A d \in used : fds[d].fs = file[fds[d].file].fs
      /\ used = UNION {own[c] : c \in Client}
      /\ \A c, e \in Client : c /= e => own[c] \intersect own[e] = {}

(* rf_open and alloc_ent: one entry per name, and an open handle's entry   *)
(* is in use.                                                              *)
EntriesDistinct ==
  /\ \A i, j \in RamEnt : ents[i].used /\ ents[j].used /\ ents[i].name = ents[j].name => i = j
  /\ \A h \in Handle : file[h].fs = "ram" => ents[file[h].ent].used

(* rf_write fills no gap: a byte nobody wrote gets into a file only when a *)
(* handle stands past its end, and no read, write, seek or open brings a   *)
(* handle there: only another opener's O_TRUNC, which shrinks the file     *)
(* under it.                                                               *)
JunkIn(i) == Cardinality({n \in DOMAIN ents[i].data : ents[i].data[n] = Junk})
Beyond(i) == \E h \in Handle : /\ file[h].fs = "ram" /\ file[h].ent = i
                               /\ file[h].pos > Len(ents[i].data)
NoNewGap ==
  \A i \in RamEnt :
    /\ JunkIn(i)' > JunkIn(i) => Beyond(i)
    /\ Beyond(i)' /\ ~Beyond(i) => Len(ents'[i].data) < Len(ents[i].data)
OnlyTruncationLeavesGap == [][NoNewGap]_vars

(* Through descriptors, mounts, entries and blocks, callers see the file   *)
(* interface of FileStore: each descriptor reads and writes the file it    *)
(* was opened for, at its own position.                                    *)
FullPath(e, f) ==
  IF f.fs = "ram" THEN RamMount \o e[f.ent].name ELSE RomMount \o RomFiles[f.ent].name
RamFile(e, p) == {i \in RamEnt : e[i].used /\ RamMount \o e[i].name = p}
RomFile(p) == {i \in DOMAIN RomFiles : RomMount \o RomFiles[i].name = p}
FixedFiles == [p \in {RomMount \o RomFiles[i].name : i \in DOMAIN RomFiles} |->
                 RomFiles[CHOOSE i \in RomFile(p) : TRUE].data]
Files == Path \union DOMAIN FixedFiles
Contents(e, p) ==
  IF RomFile(p) /= {} THEN [there |-> TRUE, data |-> FixedFiles[p]]
  ELSE IF RamFile(e, p) /= {}
  THEN [there |-> TRUE, data |-> e[CHOOSE i \in RamFile(e, p) : TRUE].data]
  ELSE [there |-> FALSE, data |-> <<>>]
Opened(fd) ==
  IF fd.used THEN LET f == file[fd.file]
                  IN  [open |-> TRUE, path |-> FullPath(ents, f), pos |-> f.pos]
  ELSE [open |-> FALSE, path |-> <<>>, pos |-> 0]
StoreNow == [p \in Files |-> Contents(ents, p)]
DescNow == [d \in Fd |-> Opened(fds[d])]
Store == INSTANCE FileStore WITH
  File <- Files, MaxSize <- RAMFS_MAX_SIZE, Fixed <- FixedFiles, store <- StoreNow, desc <- DescNow
StoreSpec == Store!Spec

(* The tables of vfs.c and ramfs.c agree about what is open and for whom.  *)
TablesExact == TypeOK /\ HandlesExact /\ EntriesDistinct

-----------------------------------------------------------------------------
(* Instances for TLC: one rom file and names for two ram files.            *)
Root == <<>>
Data == <<"data">>
Roms == <<[name |-> <<"r">>, data |-> <<"x", "y">>]>>
Paths == {<<"r">>, <<"data", "f">>, <<"data", "g">>}
=============================================================================
