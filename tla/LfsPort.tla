------------------------------- MODULE LfsPort --------------------------------
(***************************************************************************)
(* services/vfs/lfs_port.c: littlefs, on a device in memory, as a file     *)
(* system of vfs.c.  littlefs itself is external: it is mounted or not,    *)
(* has files in the order of their names, and any call of it may fail.     *)
(* What files hold is its own; here it is told what it is called for.      *)
(***************************************************************************)
EXTENDS Integers, SequencesExt, FiniteSets

CONSTANTS
  LfsFile,        \* the files that may be made, numbered in the order of their names
  LfsHandle,      \* blocks of the heap for handles
  MaxCreated,     \* bound: files that are made
  BusyUmount,     \* may it be unmounted while files are open
  MaxMounts       \* bound: calls of lfs_port_mount

ASSUME LfsAssumption ==
  /\ LfsFile \subseteq Nat /\ IsFiniteSet(LfsFile) /\ IsFiniteSet(LfsHandle)
  /\ MaxCreated \in Nat /\ MaxMounts \in Nat /\ BusyUmount \in BOOLEAN

VARIABLES
  mounted,        \* the flag of lfs_port.c
  at,             \* where lfs_port_mount is
  lfs,            \* [up, files, made]: littlefs
  vmount,         \* is it in the mount table of vfs.c
  fh,             \* handle -> [kind, name]: "none" when it is free
  walk,           \* a listing: [on, idx, names, quiet]
  misuse,         \* was littlefs called in a way it does not allow
  tries

lfsvars == <<mounted, at, lfs, vmount, fh, walk, misuse, tries>>

NoWalk == [on |-> FALSE, idx |-> 0, names |-> <<>>, quiet |-> TRUE]
FreeFh == [kind |-> "none", name |-> 0]

LfsInit ==
  /\ mounted = FALSE /\ at = "idle" /\ vmount = FALSE
  /\ lfs = [up |-> FALSE, files |-> {}, made |-> 0]
  /\ fh = [h \in LfsHandle |-> FreeFh]
  /\ walk = NoWalk /\ misuse = FALSE /\ tries = 0

(* A call of littlefs: it must be mounted, and what it is given must be    *)
(* what it opened.                                                         *)
Calling(ok) == misuse' = (misuse \/ ~lfs.up \/ ~ok)

------------------------------------------------------------------------------
(* lfs_port_mount: the device is wiped, so that the first lfs_mount finds  *)
(* nothing and the device is formatted and mounted again.                  *)
mount_starts ==
  /\ at = "idle" /\ tries < MaxMounts /\ tries' = tries + 1
  /\ IF mounted THEN UNCHANGED <<at, lfs>>
     ELSE /\ at' = "format"
          /\ lfs' = [lfs EXCEPT !.files = {}]
  /\ UNCHANGED <<mounted, vmount, fh, walk, misuse>>
lfs_format ==
  /\ at = "format" /\ at' \in {"mount", "idle"}
  /\ UNCHANGED <<mounted, lfs, vmount, fh, walk, misuse, tries>>
lfs_mount ==
  /\ at = "mount"
  /\ \/ at' = "vfs" /\ lfs' = [lfs EXCEPT !.up = TRUE]
     \/ at' = "idle" /\ UNCHANGED lfs
  /\ UNCHANGED <<mounted, vmount, fh, walk, misuse, tries>>
(* Faulty: littlefs stays mounted when vfs_mount refuses. *)
lfs_vfs_mount_NoUndo ==
  /\ at = "vfs" /\ at' = "idle"
  /\ \/ vmount' = TRUE /\ mounted' = TRUE /\ UNCHANGED lfs
     \/ UNCHANGED <<lfs, vmount, mounted>>
  /\ UNCHANGED <<fh, walk, misuse, tries>>
lfs_vfs_mount ==
  /\ at = "vfs" /\ at' = "idle"
  /\ \/ vmount' = TRUE /\ mounted' = TRUE /\ UNCHANGED lfs
     \/ lfs' = [lfs EXCEPT !.up = FALSE] /\ UNCHANGED <<vmount, mounted>>
  /\ UNCHANGED <<fh, walk, misuse, tries>>

(* Its caller has closed what it opened.                                   *)
lfs_port_umount ==
  /\ at = "idle" /\ mounted /\ ~walk.on
  /\ BusyUmount \/ \A h \in LfsHandle : fh[h].kind = "none"
  /\ vmount' = FALSE /\ mounted' = FALSE /\ lfs' = [lfs EXCEPT !.up = FALSE]
  /\ UNCHANGED <<at, fh, walk, misuse, tries>>

------------------------------------------------------------------------------
(* lp_open: a directory, whatever the flags say, or a file, which is made  *)
(* when it is to be and is not there.  Without a handle nothing is done,   *)
(* and when littlefs refuses, the handle is freed.                         *)
OpensAs(kind, name) ==
  \E h \in LfsHandle :
    /\ fh[h].kind = "none"
    /\ fh' = [fh EXCEPT ![h] = [kind |-> kind, name |-> name]]
Reachable == vmount /\ at = "idle" /\ \E h \in LfsHandle : fh[h].kind = "none"
lp_open_dir ==
  /\ Reachable /\ Calling(TRUE)
  /\ OpensAs("dir", 0) \/ UNCHANGED fh
  /\ UNCHANGED <<mounted, at, lfs, vmount, walk, tries>>
lp_open_file(name, create) ==
  /\ Reachable /\ Calling(TRUE)
  /\ \/ /\ name \in lfs.files /\ OpensAs("file", name) /\ UNCHANGED <<lfs, walk>>
     \/ /\ name \notin lfs.files /\ create /\ lfs.made < MaxCreated
        /\ lfs' = [lfs EXCEPT !.files = @ \union {name}, !.made = @ + 1]
        /\ walk' = [walk EXCEPT !.quiet = FALSE]
        /\ OpensAs("file", name)
     \/ UNCHANGED <<lfs, fh, walk>>
  /\ UNCHANGED <<mounted, at, vmount, tries>>

(* lp_read, lp_write and lp_lseek: not on a directory.                     *)
lp_io(h) ==
  /\ at = "idle" /\ fh[h].kind = "file" /\ Calling(fh[h].name \in lfs.files)
  /\ UNCHANGED <<mounted, at, lfs, vmount, fh, walk, tries>>

(* Faulty: a directory is closed as a file is. *)
lp_close_AsFile(h) ==
  /\ at = "idle" /\ fh[h].kind /= "none" /\ Calling(fh[h].kind = "file")
  /\ fh' = [fh EXCEPT ![h] = FreeFh]
  /\ UNCHANGED <<mounted, at, lfs, vmount, walk, tries>>

(* lp_close: lfs_file_close or lfs_dir_close; the handle goes in any case. *)
lp_close(h) ==
  /\ at = "idle" /\ fh[h].kind /= "none" /\ Calling(TRUE)
  /\ fh' = [fh EXCEPT ![h] = FreeFh]
  /\ UNCHANGED <<mounted, at, lfs, vmount, walk, tries>>

(* lp_stat asks littlefs, if vfs.c finds the mount, and changes nothing.   *)
lp_stat ==
  /\ at = "idle" /\ IF vmount THEN Calling(TRUE) ELSE UNCHANGED misuse
  /\ UNCHANGED <<mounted, at, lfs, vmount, fh, walk, tries>>

------------------------------------------------------------------------------
(* lp_listdir opens the directory, skips as many entries as the caller was *)
(* given before, "." and ".." apart, gives the next and closes it.         *)
(* littlefs gives the entries of a directory in the order of their names.  *)
InOrder(files) ==
  [i \in 1..Cardinality(files) |->
     CHOOSE n \in files : Cardinality({m \in files : m < n}) = i - 1]
(* Faulty: "." and ".." are skipped but counted. *)
lp_nth_Dots(i) ==
  LET names == InOrder(lfs.files)
  IN  IF i + 2 > Len(names) THEN <<>> ELSE <<names[i + 2]>>
lp_nth(i) ==
  LET names == InOrder(lfs.files)
  IN  IF i + 1 > Len(names) THEN <<>> ELSE <<names[i + 1]>>
walk_starts ==
  /\ vmount /\ at = "idle" /\ ~walk.on /\ walk' = [NoWalk EXCEPT !.on = TRUE]
  /\ UNCHANGED <<mounted, at, lfs, vmount, fh, misuse, tries>>
lp_listdir ==
  /\ walk.on /\ at = "idle" /\ lp_nth(walk.idx) /= <<>> /\ Calling(TRUE)
  /\ walk' = [walk EXCEPT !.idx = @ + 1, !.names = @ \o lp_nth(walk.idx)]
  /\ UNCHANGED <<mounted, at, lfs, vmount, fh, tries>>
walk_ends ==
  /\ walk.on /\ at = "idle" /\ lp_nth(walk.idx) = <<>> /\ Calling(TRUE)
  /\ walk' = NoWalk
  /\ UNCHANGED <<mounted, at, lfs, vmount, fh, tries>>

LfsStep ==
  \/ mount_starts \/ lfs_format \/ lfs_mount \/ lfs_vfs_mount \/ lfs_port_umount
  \/ lp_open_dir \/ lp_stat
  \/ \E name \in LfsFile, create \in BOOLEAN : lp_open_file(name, create)
  \/ \E h \in LfsHandle : lp_io(h) \/ lp_close(h)
  \/ walk_starts \/ lp_listdir \/ walk_ends

------------------------------------------------------------------------------
(* Between the calls of lfs_port.c its flag, the mount table and littlefs  *)
(* agree, at whichever step a mount failed.                                *)
MountExact == at = "idle" => mounted = vmount /\ lfs.up = mounted

(* littlefs is called only while it is mounted, for what it opened and as  *)
(* what it opened, however mounts, opens and closes follow one another.    *)
LittlefsUsedRight == ~misuse

(* A listing during which no file is made gives every file once.           *)
ListingExact ==
  [][walk.on /\ ~walk'.on /\ walk.quiet => walk.names = InOrder(lfs.files)]_lfsvars

(* And one during which files are made gives none twice.  It does not      *)
(* hold: a new file before the place it has come to moves the others on.   *)
ListingOnce == \A i, j \in DOMAIN walk.names : walk.names[i] = walk.names[j] => i = j

(* lfs_port.c is a well-behaved client of littlefs through every failure,  *)
(* and its listings are whole.                                             *)
LittlefsOK == [](MountExact /\ LittlefsUsedRight) /\ ListingExact
=============================================================================
