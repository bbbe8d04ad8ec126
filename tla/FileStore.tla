------------------------------ MODULE FileStore -------------------------------
(***************************************************************************)
(* What the file interface of services/include/vfs.h promises its callers: *)
(* files are byte sequences found by path, a descriptor is a position in   *)
(* one file, and every call acts on the file its descriptor was opened     *)
(* for.  Mounts, entries, blocks and handles do not show.                  *)
(***************************************************************************)
EXTENDS Integers, Sequences

CONSTANTS
  Byte, Junk, \* what callers write, and a byte nobody wrote
  Lens,      \* lengths of reads and writes
  MaxSize,   \* the largest file that can be written
  File,      \* the files, by full path
  Fixed,     \* those nobody can write: path -> contents
  Fd         \* descriptors

VARIABLES
  store,     \* path -> [there, data]
  desc,      \* descriptor -> [open, path, pos]
  ret        \* what the last call returned: [op, rc, data]

(* The n bytes at pos, as far as there are so many; and the contents with  *)
(* bytes laid over them at pos, a gap before them left unwritten.          *)
BytesAt(data, pos, n) == [i \in {j \in 1..n : pos + j <= Len(data)} |-> data[pos + i]]
Overlaid(data, pos, bytes) ==
  LET end == pos + Len(bytes)
  IN  [i \in 1..(IF end > Len(data) THEN end ELSE Len(data)) |->
         IF i \in (pos + 1)..end THEN bytes[i - pos]
         ELSE IF i <= Len(data) THEN data[i] ELSE Junk]

Gone == [there |-> FALSE, data |-> <<>>]
Closed == [open |-> FALSE, path |-> <<>>, pos |-> 0]

Init ==
  /\ store = [p \in File |-> IF p \in DOMAIN Fixed
                             THEN [there |-> TRUE, data |-> Fixed[p]] ELSE Gone]
  /\ desc = [d \in Fd |-> Closed]
  /\ ret = [op |-> "init", rc |-> 0, data |-> <<>>]

Returns(op, rc, data) == ret' = [op |-> op, rc |-> rc, data |-> data]
Fails(op) == Returns(op, -1, <<>>)

(* An open may create the file or empty it before it succeeds or fails.    *)
Touch(p) ==
  /\ p \notin DOMAIN Fixed
  /\ \E data \in {store[p].data, <<>>} :
       store' = [store EXCEPT ![p] = [there |-> TRUE, data |-> data]]
  /\ UNCHANGED desc

Open(d, p) ==
  /\ Returns("open", d, <<>>)
  /\ ~desc[d].open /\ store[p].there
  /\ \E pos \in {0, Len(store[p].data)} :
       desc' = [desc EXCEPT ![d] = [open |-> TRUE, path |-> p, pos |-> pos]]
  /\ UNCHANGED store

Moves(d, pos) ==
  /\ desc[d].open
  /\ desc' = [desc EXCEPT ![d] = [open |-> TRUE, path |-> desc[d].path, pos |-> pos]]

Read(d, n) ==
  LET got == BytesAt(store[desc[d].path].data, desc[d].pos, n)
  IN  /\ ret'.op = "read" /\ Moves(d, desc[d].pos + Len(got))
      /\ Returns("read", Len(got), got)
      /\ UNCHANGED store

Write(d, bytes) ==
  LET p == desc[d].path
  IN  /\ Returns("write", Len(bytes), <<>>)
      /\ Moves(d, desc[d].pos + Len(bytes))
      /\ p \notin DOMAIN Fixed
      /\ desc[d].pos + Len(bytes) <= MaxSize
      /\ store' = [store EXCEPT ![p] =
                     [there |-> TRUE, data |-> Overlaid(store[p].data, desc[d].pos, bytes)]]

(* To any place in the file, its end included.                             *)
Seek(d) ==
  /\ ret'.op = "lseek" /\ desc[d].open
  /\ \E pos \in 0..Len(store[desc[d].path].data) :
       Returns("lseek", pos, <<>>) /\ Moves(d, pos)
  /\ UNCHANGED store

Close(d) ==
  /\ Returns("close", 0, <<>>)
  /\ desc[d].open
  /\ desc' = [desc EXCEPT ![d] = Closed]
  /\ UNCHANGED store

Stat(p) ==
  /\ ret'.op = "stat" /\ store[p].there
  /\ Returns("stat", Len(store[p].data), <<"REG">>)
  /\ UNCHANGED <<store, desc>>

(* A listing names files that are there, below some directory.             *)
List(p) ==
  /\ ret'.op = "list" /\ store[p].there
  /\ \E n \in 1..Len(p) : Returns("list", 0, SubSeq(p, n, Len(p)))
  /\ UNCHANGED <<store, desc>>

(* A fresh file system takes the place of one nobody has a file open on.   *)
Format ==
  /\ Returns("mount", 0, <<>>)
  /\ \A d \in Fd : desc[d].open => desc[d].path \in DOMAIN Fixed
  /\ store' = [p \in File |-> IF p \in DOMAIN Fixed THEN store[p] ELSE Gone]
  /\ UNCHANGED desc

(* Calls that fail, and those that see or change no file.                  *)
Refuse ==
  /\ \/ \E op \in {"open", "write", "lseek", "stat", "list", "mount", "umount"} : Fails(op)
     \/ Returns("umount", 0, <<>>) \/ Returns("stat", 0, <<"DIR">>)
     \/ Returns("list", 1, <<>>)
  /\ UNCHANGED <<store, desc>>

Next ==
  \/ \E p \in File : Stat(p) \/ List(p) \/ \E d \in Fd : Open(d, p)
  \/ (UNCHANGED ret \/ Fails("open")) /\ \E p \in File : Touch(p)
  \/ \E d \in Fd, n \in Lens : Read(d, n)
  \/ \E d \in Fd, b \in Byte, n \in Lens : Write(d, [i \in 1..n |-> b])
  \/ \E d \in Fd : Seek(d)
  \/ \E d \in Fd : Close(d)
  \/ Format
  \/ Refuse

Spec == Init /\ [][Next]_<<store, desc, ret>>
=============================================================================
