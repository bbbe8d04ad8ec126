SPECIFICATION Spec
CONSTANTS
  Client = {c1}
  Path <- Paths
  RomMount <- Root
  RamMount <- Data
  RomFiles <- Roms
  VFS_MAX_MOUNTS = 2
  VFS_MAX_FD = 2
  Handle = {h1, h2, h3}
  NoHandle = NoHandle
  Lens = {1}
  Alone = FALSE
  RAMFS_MAX_FILES = 2
  RAMFS_MAX_SIZE = 2
  RAMFS_CAP = 1
  Byte = {"x"}
  Junk = Junk
CHECK_DEADLOCK FALSE
INVARIANTS
  TablesExact
PROPERTIES
  OnlyTruncationLeavesGap
  StoreSpec
