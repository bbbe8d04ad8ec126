SPECIFICATION FairSpec
CONSTANTS
  Block = {1, 2, 3, 4, 5, 6, 7, 8}
  VFS_MAX_FD = 2
  Path <- FileNames
  HandleBlocks <- Mallocs
  Kind <- Kinds
  SHELL = 1
  UserTask = {2}
  ReservedTask = {3}
  ELF_MODULES_MAX = 2
  Window = 99
  PINGS = 2
  MAXCOPIES = 1
  Line <- AllLines
  Script <- Scripts
  Reader = {1, 2}
  Opened <- ReadFiles
  MaxTicks = 2
  TIC_DENO = 2
  WRAP = 8
  MaxOpens = 1
  MALLOCS = 3
  LfsFile = {1, 2, 3}
  LfsHandle = {1, 2}
  MaxCreated = 4
  BusyUmount = FALSE
  MaxMounts = 3
  Share = FALSE
INVARIANTS
  ReadersOK
  CommandsOK
  
  HoldingsExact
PROPERTIES
  LittlefsOK
  PromptReturns
