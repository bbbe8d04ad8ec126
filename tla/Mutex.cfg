SPECIFICATION FairMutexSpec
CONSTANTS
  a = a
  b = b
  c = c
  s = s
  Task <- Three
  INIT_TASK = a
  Itskpri <- Itskpri3
  NoTask = NoTask
  QueueHead = QueueHead
  Obj = {s}
  TMAX_TPRI = 2
  BITMAPSZ = 1
  Services <- MutexServices
  Creators <- OnlyInit
  PriTargets = {}
  NestedSuspend = FALSE
  Preemptive = TRUE
  Tmo <- ForEverOr1
  Dly = {1}
  TMAX_ACTCNT = 1
  RELTIM_MAX = 1
  TMO_WIDTH = 4
  Csem <- OneToken
  TMAX_MAXSEM = 1
  TmoOf <- Patience
  GuardedDelete = TRUE
INVARIANTS
  TokenExact

  
