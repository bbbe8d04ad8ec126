SPECIFICATION SemSpec
CONSTANTS
  a = a
  b = b
  c = c
  s = s
  Task <- Three
  INIT_TASK = a
  Itskpri <- Itskpri3
  NoTask = NoTask
  QueueHead = QueueHead
  Obj = {s}
  TMAX_TPRI = 2
  BITMAPSZ = 1
  Services <- SemServices
  Creators <- OnlyInit
  PriTargets = {}
  NestedSuspend = FALSE
  Preemptive = TRUE
  Tmo <- OneTick
  Dly = {}
  TMAX_ACTCNT = 1
  RELTIM_MAX = 1
  TMO_WIDTH = 4
  Csem <- ByPriority
  TMAX_MAXSEM = 1
  GuardedDelete = TRUE
INVARIANTS
  QueueExact
  NoIdleToken
