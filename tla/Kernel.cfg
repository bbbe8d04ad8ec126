SPECIFICATION Spec
CONSTANTS
  a = a
  b = b
  Task <- Two
  INIT_TASK = a
  Itskpri <- Itskpri2
  NoTask = NoTask
  QueueHead = QueueHead
  Obj = {}
  TMAX_TPRI = 2
  BITMAPSZ = 1
  Services <- AllServices
  Creators <- OnlyInit
  PriTargets = {}
  NestedSuspend = FALSE
  Preemptive = TRUE
  Tmo <- SomeTmo
  Dly = {1}
  TMAX_ACTCNT = 1
  RELTIM_MAX = 3
  TMO_WIDTH = 8
INVARIANTS
  WaitsExact
  SchedOK
  RunsTheChosen
PROPERTIES
  FifoSpec
