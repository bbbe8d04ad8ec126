SPECIFICATION MbxSpec
CONSTANTS
  a = a
  b = b
  box = box
  m1 = m1
  m2 = m2
  m3 = m3
  Task <- Two
  INIT_TASK = a
  Itskpri <- Itskpri2
  NoTask = NoTask
  QueueHead = QueueHead
  Obj = {box}
  TMAX_TPRI = 2
  BITMAPSZ = 1
  Services <- BoxServices
  Creators <- OnlyInit
  PriTargets = {}
  NestedSuspend = FALSE
  Preemptive = TRUE
  Tmo <- ForEverOr1
  Dly = {}
  TMAX_ACTCNT = 1
  RELTIM_MAX = 1
  TMO_WIDTH = 4
  Msg = {m1, m2, m3}
  NIL = NIL
  Msgpri <- Msgpri3
  Mbxatr <- FifoOrPriority
INVARIANTS
  MessagesExact
PROPERTIES
  QueueSpec
SYMMETRY EqualMessages
