SPECIFICATION FlgSpec
CONSTANTS
  a = a
  b = b
  c = c
  f = f
  Task <- Two
  INIT_TASK = a
  Itskpri <- Itskpri2
  NoTask = NoTask
  QueueHead = QueueHead
  Obj = {f}
  TMAX_TPRI = 2
  BITMAPSZ = 1
  Services <- FlagServices
  Creators <- OnlyInit
  PriTargets = {}
  NestedSuspend = FALSE
  Preemptive = TRUE
  Tmo <- ForEverOr1
  Dly = {}
  TMAX_ACTCNT = 1
  RELTIM_MAX = 1
  TMO_WIDTH = 4
  FlagBit = {1, 2}
  Cflg <- Packets
  Wai <- Waits
  Setptn <- EachBit
  Clrptn <- Clear1
INVARIANTS
  FlagExact
PROPERTIES
  OneWaiterPerEvent
