SPECIFICATION SchedSpec
CONSTANTS
  Task = {a, b, c}
  Obj = {}
  RELTIM_MAX = 1
  NoTask = NoTask
  QueueHead = QueueHead
  TMAX_TPRI = 5
  BITMAPSZ = 2
INVARIANTS
  ReadyQueueOK
  ReadyIffLinked
  SchedIsTop
PROPERTY
  SchedFifoSpec
