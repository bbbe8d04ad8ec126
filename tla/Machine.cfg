SPECIFICATION Spec
CONSTANTS
  shell = shell
  other = other
  User = {shell, other}
  Uses <- Listed
  Board = {"pl011", "cadence", "usart", "stdin"}
  UART_FIFO_SIZE = 2
  HW_FIFO <- Fifos
  NoByte = NoByte
  MaxOut = 3
  MaxIn = 3
  Task = {1, 2}
  NoTask = NoTask
  IdleLoop = IdleLoop
  Nobody = Nobody
  Ports = {"cortex-a53", "cortex-m3", "linux-user", "m16c62"}
  NoPort = NoPort
  Nest <- MaskedAlone
  Tmo = {2}
  COUNTS = 3
  LoneExit = FALSE
INVARIANTS
  MachineOK
PROPERTIES
  SwitchesMade
  LineServed
  ThreadsSpec
CHECK_DEADLOCK FALSE
