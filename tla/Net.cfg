SPECIFICATION Spec
CONSTANTS
  Part = {"virtio", "gem", "sys", "boot"}
  ITT_DEVICES_MAX = 2
  PBUFS = 2
  TCPIP_MBOX = 1
  QUEUE_SIZE = 2
  IDX = 4
  MaxTx = 3
  MaxRx = 3
  Overlap = FALSE
  SysUser = {"init", "app"}
  LWIP_SEM_COUNT = 3
  LWIP_THREAD_COUNT = 2
  MaxCalls = 2
  Alone = TRUE
  MaxConns = 2
  MaxData = 3
  ROMFS_MAX_ENT = 3
  VFS_MAX_MOUNTS = 3
  Boards = {"qemu-a53", "kria-k26", "linux-user", "stm32l100", "qemu-m3"}
INVARIANTS
  
  
  EchoExact
PROPERTIES
  
  NicServes
CHECK_DEADLOCK FALSE
