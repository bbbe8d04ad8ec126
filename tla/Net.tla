-------------------------------- MODULE Net ----------------------------------
(***************************************************************************)
(* The network side: the two drivers below lwIP, and what lwIP is given by *)
(* the kernel and started with.  They are joined by the frames in lwIP's   *)
(* mailbox; a behaviour has one driver, or the pools, or a board's start.  *)
(***************************************************************************)
EXTENDS NetDrv, Board

CONSTANT Part       \* the parts to be checked, of these four

ASSUME NetAssumption == Part \subseteq {"virtio", "gem", "sys", "boot"} /\ "init" \in SysUser

VARIABLE part

vars == <<part, netifvars, queuevars, ringvars, sysvars, bootvars, boardvars>>

Init ==
  /\ part \in Part
  /\ NetifInit /\ VirtioInit /\ GemInit /\ SysInit /\ NetInitInit /\ BoardInit(part = "boot")

Stack == netif_netdev_add \/ (tcpip_thread /\ UNCHANGED drvvars)
InitTask ==
  \/ init_tsk /\ UNCHANGED sysvars
  \/ Booting /\ UNCHANGED boardvars
LwipThreads ==
  \/ (net_tcpip_init_done \/ Echoing) /\ UNCHANGED boardvars
  \/ lwip_core /\ UNCHANGED <<sysvars, bootvars>>
Next ==
  /\ part' = part
  /\ \/ part = "virtio" /\ (VirtioStep \/ (Stack /\ UNCHANGED queuevars))
        /\ UNCHANGED <<ringvars, sysvars, bootvars, boardvars>>
     \/ part = "gem" /\ (GemStep \/ (Stack /\ UNCHANGED ringvars))
        /\ UNCHANGED <<queuevars, sysvars, bootvars, boardvars>>
     \/ part = "sys" /\ SysStep /\ UNCHANGED <<netifvars, queuevars, ringvars, bootvars, boardvars>>
     \/ part = "boot" /\ (InitTask \/ LwipThreads) /\ UNCHANGED <<netifvars, queuevars, ringvars>>

(* The driver's task and the stack's are above the shell and the idle      *)
(* task, and run until they wait; the device goes on, and its interrupt is *)
(* taken.  Nobody must transmit and no frame must come.                    *)
OfVirtio(A) == part = "virtio" /\ A /\ part' = part /\ UNCHANGED <<ringvars, sysvars, bootvars, boardvars>>
OfGem(A) == part = "gem" /\ A /\ part' = part /\ UNCHANGED <<queuevars, sysvars, bootvars, boardvars>>
OfBoot(A) == part = "boot" /\ A /\ part' = part /\ UNCHANGED <<netifvars, queuevars, ringvars>>
Fairness ==
  /\ WF_vars(OfBoot(InitTask)) /\ WF_vars(OfBoot(net_tcpip_init_done /\ UNCHANGED boardvars))
  /\ WF_vars(OfVirtio(virtio_net_irq)) /\ WF_vars(OfVirtio(vdev_transmit))
  /\ WF_vars(OfVirtio(VirtioTask)) /\ WF_vars(OfVirtio(VirtioSend))
  /\ WF_vars(OfVirtio(Stack /\ UNCHANGED queuevars))
  /\ WF_vars(OfGem(gem_irq)) /\ WF_vars(OfGem(mac_transmit))
  /\ WF_vars(OfGem(GemTask)) /\ WF_vars(OfGem(GemSend))
  /\ WF_vars(OfGem(Stack /\ UNCHANGED ringvars))
Spec == Init /\ [][Next]_vars /\ Fairness

------------------------------------------------------------------------------
(* The device table holds a name once and no more than it has room for,    *)
(* and no pbuf is lost, whatever is dropped on the way up.                 *)
TypeOK ==
  /\ Len(g_devices) <= ITT_DEVICES_MAX
  /\ \A i, j \in DOMAIN g_devices : g_devices[i].name = g_devices[j].name => i = j
  /\ PbufsExact
  /\ drv["task"].di \in Desc /\ drv["send"].di \in Desc

(* A descriptor is in one place: with the device, done and not yet seen,   *)
(* on the free list, or in the hands of the task or the sender.            *)
Once(places) == Len(places) = QUEUE_SIZE /\ ToSet(places) = Desc
DescriptorsConserved == part = "virtio" /\ g_ready = "yes" => Once(RxPlaces) /\ Once(TxPlaces)

(* Frames go out whole, in order and once, or are refused; what arrives is *)
(* handed up in order and once, and a frame is lost only when no           *)
(* descriptor is ready for it or lwIP has no room for it.                  *)
NicIn ==
  IF ~rx_fn THEN <<>>
  ELSE inbox \o (IF part = "virtio" THEN LET p == Pending(vrx) IN [i \in DOMAIN p |-> rx_buf[p[i]]]
                 ELSE RxRing)
NicOut ==
  IF g_ready /= "yes" THEN <<>>
  ELSE IF part = "virtio" THEN LET p == WithDevice(vtx) IN [i \in DOMAIN p |-> tx_buf[p[i]]]
  ELSE TxRing
NicOffered == IF drv["send"].at \in {"idle", "start"} THEN <<>> ELSE <<drv["send"].frame>>
Nic == INSTANCE DuplexLine WITH
  out <- NicOut, in <- NicIn, offered <- [w \in {"stack"} |-> NicOffered],
  room <- IF PBUFS < TCPIP_MBOX THEN PBUFS ELSE TCPIP_MBOX,
  Writer <- {"stack"}, OutData <- 1..MaxTx, InData <- 1..MaxRx, MayRefuse <- TRUE
NicSpec == Nic!Spec

(* No frame stays in the driver: its interrupt is not lost to the clearing *)
(* of the flag, and the device is told of all that is given to it.         *)
FramesMove == []<>(NicIn = <<>> \/ ~rx_fn) /\ []<>(NicOut = <<>>)

(* init_tsk: the shell starts whatever fails before it, unless lwIP's      *)
(* thread cannot be made, for which net_init waits for ever.               *)
ShellStarts == part = "boot" => <>(shell \/ (boot = "starting" /\ ~Running("tcpip")))

(* No descriptor and no pbuf is lost or in two places (virtio_net.c,       *)
(* netif_netdev.c).                                                        *)
BuffersExact == TypeOK /\ DescriptorsConserved

(* The interface carries the frames in order, and does not keep them.      *)
NicServes == NicSpec /\ FramesMove

(* init_tsk: whatever fails, the shell starts, over tables that stay, and  *)
(* what was printed about littlefs is true.                                *)
BootSpec == []SmokeHonest /\ TablesSettled /\ ShellStarts
=============================================================================
