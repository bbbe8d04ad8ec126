------------------------------- MODULE NetDrv --------------------------------
(***************************************************************************)
(* The network devices: what is common to their drivers and joins them to  *)
(* lwIP, and the two drivers.                                              *)
(***************************************************************************)
EXTENDS SequencesExt, Integers

(***************************************************************************)
(* services/drv/device.c and netdev.c, the table of devices, and           *)
(* services/net/netif_netdev.c, which joins a network device to lwIP: a    *)
(* frame that a driver received goes into a pbuf and to the tcpip thread.  *)
(* Here is also what both drivers have: an interrupt that sets a flag, a   *)
(* task that waits for it, and a caller that transmits.                    *)
(***************************************************************************)

CONSTANTS
  ITT_DEVICES_MAX,
  PBUFS,            \* size of lwIP's pool
  TCPIP_MBOX,       \* size of the tcpip thread's mailbox
  QUEUE_SIZE,       \* descriptors for each direction
  MaxTx, MaxRx,     \* bounds: frames that are sent, that arrive
  Overlap           \* may a task run within a part another one is in that is
                    \* not protected

ASSUME NetifAssumption ==
  /\ ITT_DEVICES_MAX \in Nat /\ PBUFS \in Nat \ {0} /\ TCPIP_MBOX \in Nat \ {0}
  /\ QUEUE_SIZE \in Nat \ {0} /\ MaxTx \in Nat /\ MaxRx \in Nat /\ Overlap \in BOOLEAN

VARIABLES
  g_devices,        \* [name, class] in order of registration
  rx_fn,            \* netdev_set_rx was called
  pbufs,            \* how many are free
  inbox,            \* the frames in the tcpip thread's mailbox
  g_ready,          \* of the driver; "failed" when its initialisation did
  isr, flg,         \* the reasons to interrupt; the task's flag
  drv,              \* "task" and "send": [at, di (descriptor), frame]
  kick,             \* the device was told that there is something to send
  sent, arrived     \* counters

stackvars == <<g_devices, rx_fn, pbufs, inbox>>
drvvars == <<g_ready, isr, flg, drv, kick, sent, arrived>>
netifvars == <<stackvars, drvvars>>

itt_device_find(devs, name) == SelectSeq(devs, LAMBDA d : d.name = name)

itt_device_add(devs, name, class) ==
  IF Len(devs) >= ITT_DEVICES_MAX \/ itt_device_find(devs, name) /= <<>>
  THEN [ok |-> FALSE, devs |-> devs]
  ELSE [ok |-> TRUE, devs |-> Append(devs, [name |-> name, class |-> class])]

(* uart_init has registered the console before.                            *)
console_register == itt_device_add(<<>>, "console", "console").devs

NetifInit ==
  /\ g_devices = console_register /\ rx_fn = FALSE /\ pbufs = PBUFS /\ inbox = <<>>
  /\ g_ready = "no" /\ isr = {} /\ flg = FALSE /\ kick = FALSE /\ sent = 0 /\ arrived = 0
  /\ drv = [t \in {"task", "send"} |-> [at |-> IF t = "task" THEN "wait" ELSE "idle", di |-> 0, frame |-> 0]]

netdev_register(name) == itt_device_add(g_devices, name, "net")

(* netif_netdev_add, for a device that is there: frames go to lwIP now.    *)
netif_netdev_add ==
  /\ g_ready = "yes" /\ ~rx_fn /\ rx_fn' = TRUE
  /\ UNCHANGED <<g_devices, pbufs, inbox, drvvars>>

(* Faulty: a pbuf the tcpip thread does not take is not freed. *)
netdev_rx_tcpip_Leak(frame) ==
  /\ CASE ~rx_fn \/ pbufs = 0 -> UNCHANGED <<pbufs, inbox>>
       [] OTHER -> /\ pbufs' = pbufs - 1
                   /\ inbox' = IF Len(inbox) = TCPIP_MBOX THEN inbox ELSE Append(inbox, frame)
  /\ UNCHANGED <<g_devices, rx_fn>>

(* The frame is dropped when nobody asked for it, when no pbuf is free,    *)
(* or when the mailbox is full, which frees the pbuf again.                *)
netdev_rx_tcpip(frame) ==
  /\ IF ~rx_fn \/ pbufs = 0 \/ Len(inbox) = TCPIP_MBOX THEN UNCHANGED <<pbufs, inbox>>
     ELSE pbufs' = pbufs - 1 /\ inbox' = Append(inbox, frame)
  /\ UNCHANGED <<g_devices, rx_fn>>

(* The tcpip thread takes a frame, and frees its pbuf.                     *)
tcpip_thread ==
  /\ inbox /= <<>> /\ inbox' = Tail(inbox) /\ pbufs' = pbufs + 1
  /\ UNCHANGED <<g_devices, rx_fn, drvvars>>

------------------------------------------------------------------------------
Desc == 0..(QUEUE_SIZE - 1)
Sets(t, at, di) == drv' = [drv EXCEPT ![t] = [at |-> at, di |-> di, frame |-> drv[t].frame]]
Goes(t, at) == Sets(t, at, drv[t].di)
Returns == drv' = [drv EXCEPT !["send"] = [at |-> "idle", di |-> 0, frame |-> 0]]

(* low_level_output: a chain of pbufs that fits its buffer goes to the     *)
(* driver (the others change nothing).  No other task transmits meanwhile, *)
(* as they hold lwIP's core lock.                                          *)
low_level_output(at) ==
  /\ g_ready = "yes" /\ drv["send"].at = "idle" /\ sent < MaxTx /\ sent' = sent + 1
  /\ drv' = [drv EXCEPT !["send"] = [at |-> at, di |-> 0, frame |-> sent + 1]]
  /\ UNCHANGED <<stackvars, g_ready, isr, flg, kick, arrived>>

(* The driver's task.  Each task returns to this wait with a TA_CLR flag   *)
(* or clears it next; what sets it again from here on is seen.             *)
twai_flg(clears) ==
  /\ drv["task"].at = "wait" /\ flg /\ flg' = ~clears
  /\ Goes("task", "clear")
  /\ UNCHANGED <<stackvars, g_ready, isr, kick, sent, arrived>>
clr_flg ==
  /\ drv["task"].at = "clear" /\ flg' = FALSE
  /\ Goes("task", "rx")
  /\ UNCHANGED <<stackvars, g_ready, isr, kick, sent, arrived>>

PbufsExact == pbufs + Len(inbox) = PBUFS

-----------------------------------------------------------------------------
(***************************************************************************)
(* example/qemu-a53/src/src/virtio_net.c.  Descriptors go round between    *)
(* driver and device through an "avail" and a "used" ring for each         *)
(* direction, whose 16-bit indices run on and wrap.  vnet_task serves the  *)
(* interrupts; vnet_tx is called by the stack, and both reclaim the        *)
(* descriptors that were transmitted.                                      *)
(***************************************************************************)

CONSTANT IDX           \* the indices count modulo IDX, 2^16

ASSUME VirtioAssumption == IDX \in Nat \ {0} /\ IDX % QUEUE_SIZE = 0 /\ IDX > QUEUE_SIZE + 1

VARIABLES
  vrx, vtx,      \* a queue: [avail, aidx, used, uidx, last, dev], dev: the device's
  rx_buf, tx_buf,
  tx_free_list

queuevars == <<vrx, vtx, rx_buf, tx_buf, tx_free_list>>

EmptyQueue == [avail |-> [i \in Desc |-> 0], aidx |-> 0, used |-> [i \in Desc |-> 0], uidx |-> 0,
               last |-> 0, dev |-> 0]
NewAvail(q, d) == [q EXCEPT !.avail[q.aidx % QUEUE_SIZE] = d, !.aidx = (@ + 1) % IDX]
(* The device is done with its next descriptor.                            *)
NextOf(q) == q.avail[q.dev % QUEUE_SIZE]
Used(q) == [q EXCEPT !.used[q.uidx % QUEUE_SIZE] = NextOf(q), !.uidx = (@ + 1) % IDX,
                     !.dev = (@ + 1) % IDX]
From(ring, a, b) == [i \in 1..((b - a + IDX) % IDX) |-> ring[(a + i - 1) % QUEUE_SIZE]]
Pending(q) == From(q.used, q.last, q.uidx)
WithDevice(q) == From(q.avail, q.dev, q.aidx)

VirtioInit ==
  /\ vrx = EmptyQueue /\ vtx = EmptyQueue
  /\ rx_buf = [d \in Desc |-> 0] /\ tx_buf = [d \in Desc |-> 0] /\ tx_free_list = <<>>

(* virtio_net_init: no device, no feature, no queue; or all buffers are    *)
(* given to the device, and the task is started.                           *)
Every == [i \in 1..QUEUE_SIZE |-> i - 1]
virtq_setup == [EmptyQueue EXCEPT !.avail = [i \in Desc |-> i], !.aidx = QUEUE_SIZE]
vnet_init ==
  /\ g_ready = "no"
  /\ g_devices' = netdev_register("virtio0").devs
  /\ \/ /\ netdev_register("virtio0").ok /\ g_ready' = "yes"
        /\ vrx' = virtq_setup /\ vtx' = EmptyQueue /\ tx_free_list' = Every
     \/ g_ready' = "failed" /\ UNCHANGED <<vrx, vtx, tx_free_list>>
  /\ UNCHANGED <<rx_fn, pbufs, inbox, isr, flg, drv, kick, sent, arrived, rx_buf, tx_buf>>

(* The device: a frame that finds no buffer is lost.                       *)
vdev_receive ==
  /\ g_ready = "yes" /\ arrived < MaxRx /\ arrived' = arrived + 1
  /\ IF WithDevice(vrx) = <<>> THEN UNCHANGED <<vrx, rx_buf, isr>>
     ELSE rx_buf' = [rx_buf EXCEPT ![NextOf(vrx)] = arrived + 1] /\ vrx' = Used(vrx) /\ isr' = {"rx"}
  /\ UNCHANGED <<stackvars, g_ready, flg, drv, kick, sent, vtx, tx_buf, tx_free_list>>
vdev_transmit ==
  /\ kick
  /\ IF WithDevice(vtx) = <<>> THEN kick' = FALSE /\ UNCHANGED <<vtx, isr>>
     ELSE vtx' = Used(vtx) /\ isr' = {"rx"} /\ UNCHANGED kick
  /\ UNCHANGED <<stackvars, g_ready, flg, drv, sent, arrived, vrx, rx_buf, tx_buf, tx_free_list>>

virtio_net_irq ==
  /\ isr /= {} /\ isr' = {} /\ flg' = TRUE
  /\ UNCHANGED <<stackvars, g_ready, drv, kick, sent, arrived, queuevars>>

------------------------------------------------------------------------------
(* vnet_task: the flag is created without TA_CLR.                          *)
vnet_wait == g_ready = "yes" /\ twai_flg(FALSE) /\ UNCHANGED queuevars

vnet_clear == clr_flg /\ UNCHANGED queuevars

(* vnet_process: what was received goes up, its buffer back to the device. *)
vnet_process ==
  /\ drv["task"].at = "rx"
  /\ IF vrx.last = vrx.uidx
     THEN Goes("task", "reclaim") /\ UNCHANGED <<stackvars, vrx>>
     ELSE LET d == vrx.used[vrx.last % QUEUE_SIZE]
          IN  /\ netdev_rx_tcpip(rx_buf[d])
              /\ vrx' = [vrx EXCEPT !.last = (@ + 1) % IDX]
              /\ Sets("task", "fill", d)
  /\ UNCHANGED <<g_ready, isr, flg, kick, sent, arrived, vtx, rx_buf, tx_buf, tx_free_list>>

(* Faulty: one frame, and then on. *)
rx_fill_One ==
  /\ drv["task"].at = "fill"
  /\ vrx' = NewAvail(vrx, drv["task"].di)
  /\ Goes("task", "reclaim")
  /\ UNCHANGED <<stackvars, g_ready, isr, flg, kick, sent, arrived, vtx, rx_buf, tx_buf, tx_free_list>>

rx_fill ==
  /\ drv["task"].at = "fill"
  /\ vrx' = NewAvail(vrx, drv["task"].di)
  /\ Goes("task", "rx")
  /\ UNCHANGED <<stackvars, g_ready, isr, flg, kick, sent, arrived, vtx, rx_buf, tx_buf, tx_free_list>>

(* Both loops over tx_last_used: the descriptor is read, put on the list   *)
(* in a critical section, and then the index goes on.                      *)
Apart(t) == Overlap \/ \A u \in {"task", "send"} \ {t} : drv[u].at \notin {"push", "inc"}
reclaim_read(t) ==
  /\ drv[t].at = "reclaim" /\ Apart(t)
  /\ IF vtx.last = vtx.uidx THEN Goes(t, IF t = "task" THEN "wait" ELSE "take")
     ELSE Sets(t, "push", vtx.used[vtx.last % QUEUE_SIZE])
  /\ UNCHANGED <<stackvars, g_ready, isr, flg, kick, sent, arrived, queuevars>>
reclaim_push(t) ==
  /\ drv[t].at = "push"
  /\ tx_free_list' = IF Len(tx_free_list) < QUEUE_SIZE THEN Append(tx_free_list, drv[t].di)
                     ELSE tx_free_list
  /\ Goes(t, "inc")
  /\ UNCHANGED <<stackvars, g_ready, isr, flg, kick, sent, arrived, vrx, vtx, rx_buf, tx_buf>>
reclaim_inc(t) ==
  /\ drv[t].at = "inc" /\ vtx' = [vtx EXCEPT !.last = (@ + 1) % IDX]
  /\ Goes(t, "reclaim")
  /\ UNCHANGED <<stackvars, g_ready, isr, flg, kick, sent, arrived, vrx, rx_buf, tx_buf, tx_free_list>>
reclaim(t) == reclaim_read(t) \/ reclaim_push(t) \/ reclaim_inc(t)

------------------------------------------------------------------------------
(* vnet_tx: reclaim, take a descriptor or give up, fill it, publish it.    *)
vnet_tx == low_level_output("reclaim") /\ UNCHANGED queuevars

(* Faulty: the count of free descriptors stays. *)
vnet_tx_take_Keeps ==
  /\ drv["send"].at = "take"
  /\ IF tx_free_list = <<>> THEN Returns ELSE Sets("send", "fill", Last(tx_free_list))
  /\ UNCHANGED <<stackvars, g_ready, isr, flg, kick, sent, arrived, queuevars>>

vnet_tx_take ==
  /\ drv["send"].at = "take"
  /\ IF tx_free_list = <<>> THEN Returns /\ UNCHANGED tx_free_list
     ELSE Sets("send", "fill", Last(tx_free_list)) /\ tx_free_list' = Front(tx_free_list)
  /\ UNCHANGED <<stackvars, g_ready, isr, flg, kick, sent, arrived, vrx, vtx, rx_buf, tx_buf>>

vnet_tx_fill ==
  /\ drv["send"].at = "fill"
  /\ tx_buf' = [tx_buf EXCEPT ![drv["send"].di] = drv["send"].frame]
  /\ Goes("send", "publish")
  /\ UNCHANGED <<stackvars, g_ready, isr, flg, kick, sent, arrived, vrx, vtx, rx_buf, tx_free_list>>
vnet_tx_publish ==
  /\ drv["send"].at = "publish"
  /\ vtx' = NewAvail(vtx, drv["send"].di) /\ kick' = TRUE
  /\ Returns
  /\ UNCHANGED <<stackvars, g_ready, isr, flg, sent, arrived, vrx, rx_buf, tx_buf, tx_free_list>>

VirtioTask == vnet_wait \/ vnet_clear \/ vnet_process \/ rx_fill \/ reclaim("task")
VirtioSend == vnet_tx_take \/ vnet_tx_fill \/ vnet_tx_publish \/ reclaim("send")
VirtioDevice == virtio_net_irq \/ vdev_transmit
VirtioStep == vnet_init \/ vdev_receive \/ VirtioDevice \/ VirtioTask \/ vnet_tx \/ VirtioSend

(* Where each descriptor of a direction is.                                *)
RxPlaces == WithDevice(vrx) \o Pending(vrx)
            \o (IF drv["task"].at = "fill" THEN <<drv["task"].di>> ELSE <<>>)
TxPlaces ==
  LET inc == \E t \in {"task", "send"} : drv[t].at = "inc"
      left == Pending(vtx)
  IN  WithDevice(vtx) \o (IF inc /\ left /= <<>> THEN Tail(left) ELSE left) \o tx_free_list
      \o (IF drv["send"].at \in {"fill", "publish"} THEN <<drv["send"].di>> ELSE <<>>)

-----------------------------------------------------------------------------
(***************************************************************************)
(* example/kria-k26/src/src/gem_net.c.  The MAC and the driver go round    *)
(* two rings of buffer descriptors, and a bit in each descriptor says      *)
(* whose it is: RXBD_NEW is set by the MAC when it has received, and       *)
(* TXBD_USED when it has sent.                                             *)
(***************************************************************************)

VARIABLES
  rx_bd,         \* [new, frame]; frame 0: the status has no SOF and EOF
  tx_bd,         \* [used, frame]
  rx_idx, tx_idx,
  mac            \* [rx, tx]: its own place in each ring

ringvars == <<rx_bd, tx_bd, rx_idx, tx_idx, mac>>

GemInit ==
  /\ rx_bd = [d \in Desc |-> [new |-> FALSE, frame |-> 0]]
  /\ tx_bd = [d \in Desc |-> [used |-> FALSE, frame |-> 0]]
  /\ rx_idx = 0 /\ tx_idx = 0 /\ mac = [rx |-> 0, tx |-> 0]

After(d) == (d + 1) % QUEUE_SIZE

(* gem_net_init starts the task, and goes on whether or not the device     *)
(* finds a place in the table.                                             *)
gem_hw_init ==
  /\ rx_bd' = [d \in Desc |-> [new |-> FALSE, frame |-> 0]]
  /\ tx_bd' = [d \in Desc |-> [used |-> TRUE, frame |-> 0]]
  /\ rx_idx' = 0 /\ tx_idx' = 0
gem_net_init ==
  /\ g_ready = "no"
  /\ \/ g_ready' = "failed" /\ UNCHANGED <<g_devices, rx_bd, tx_bd, rx_idx, tx_idx>>
     \/ g_ready' = "yes" /\ g_devices' = netdev_register("gem3").devs /\ gem_hw_init
  /\ UNCHANGED <<rx_fn, pbufs, inbox, isr, flg, drv, kick, sent, arrived, mac>>

(* The MAC stores a frame, or a piece of one that is too long for a        *)
(* buffer, and interrupts; also when it has no descriptor.                 *)
mac_receive ==
  /\ g_ready = "yes" /\ arrived < MaxRx /\ arrived' = arrived + 1
  /\ IF rx_bd[mac.rx].new THEN UNCHANGED <<rx_bd, mac>>
     ELSE /\ \E whole \in BOOLEAN :
               rx_bd' = [rx_bd EXCEPT ![mac.rx] = [new |-> TRUE, frame |-> IF whole THEN arrived + 1 ELSE 0]]
          /\ mac' = [mac EXCEPT !.rx = After(@)]
  /\ isr' = isr \union {"rx"}
  /\ UNCHANGED <<stackvars, g_ready, flg, drv, kick, sent, tx_bd, rx_idx, tx_idx>>

(* Once started it sends until it meets a descriptor that is not its own.  *)
mac_transmit ==
  /\ kick
  /\ IF tx_bd[mac.tx].used THEN kick' = FALSE /\ UNCHANGED <<tx_bd, mac, isr>>
     ELSE /\ tx_bd' = [tx_bd EXCEPT ![mac.tx].used = TRUE] /\ mac' = [mac EXCEPT !.tx = After(@)]
          /\ isr' = isr \union {"tx"} /\ UNCHANGED kick
  /\ UNCHANGED <<stackvars, g_ready, flg, drv, sent, arrived, rx_bd, rx_idx, tx_idx>>

gem_irq ==
  /\ isr /= {} /\ isr' = {} /\ flg' = (flg \/ "rx" \in isr)
  /\ UNCHANGED <<stackvars, g_ready, drv, kick, sent, arrived, ringvars>>

------------------------------------------------------------------------------
gem_rx_wait == twai_flg(TRUE) /\ UNCHANGED ringvars
gem_rx_clear == clr_flg /\ UNCHANGED ringvars

gem_process_rx ==
  /\ drv["task"].at = "rx"
  /\ LET bd == rx_bd[rx_idx]
     IN  /\ IF bd.new /\ bd.frame /= 0 THEN netdev_rx_tcpip(bd.frame) ELSE UNCHANGED stackvars
         /\ Goes("task", IF bd.new THEN "addr" ELSE "wait")
  /\ UNCHANGED <<g_ready, isr, flg, kick, sent, arrived, ringvars>>

(* gem_rx_rearm: the address, which takes RXBD_NEW away, and then the      *)
(* status; the MAC may have the descriptor in between.                     *)
rearm_addr ==
  /\ drv["task"].at = "addr" /\ rx_bd' = [rx_bd EXCEPT ![rx_idx].new = FALSE]
  /\ Goes("task", "status")
  /\ UNCHANGED <<stackvars, g_ready, isr, flg, kick, sent, arrived, tx_bd, rx_idx, tx_idx, mac>>
rearm_status ==
  /\ drv["task"].at = "status" /\ rx_bd' = [rx_bd EXCEPT ![rx_idx].frame = 0]
  /\ rx_idx' = After(rx_idx)
  /\ Goes("task", "rx")
  /\ UNCHANGED <<stackvars, g_ready, isr, flg, kick, sent, arrived, tx_bd, tx_idx, mac>>

------------------------------------------------------------------------------
(* gem_hw_tx spins until the next descriptor is free, or gives up.         *)
gem_hw_tx == low_level_output("spin") /\ UNCHANGED ringvars
(* Faulty: the descriptor may still be the MAC's. *)
gem_tx_spin_NoTest ==
  /\ drv["send"].at = "spin"
  /\ Goes("send", "copy")
  /\ UNCHANGED <<stackvars, g_ready, isr, flg, kick, sent, arrived, ringvars>>

gem_tx_spin ==
  /\ drv["send"].at = "spin"
  /\ IF tx_bd[tx_idx].used THEN Goes("send", "copy") ELSE Returns
  /\ UNCHANGED <<stackvars, g_ready, isr, flg, kick, sent, arrived, ringvars>>
gem_tx_copy ==
  /\ drv["send"].at = "copy" /\ tx_bd' = [tx_bd EXCEPT ![tx_idx].frame = drv["send"].frame]
  /\ Goes("send", "give")
  /\ UNCHANGED <<stackvars, g_ready, isr, flg, kick, sent, arrived, rx_bd, rx_idx, tx_idx, mac>>
gem_tx_give ==
  /\ drv["send"].at = "give" /\ tx_bd' = [tx_bd EXCEPT ![tx_idx].used = FALSE]
  /\ Goes("send", "start")
  /\ UNCHANGED <<stackvars, g_ready, isr, flg, kick, sent, arrived, rx_bd, rx_idx, tx_idx, mac>>
gem_tx_start ==
  /\ drv["send"].at = "start" /\ kick' = TRUE /\ tx_idx' = After(tx_idx)
  /\ Returns
  /\ UNCHANGED <<stackvars, g_ready, isr, flg, sent, arrived, rx_bd, tx_bd, rx_idx, mac>>

GemTask == gem_rx_wait \/ gem_rx_clear \/ gem_process_rx \/ rearm_addr \/ rearm_status
GemSend == gem_tx_spin \/ gem_tx_copy \/ gem_tx_give \/ gem_tx_start
GemDevice == gem_irq \/ mac_transmit
GemStep == gem_net_init \/ mac_receive \/ GemDevice \/ GemTask \/ gem_hw_tx \/ GemSend

(* The frames in the ring, from index d on, that the task will pass on: a  *)
(* frame that came to the descriptor it is making ready is lost.           *)
RxRing ==
  LET order == [i \in 1..QUEUE_SIZE |-> (rx_idx + i - 1) % QUEUE_SIZE]
      busy == drv["task"].at \in {"addr", "status"}
      ready(d) == rx_bd[d].new /\ rx_bd[d].frame /= 0 /\ ~(busy /\ d = rx_idx)
  IN  [i \in DOMAIN SelectSeq(order, ready) |-> rx_bd[SelectSeq(order, ready)[i]].frame]
TxRing ==
  LET order == [i \in 1..QUEUE_SIZE |-> (mac.tx + i - 1) % QUEUE_SIZE]
      given == SelectSeq(order, LAMBDA d : ~tx_bd[d].used)
  IN  [i \in DOMAIN given |-> tx_bd[given[i]].frame]
=============================================================================
