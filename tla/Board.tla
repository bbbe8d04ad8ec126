-------------------------------- MODULE Board ---------------------------------
(***************************************************************************)
(* The start of a board: net_init, and the initial task that calls it.     *)
(***************************************************************************)
EXTENDS SysArch

(***************************************************************************)
(* services/net/net_init.c: lwIP's thread is started and waited for, and   *)
(* then the thread of the echo service on port 7.  That thread serves one  *)
(* connection at a time and sends back what it receives; every call of     *)
(* lwIP's netconn interface may fail.                                      *)
(***************************************************************************)

CONSTANTS
  MaxConns,           \* bound: connections that are made
  MaxData             \* bound: pieces of data that come on one

ASSUME NetInitAssumption == MaxConns \in Nat /\ MaxData \in Nat

VARIABLES
  boot,               \* where net_init is
  tcpip_ready,
  echo,               \* [at, buf, err]: the pieces of the netbuf it holds
  got, back,          \* of the connection: what came, what was sent back
  conns, netbufs,     \* connections made; netbufs that are allocated
  clients             \* netconns of clients that are allocated

echovars == <<echo, got, back, conns, netbufs, clients>>
bootvars == <<boot, tcpip_ready, echovars>>

NetInitInit ==
  /\ boot = "off" /\ tcpip_ready = FALSE
  /\ echo = [at |-> "new", buf |-> <<>>, err |-> FALSE]
  /\ got = <<>> /\ back = <<>> /\ conns = 0 /\ netbufs = 0 /\ clients = 0

Running(fn) == \E i \in Thread : thread_pool[i].task = fn

(* net_init, in the initial task "init".                                   *)
tcpip_init ==
  /\ boot = "tcpip" /\ boot' = "starting" /\ sys_thread_new("init", "tcpip")
  /\ UNCHANGED <<calls, tcpip_ready, echovars>>
net_init_wait ==
  /\ boot = "starting" /\ tcpip_ready /\ sys["init"].at = "idle" /\ boot' = "echo"
  /\ UNCHANGED <<sysvars, tcpip_ready, echovars>>
net_start_echo ==
  /\ boot = "echo" /\ boot' = "done" /\ sys_thread_new("init", "echo7")
  /\ UNCHANGED <<calls, tcpip_ready, echovars>>
net_thread_started == sys_thread_started("init") /\ UNCHANGED bootvars

(* The thread calls back once; its time is lwIP's.                         *)
net_tcpip_init_done ==
  /\ Running("tcpip") /\ ~tcpip_ready /\ tcpip_ready' = TRUE
  /\ UNCHANGED <<sysvars, boot, echovars>>

------------------------------------------------------------------------------
EchoAt(at) == Running("echo7") /\ echo.at = at
EchoTo(at, buf, err) == echo' = [at |-> at, buf |-> buf, err |-> err]
EchoGoes(at) == EchoTo(at, echo.buf, echo.err)

(* netconn_new, bind, listen: when one fails the thread sleeps for ever.   *)
echo_listen ==
  /\ EchoAt("new") /\ (EchoGoes("accept") \/ EchoGoes("sleep"))
  /\ UNCHANGED <<sysvars, boot, tcpip_ready, got, back, conns, netbufs, clients>>
echo_accept ==
  /\ EchoAt("accept") /\ conns < MaxConns /\ conns' = conns + 1
  /\ \/ /\ EchoGoes("recv") /\ got' = <<>> /\ back' = <<>> /\ clients' = clients + 1
     \/ UNCHANGED <<echo, got, back, clients>>
  /\ UNCHANGED <<sysvars, boot, tcpip_ready, netbufs>>

(* A netbuf of one or two pieces, or an error.                             *)
echo_recv ==
  /\ EchoAt("recv")
  /\ \/ \E n \in {m \in 1..2 : Len(got) + m <= MaxData} :
          LET pieces == [i \in 1..n |-> Len(got) + i]
          IN  /\ got' = got \o pieces /\ netbufs' = netbufs + 1
              /\ EchoTo("write", pieces, echo.err)
     \/ EchoGoes("close") /\ UNCHANGED <<got, netbufs>>
  /\ UNCHANGED <<sysvars, boot, tcpip_ready, back, conns, clients>>

(* The loop over the pieces ends at an error.                              *)
echo_write ==
  /\ EchoAt("write")
  /\ \/ /\ back' = Append(back, Head(echo.buf))
        /\ EchoTo(IF Len(echo.buf) > 1 THEN "write" ELSE "delete", Tail(echo.buf), FALSE)
     \/ EchoTo("delete", echo.buf, TRUE) /\ UNCHANGED back
  /\ UNCHANGED <<sysvars, boot, tcpip_ready, got, conns, netbufs, clients>>

(* Faulty: an error leaves the loop before netbuf_delete. *)
netbuf_delete_NotOnError ==
  /\ EchoAt("delete") /\ netbufs' = IF echo.err THEN netbufs ELSE netbufs - 1
  /\ EchoTo(IF echo.err THEN "close" ELSE "recv", <<>>, FALSE)
  /\ UNCHANGED <<sysvars, boot, tcpip_ready, got, back, conns, clients>>

netbuf_delete ==
  /\ EchoAt("delete") /\ netbufs' = netbufs - 1
  /\ EchoTo(IF echo.err THEN "close" ELSE "recv", <<>>, FALSE)
  /\ UNCHANGED <<sysvars, boot, tcpip_ready, got, back, conns, clients>>
echo_close ==
  /\ EchoAt("close") /\ clients' = clients - 1 /\ EchoGoes("accept")
  /\ UNCHANGED <<sysvars, boot, tcpip_ready, got, back, conns, netbufs>>

Booting == tcpip_init \/ net_init_wait \/ net_start_echo \/ net_thread_started
Echoing == echo_listen \/ echo_accept \/ echo_recv \/ echo_write \/ netbuf_delete \/ echo_close
BootStep == Booting \/ net_tcpip_init_done \/ Echoing

(* Through every failure the echo thread holds at most the one netbuf it   *)
(* works on and one client; what it sends back is what came, in order, and *)
(* all of it when it waits for more; and it runs only after lwIP does.     *)
EchoExact ==
  /\ IsPrefix(back, got) /\ (echo.at = "recv" => back = got)
  /\ netbufs = (IF echo.at \in {"write", "delete"} THEN 1 ELSE 0)
  /\ clients = (IF echo.at \in {"new", "sleep", "accept"} THEN 0 ELSE 1)
  /\ boot = "done" => Running("tcpip")

-----------------------------------------------------------------------------
(***************************************************************************)
(* The initial task of each board (example/*/src/src/test.c): it brings up *)
(* the console, the file systems and the network, most steps of which may  *)
(* fail and are then passed over, and starts the shell last.  It has the   *)
(* highest priority, and other tasks run while it waits: for lwIP's thread *)
(* in net_init, and for the console in every message it prints.            *)
(***************************************************************************)

CONSTANTS
  VFS_MAX_MOUNTS,
  ROMFS_MAX_ENT,      \* capacity of the built-in table of romfs.c
  Boards              \* names of the boards that are started

VARIABLES
  board,              \* the steps of init_tsk still to do
  console,            \* is the UART registered as the console
  mounts,             \* sequence of [path, fs]
  roms,               \* the built-in table of romfs.c
  smoke,              \* lfs_smoke: [at, open, saved, said]
  eth,                \* has the interface been added
  lwip,               \* is lwIP's thread in code that the core lock covers
  shell               \* has the task been started

tables == <<console, mounts, roms, eth>>
boardvars == <<board, tables, smoke, lwip, shell>>

qemu_a53_ShellFirst ==
  <<"uart_init", "vfs_init", "hello.elf", "demo.sh", "romfs", "procfs", "sysfs", "shell", "lfs",
    "nic", "net", "eth", "chg_pri">>
qemu_a53 ==
  <<"uart_init", "vfs_init", "hello.elf", "demo.sh", "romfs", "procfs", "sysfs", "lfs",
    "nic", "net", "eth", "shell", "chg_pri">>
kria_k26 ==
  <<"uart_init", "vfs_init", "romfs", "procfs", "sysfs", "lfs",
    "nic", "net", "eth", "shell", "chg_pri">>
linux_user == <<"uart_init", "vfs_init", "demo.sh", "romfs", "procfs", "lfs", "shell", "chg_pri">>
stm32l100 == <<"uart_init", "vfs_init", "demo.sh", "romfs", "procfs", "shell", "chg_pri">>
qemu_m3 == <<"uart_init", "vfs_init", "demo.sh", "romfs", "procfs", "shell", "chg_pri">>
Steps(b) ==
  CASE b = "qemu-a53" -> qemu_a53 [] b = "kria-k26" -> kria_k26 [] b = "linux-user" -> linux_user
    [] b = "stm32l100" -> stm32l100 [] b = "qemu-m3" -> qemu_m3

ASSUME BoardAssumption ==
  /\ VFS_MAX_MOUNTS \in Nat
  /\ Boards \subseteq {"qemu-a53", "kria-k26", "linux-user", "stm32l100", "qemu-m3"}

NoSmoke == [at |-> "idle", open |-> FALSE, saved |-> FALSE, said |-> ""]

BoardInit(on) ==
  /\ board \in IF on THEN {Steps(b) : b \in Boards} ELSE {<<>>}
  /\ console = FALSE /\ mounts = <<>> /\ roms = <<>> /\ smoke = NoSmoke
  /\ eth = FALSE /\ lwip = FALSE /\ shell = FALSE

Step(s) ==
  /\ board /= <<>> /\ Head(board) = s
  /\ smoke.at = "idle" /\ boot \in {"off", "done"} /\ sys["init"].at = "idle"
Done == board' = Tail(board)

uart_init ==
  /\ Step("uart_init") /\ Done /\ console' = TRUE
  /\ UNCHANGED <<mounts, roms, smoke, eth, lwip, shell>>
vfs_init ==
  /\ Step("vfs_init") /\ Done /\ mounts' = <<>>
  /\ UNCHANGED <<console, roms, smoke, eth, lwip, shell>>

(* ensure_builtin, at the first use: without memory the table stays empty. *)
ensure_builtin ==
  IF roms /= <<>> THEN {roms}
  ELSE {<<>>, <<[name |-> <<"readme.txt">>, data |-> 0], [name |-> <<"hello.txt">>, data |-> 0]>>}
(* romfs_add_builtin: an entry of that name is replaced, or one is added   *)
(* while there is room.                                                    *)
romfs_add_builtin(r, name, data) ==
  IF \E i \in DOMAIN r : r[i].name = name
  THEN [i \in DOMAIN r |-> IF r[i].name = name THEN [r[i] EXCEPT !.data = data] ELSE r[i]]
  ELSE IF Len(r) >= ROMFS_MAX_ENT THEN r
  ELSE Append(r, [name |-> name, data |-> data])
builtin(name) ==
  /\ Step(name) /\ Done
  /\ \E r \in ensure_builtin :
       roms' = IF r = <<>> THEN r ELSE romfs_add_builtin(r, <<name>>, 1)
  /\ UNCHANGED <<console, mounts, smoke, eth, lwip, shell>>

(* vfs_mount, whose result is not looked at.                               *)
vfs_mount(path, fs) ==
  IF Len(mounts) = VFS_MAX_MOUNTS \/ \E i \in DOMAIN mounts : mounts[i].path = path THEN mounts
  ELSE Append(mounts, [path |-> path, fs |-> fs])
romfs_mount ==
  /\ Step("romfs") /\ Done
  /\ roms' \in ensure_builtin /\ mounts' = vfs_mount("/", "romfs")
  /\ UNCHANGED <<console, smoke, eth, lwip, shell>>
procfs_mount ==
  /\ Step("procfs") /\ Done /\ mounts' = vfs_mount("/proc", "procfs")
  /\ UNCHANGED <<console, roms, smoke, eth, lwip, shell>>
sysfs_mount ==
  /\ Step("sysfs") /\ Done /\ mounts' = vfs_mount("/sys", "sysfs")
  /\ UNCHANGED <<console, roms, smoke, eth, lwip, shell>>

------------------------------------------------------------------------------
(* lfs_port_mount may fail at any of its steps; else lfs_smoke writes a    *)
(* file and reads it back, each call of which may fail.                    *)
lfs_port_mount ==
  /\ Step("lfs") /\ Done
  /\ \/ mounts' = vfs_mount("/data", "lfs") /\ mounts' /= mounts /\ smoke' = [smoke EXCEPT !.at = "open-w"]
     \/ UNCHANGED <<mounts, smoke>>
  /\ UNCHANGED <<console, roms, eth, lwip, shell>>

Smokes(at, new) ==
  /\ smoke.at = at /\ smoke' \in new
  /\ UNCHANGED <<board, tables, lwip, shell>>
Ends == [smoke EXCEPT !.at = "idle"]
smoke_open_w == Smokes("open-w", {Ends, [smoke EXCEPT !.at = "write", !.open = TRUE]})
smoke_write == Smokes("write", {[smoke EXCEPT !.at = "close-w", !.saved = ok] : ok \in BOOLEAN})
(* Faulty: a short write returns before the close. *)
smoke_close_w_Late ==
  Smokes("close-w",
    IF smoke.saved THEN {[smoke EXCEPT !.open = FALSE, !.at = "open-r", !.saved = ok] : ok \in BOOLEAN}
    ELSE {Ends})
(* The data is on the device only when the close, whose result is not      *)
(* looked at, puts it there; what write returned is looked at after it.    *)
smoke_close_w ==
  Smokes("close-w",
    IF smoke.saved THEN {[smoke EXCEPT !.open = FALSE, !.at = "open-r", !.saved = ok] : ok \in BOOLEAN}
    ELSE {[Ends EXCEPT !.open = FALSE]})
smoke_open_r == Smokes("open-r", {Ends, [smoke EXCEPT !.at = "read", !.open = TRUE]})
(* Faulty: what was read is not compared. *)
smoke_read_Any ==
  Smokes("read", {[smoke EXCEPT !.at = "close-r", !.said = s] : s \in {"ok", ""}})
smoke_read ==
  Smokes("read",
    {[smoke EXCEPT !.at = "close-r", !.said = s] : s \in IF smoke.saved THEN {"ok", ""} ELSE {""}})
smoke_close_r == Smokes("close-r", {[Ends EXCEPT !.open = FALSE]})
lfs_smoke ==
  smoke_open_w \/ smoke_write \/ smoke_close_w \/ smoke_open_r \/ smoke_read \/ smoke_close_r

------------------------------------------------------------------------------
(* Faulty: without the network the initial task ends. *)
nic_init_Ends ==
  /\ Step("nic")
  /\ Done \/ board' = <<>>
  /\ UNCHANGED <<tables, smoke, lwip, shell, boot>>
(* virtio_net_init or gem_net_init: without it there is no network.        *)
nic_init ==
  /\ Step("nic")
  /\ \/ Done
     \/ board' = SubSeq(board, 4, Len(board))
  /\ UNCHANGED <<tables, smoke, lwip, shell, boot>>
(* net_init of net_init.c, and then the interface, without the core    *)
(* lock.                                                                   *)
net_starts ==
  /\ Step("net") /\ Done /\ boot' = "tcpip"
  /\ UNCHANGED <<tables, smoke, lwip, shell>>
netif_add ==
  /\ Step("eth") /\ Done /\ eth' \in BOOLEAN
  /\ UNCHANGED <<console, mounts, roms, smoke, lwip, shell>>

(* lwIP's thread, while the initial task waits.                            *)
lwip_core ==
  /\ Running("tcpip") /\ lwip' = ~lwip
  /\ UNCHANGED <<board, tables, smoke, shell>>

start_shell ==
  /\ Step("shell") /\ Done /\ shell' = TRUE
  /\ UNCHANGED <<tables, smoke, lwip>>
chg_pri ==
  /\ Step("chg_pri") /\ Done
  /\ UNCHANGED <<tables, smoke, lwip, shell>>

init_tsk ==
  \/ /\ \/ uart_init \/ vfs_init \/ (\E n \in {"hello.elf", "demo.sh"} : builtin(n))
        \/ romfs_mount \/ procfs_mount \/ sysfs_mount \/ lfs_port_mount \/ lfs_smoke
        \/ netif_add \/ start_shell \/ chg_pri
     /\ UNCHANGED bootvars
  \/ nic_init /\ UNCHANGED <<tcpip_ready, echovars>>
  \/ net_starts /\ UNCHANGED <<tcpip_ready, echovars>>

------------------------------------------------------------------------------
(* init_tsk: nothing protects the tables of vfs.c and romfs.c or the list  *)
(* of interfaces, so they are what they stay when the shell can first look *)
(* at them, and lfs_smoke has given its descriptor back by then.           *)
TablesSettled == [][shell => UNCHANGED tables /\ ~smoke.open]_<<boardvars, boot>>

(* "lfs: smoke ok" is printed only when the file was on the device.        *)
SmokeHonest == smoke.said = "ok" => smoke.saved

(* The interface is added while lwIP's thread is not in the middle of its  *)
(* own use of the list.  It does not hold: init_tsk may wake there.        *)
CoreRespected == [][eth' /= eth => ~lwip]_<<boardvars, boot>>
=============================================================================
