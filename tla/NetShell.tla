------------------------------- MODULE NetShell -------------------------------
(***************************************************************************)
(* services/shell/shell_net.c against the tcpip thread: ping, ifconfig and *)
(* arp take the core lock (LOCK_TCPIP_CORE); the tcpip thread holds it     *)
(* while it processes a packet, and calls ping_recv, which works on a      *)
(* structure of cmd_ping's stack frame.  Packets are lost, duplicated,     *)
(* delayed and reordered.  lwIP itself is external: the raw pcb is         *)
(* registered or not, the interface is up or not.                          *)
(***************************************************************************)
EXTENDS Integers, FiniteSets

CONSTANTS
  PINGS,        \* requests of one ping: 4
  MAXCOPIES     \* copies of one reply that may be under way

ASSUME NetShellAssumption == PINGS \in Nat \ {0} /\ MAXCOPIES \in Nat

VARIABLES
  core,         \* who holds the core lock: "free", "shell", "tcpip"
  pcb,          \* is ping_recv registered
  sem,          \* ctx.sem: [there, cnt]
  wire,         \* sequence number -> replies under way
  up,           \* netif_is_up
  cmd           \* the command under way: [pc, what, seq, ok, rc]

netvars == <<core, pcb, sem, wire, up, cmd>>

NewCmd(pc, what, rc) == [pc |-> pc, what |-> what, seq |-> 0, ok |-> 0, rc |-> rc]
NoCmd == NewCmd("idle", "none", 0)
NetInit ==
  /\ core = "free" /\ pcb = FALSE /\ up = TRUE
  /\ sem = [there |-> FALSE, cnt |-> 0]
  /\ wire = [n \in 1..PINGS |-> 0]
  /\ cmd = NoCmd

In(pc) == cmd.pc = pc
To(pc) == cmd' = [cmd EXCEPT !.pc = pc]
Done(rc) == cmd' = NewCmd("done", "none", rc)
Lock == core = "free" /\ core' = "shell"
Unlock == core' = "free"

(* cmd_ping: a semaphore, then the pcb under the lock.                     *)
ping_start ==
  /\ In("idle")
  /\ \/ /\ sem' = [there |-> TRUE, cnt |-> 0]
        /\ cmd' = NewCmd("new", "ping", 0)
     \/ Done(-1) /\ UNCHANGED sem
  /\ UNCHANGED <<core, pcb, wire, up>>

ping_new_lock ==
  /\ In("new") /\ Lock /\ To("raw_new")
  /\ UNCHANGED <<pcb, sem, wire, up>>

(* raw_new fails: unlock and free the semaphore; else register ping_recv.  *)
ping_raw_new ==
  /\ In("raw_new") /\ Unlock
  /\ \/ pcb' = TRUE /\ cmd' = [cmd EXCEPT !.pc = "send", !.seq = 1] /\ UNCHANGED sem
     \/ Done(-1) /\ sem' = [there |-> FALSE, cnt |-> 0] /\ UNCHANGED pcb
  /\ UNCHANGED <<wire, up>>

ping_send_lock ==
  /\ In("send") /\ Lock /\ To("sendto")
  /\ UNCHANGED <<pcb, sem, wire, up>>

(* ping_send: the reply may be lost or come more than once.  It fails      *)
(* without memory or without a route, and ends the loop.                   *)
ping_send ==
  /\ In("sendto") /\ Unlock
  /\ \/ /\ up
        /\ \E n \in 0..(MAXCOPIES - wire[cmd.seq]) : wire' = [wire EXCEPT ![cmd.seq] = @ + n]
        /\ To("wait")
     \/ To("remove") /\ UNCHANGED wire
  /\ UNCHANGED <<pcb, sem, up>>

(* sys_arch_sem_wait: a token counts as the reply, 1000 ms without one as  *)
(* a timeout.  A token may still be from an earlier request.               *)
ping_wait ==
  /\ In("wait")
  /\ \/ /\ sem.cnt > 0
        /\ sem' = [sem EXCEPT !.cnt = @ - 1]
        /\ cmd' = [cmd EXCEPT !.pc = "next", !.ok = @ + 1]
     \/ sem.cnt = 0 /\ To("next") /\ UNCHANGED sem
  /\ UNCHANGED <<core, pcb, wire, up>>

(* The loop's next round: seq changes without the lock; or its end.        *)
ping_next ==
  /\ In("next")
  /\ IF cmd.seq < PINGS THEN cmd' = [cmd EXCEPT !.pc = "send", !.seq = @ + 1]
                        ELSE To("remove")
  /\ UNCHANGED <<core, pcb, sem, wire, up>>

ping_remove_lock ==
  /\ In("remove") /\ Lock /\ To("raw_remove")
  /\ UNCHANGED <<pcb, sem, wire, up>>

ping_raw_remove ==
  /\ In("raw_remove") /\ Unlock
  /\ pcb' = FALSE
  /\ To("free")
  /\ UNCHANGED <<sem, wire, up>>

ping_free ==
  /\ In("free")
  /\ sem' = [there |-> FALSE, cnt |-> 0]
  /\ Done(IF cmd.ok > 0 THEN 0 ELSE -1)
  /\ UNCHANGED <<core, pcb, wire, up>>

(* cmd_ifconfig and cmd_arp: what they do, they do under the lock, and     *)
(* each of ifconfig's errors unlocks before it returns.                    *)
if_start(what) ==
  /\ In("idle")
  /\ cmd' = NewCmd("if", what, 0)
  /\ UNCHANGED <<core, pcb, sem, wire, up>>
if_lock ==
  /\ In("if") /\ Lock /\ To("if_body")
  /\ UNCHANGED <<pcb, sem, wire, up>>

(* Faulty: ifconfig fails without giving the lock back. *)
if_body_Return ==
  /\ In("if_body")
  /\ \/ Done(0) /\ Unlock /\ (UNCHANGED up \/ (cmd.what = "ifconfig" /\ up' \in BOOLEAN))
     \/ cmd.what = "ifconfig" /\ Done(-1) /\ UNCHANGED <<core, up>>
  /\ UNCHANGED <<pcb, sem, wire>>

if_body ==
  /\ In("if_body") /\ Unlock
  /\ \/ Done(0) /\ (UNCHANGED up \/ (cmd.what = "ifconfig" /\ up' \in BOOLEAN))
     \/ cmd.what = "ifconfig" /\ Done(-1) /\ UNCHANGED up
  /\ UNCHANGED <<pcb, sem, wire>>

(* The tcpip thread takes the lock, and processes one packet under it:     *)
(* ping_recv takes a reply to the request ctx.seq and signals.             *)
tcpip_lock ==
  /\ core = "free" /\ \E n \in DOMAIN wire : wire[n] > 0
  /\ core' = "tcpip"
  /\ UNCHANGED <<pcb, sem, wire, up, cmd>>

(* Faulty: the packet stays on the wire and is received again. *)
ping_recv_Again ==
  /\ core = "tcpip" /\ core' = "free"
  /\ \E n \in DOMAIN wire :
       /\ wire[n] > 0
       /\ sem' = IF pcb /\ n = cmd.seq THEN [sem EXCEPT !.cnt = @ + 1] ELSE sem
  /\ UNCHANGED <<pcb, wire, up, cmd>>
ping_recv ==
  /\ core = "tcpip" /\ core' = "free"
  /\ \E n \in DOMAIN wire :
       /\ wire[n] > 0
       /\ wire' = [wire EXCEPT ![n] = @ - 1]
       /\ sem' = IF pcb /\ n = cmd.seq THEN [sem EXCEPT !.cnt = @ + 1] ELSE sem
  /\ UNCHANGED <<pcb, up, cmd>>

PingStep ==
  \/ ping_new_lock \/ ping_raw_new \/ ping_send_lock \/ ping_send \/ ping_wait \/ ping_next
  \/ ping_remove_lock \/ ping_raw_remove \/ ping_free \/ if_lock \/ if_body
TcpipStep == tcpip_lock \/ ping_recv
=============================================================================
