------------------------------ MODULE NetProofs -------------------------------
(***************************************************************************)
(* The network glue, for any number of tasks and any sizes: the pools of   *)
(* sys_arch.c and the echo server of net_init.c, the descriptors of        *)
(* virtio_net.c and the pbufs of netif_netdev.c, whichever part of module  *)
(* Net runs; and the mailbox of sys_arch.c, for every number of posters    *)
(* and fetchers, every size and every interleaving of their steps.         *)
(***************************************************************************)
EXTENDS Net, Mbox, SequenceTheorems, FiniteSetTheorems, TLAPS

(* The calls of sys_arch.c: their fields, and what their place says of     *)
(* them.                                                                   *)
SysKind == {"sem", "mutex", "mbox"}
CallAt == {"idle", "search", "mark", "made", "cre"}
SysCall == [at : CallAt, kind : SysUser \union SysKind \union {"none", "tcpip", "echo7"},
            want : Seq(Nat), got : Seq(Slot \union {0}), slot : Nat]
SysSem == [created : BOOLEAN, free : BOOLEAN, count : Nat]
SysThr == [used : BOOLEAN, fn : SysUser \union {"none", "tcpip", "echo7"},
           task : SysUser \union {"none", "tcpip", "echo7"}]
SysObj == [kind : SysKind, sems : Seq(Slot)]
SysTypes ==
  /\ sem_pool \in [Slot -> SysSem] /\ thread_pool \in [Thread -> SysThr]
  /\ heap \in Int /\ sys \in [SysUser -> SysCall] /\ objs \in [SysUser -> Seq(SysObj)]

(* A place of the thread pool is one call's from its choice until the task *)
(* is started in it, and a task that runs keeps its place.                 *)
PlacesFree == \A i \in Thread : ~thread_pool[i].used => thread_pool[i].task = "none"
StartsOwn(u) ==
  sys[u].at = "cre" =>
    /\ sys[u].slot \in Thread /\ thread_pool[sys[u].slot].used
    /\ thread_pool[sys[u].slot].fn = sys[u].kind /\ thread_pool[sys[u].slot].task = "none"
    /\ sys[u].kind \in SysUser \union {"tcpip", "echo7"}
StartsApart ==
  \A u, v \in SysUser : sys[u].at = "cre" /\ sys[v].at = "cre" /\ sys[u].slot = sys[v].slot => u = v
ThreadsInv == PlacesFree /\ (\A u \in SysUser : StartsOwn(u)) /\ StartsApart

LEMMA CallFields ==
  ASSUME NEW c \in SysCall
  PROVE  /\ c.at \in CallAt /\ c.got \in Seq(Slot \union {0}) /\ c.slot \in Nat
         /\ c = [at |-> c.at, kind |-> c.kind, want |-> c.want, got |-> c.got, slot |-> c.slot]
BY DEF SysCall

LEMMA ThrFields ==
  ASSUME NEW r \in SysThr
  PROVE  /\ r.used \in BOOLEAN /\ r = [used |-> r.used, fn |-> r.fn, task |-> r.task]
BY DEF SysThr

(* What a step does to the threads: it leaves them and the calls that make *)
(* them alone, or a call takes a place, or leaves it.                      *)
LEMMA ThreadsKept ==
  ASSUME SysTypes, ThreadsInv, NEW u \in SysUser, NEW c, sys' = [sys EXCEPT ![u] = c],
         UNCHANGED thread_pool, c.at # "cre"
  PROVE  ThreadsInv'
<1>1. \A v \in SysUser : sys'[v].at = "cre" => v # u /\ sys'[v] = sys[v]
  BY DEF SysTypes
<1> QED BY <1>1 DEF ThreadsInv, PlacesFree, StartsOwn, StartsApart

LEMMA ThreadTaken ==
  ASSUME SysTypes, ThreadsInv, NEW u \in SysUser, NEW fn \in SysUser \union {"tcpip", "echo7"}, sys_thread_new(u, fn)
  PROVE  /\ ThreadsInv' /\ thread_pool' \in [Thread -> SysThr] /\ sys' \in [SysUser -> SysCall]
         /\ \A i \in Thread : thread_pool'[i].task = thread_pool[i].task
<1>1. PICK i \in Unused :
        /\ thread_pool' = [thread_pool EXCEPT ![i].used = TRUE, ![i].fn = fn]
        /\ Calls(u, Call("cre", fn, <<>>, <<>>, i))
  BY DEF sys_thread_new
<1>2. i \in Thread /\ i \in Nat /\ ~thread_pool[i].used /\ thread_pool[i].task = "none"
  BY SysAssumption DEF Unused, Thread, ThreadsInv, PlacesFree
<1>15. PICK c : c = [at |-> "cre", kind |-> fn, want |-> <<>>, got |-> <<>>, slot |-> i]
  OBVIOUS
<1>16. <<>> \in Seq(Slot \union {0}) /\ <<>> \in Seq(Nat)
  OBVIOUS
<1>17. fn \in SysUser \union SysKind \union {"none", "tcpip", "echo7"}
  OBVIOUS
<1>18. c \in SysCall
  BY <1>2, <1>15, <1>16, <1>17 DEF SysCall, CallAt
<1>19. Call("cre", fn, <<>>, <<>>, i) = c
  BY <1>15 DEF Call
<1>3. c \in SysCall /\ Call("cre", fn, <<>>, <<>>, i) = c
  BY <1>18, <1>19
<1>20. sys' = [sys EXCEPT ![u] = c]
  BY <1>1, <1>19, Zenon DEF Calls
<1>4. sys' = [sys EXCEPT ![u] = c] /\ c.at = "cre" /\ c.slot = i /\ c.kind = fn
  BY <1>15, <1>20
<1>5. /\ thread_pool[i] \in SysThr
      /\ thread_pool[i] = [used |-> thread_pool[i].used, fn |-> thread_pool[i].fn, task |-> thread_pool[i].task]
  BY <1>2, ThrFields DEF SysTypes
<1>6. /\ thread_pool'[i] = [used |-> TRUE, fn |-> fn, task |-> "none"]
      /\ \A j \in Thread : j # i => thread_pool'[j] = thread_pool[j]
      /\ DOMAIN thread_pool' = Thread
  BY <1>1, <1>2, <1>5 DEF SysTypes
<1>7. [used |-> TRUE, fn |-> fn, task |-> "none"] \in SysThr
  BY DEF SysThr
<1>8. thread_pool' \in [Thread -> SysThr]
  BY <1>1, <1>2, <1>6, <1>7 DEF SysTypes
<1>9. sys' \in [SysUser -> SysCall] /\ sys'[u] = c /\ \A v \in SysUser : v # u => sys'[v] = sys[v]
  BY <1>3, <1>4 DEF SysTypes
<1>10. \A v \in SysUser : v # u /\ sys[v].at = "cre" => sys[v].slot # i
  BY <1>2 DEF ThreadsInv, StartsOwn
<1>11. PlacesFree'
  BY <1>6 DEF ThreadsInv, PlacesFree
<1>12. ASSUME NEW v \in SysUser PROVE StartsOwn(v)'
  <2>1. CASE v = u
    BY <1>2, <1>4, <1>6, <1>9, <2>1 DEF StartsOwn
  <2>2. CASE v # u
    BY <1>6, <1>9, <1>10, <2>2 DEF ThreadsInv, StartsOwn
  <2> QED BY <2>1, <2>2
<1>13. StartsApart'
  BY <1>4, <1>9, <1>10 DEF ThreadsInv, StartsApart
<1>14. \A j \in Thread : thread_pool'[j].task = thread_pool[j].task
  <2>1. thread_pool'[i].task = "none"
    BY <1>6
  <2>2. \A j \in Thread : j # i => thread_pool'[j].task = thread_pool[j].task
    BY <1>6
  <2> QED BY <1>2, <2>1, <2>2
<1> QED BY <1>8, <1>9, <1>11, <1>12, <1>13, <1>14 DEF ThreadsInv

LEMMA ThreadStarted ==
  ASSUME SysTypes, ThreadsInv, NEW u \in SysUser, sys_thread_started(u)
  PROVE  /\ ThreadsInv' /\ thread_pool' \in [Thread -> SysThr] /\ sys' = [sys EXCEPT ![u] = IdleCall]
         /\ \A i \in Thread : thread_pool[i].task # "none" => thread_pool'[i].task = thread_pool[i].task
<1>1. PICK i : i = sys[u].slot
  OBVIOUS
<1>2. /\ sys[u].at = "cre" /\ i \in Thread /\ thread_pool[i].used
      /\ thread_pool[i].fn = sys[u].kind /\ thread_pool[i].task = "none"
      /\ sys[u].kind \in SysUser \union {"tcpip", "echo7"}
  BY <1>1 DEF sys_thread_started, ThreadsInv, PlacesFree, StartsOwn
<1>3. /\ thread_pool[i] \in SysThr
      /\ thread_pool[i] = [used |-> TRUE, fn |-> sys[u].kind, task |-> "none"]
  BY <1>2, ThrFields DEF SysTypes
<1>4. /\ sys' = [sys EXCEPT ![u] = IdleCall]
      /\ \/ thread_pool' = [thread_pool EXCEPT ![i].task = thread_pool[i].fn]
         \/ thread_pool' = [thread_pool EXCEPT ![i].used = FALSE]
  BY <1>1 DEF sys_thread_started, Calls
<1>5. /\ \/ thread_pool'[i] = [used |-> TRUE, fn |-> sys[u].kind, task |-> sys[u].kind]
         \/ thread_pool'[i] = [used |-> FALSE, fn |-> sys[u].kind, task |-> "none"]
      /\ \A j \in Thread : j # i => thread_pool'[j] = thread_pool[j]
      /\ DOMAIN thread_pool' = Thread
  BY <1>2, <1>3, <1>4 DEF SysTypes
<1>6. /\ [used |-> TRUE, fn |-> sys[u].kind, task |-> sys[u].kind] \in SysThr
      /\ [used |-> FALSE, fn |-> sys[u].kind, task |-> "none"] \in SysThr
  BY <1>2 DEF SysThr
<1>7. thread_pool' \in [Thread -> SysThr]
  <2>1. thread_pool' = [thread_pool EXCEPT ![i] = thread_pool'[i]]
    BY <1>2, <1>4 DEF SysTypes
  <2>2. thread_pool'[i] \in SysThr
    BY <1>5, <1>6
  <2> QED BY <1>2, <2>1, <2>2 DEF SysTypes
<1>8. \A v \in SysUser : sys'[v].at = "cre" => v # u /\ sys'[v] = sys[v] /\ sys[v].slot # i
  BY <1>1, <1>2, <1>4 DEF SysTypes, IdleCall, Call, ThreadsInv, StartsApart
<1>9. PlacesFree'
  BY <1>5 DEF ThreadsInv, PlacesFree
<1>10. \A v \in SysUser : StartsOwn(v)'
  BY <1>5, <1>8 DEF ThreadsInv, StartsOwn
<1>11. StartsApart'
  BY <1>8 DEF ThreadsInv, StartsApart
<1>12. \A j \in Thread : thread_pool[j].task # "none" => thread_pool'[j].task = thread_pool[j].task
  BY <1>2, <1>5
<1> QED BY <1>4, <1>7, <1>9, <1>10, <1>11, <1>12 DEF ThreadsInv

------------------------------------------------------------------------------
(* The echo service.                                                       *)
EchoTypes ==
  /\ echo \in [at : {"new", "accept", "sleep", "recv", "write", "delete", "close"}, buf : Seq(Nat), err : BOOLEAN]
  /\ got \in Seq(Nat) /\ back \in Seq(Nat) /\ conns \in Int /\ netbufs \in Int /\ clients \in Int

(* What is still to be written follows what was: got is back and buf,      *)
(* until an error.                                                         *)
EchoData ==
  /\ echo.at = "recv" => back = got
  /\ echo.at = "write" => echo.buf /= <<>> /\ got = back \o echo.buf
  /\ echo.at = "delete" /\ ~echo.err => back = got
  /\ echo.at # "delete" => ~echo.err
  /\ \E rest \in Seq(Nat) : got = back \o rest
EchoCounts ==
  /\ netbufs = (IF echo.at \in {"write", "delete"} THEN 1 ELSE 0)
  /\ clients = (IF echo.at \in {"new", "sleep", "accept"} THEN 0 ELSE 1)
EchoStarts ==
  /\ tcpip_ready => Running("tcpip")
  /\ boot \in {"echo", "done"} => tcpip_ready
EchoInv == EchoTypes /\ EchoData /\ EchoCounts /\ EchoStarts

LEMMA PrefixOf ==
  ASSUME NEW s \in Seq(Nat), NEW r \in Seq(Nat) PROVE IsPrefix(s, s \o r)
<1>1. /\ s \o r \in Seq(Nat) /\ Len(s \o r) = Len(s) + Len(r)
      /\ \A i \in 1..Len(s) : (s \o r)[i] = s[i]
  OBVIOUS
<1>2. SubSeq(s, 1, Len(s)) = SubSeq(s \o r, 1, Len(s))
  BY <1>1
<1> QED BY <1>1, <1>2 DEF IsPrefix

LEMMA Regroup == \A s, h, t \in Seq(Nat) : (s \o h) \o t = s \o (h \o t)
<1> TAKE s, h, t \in Seq(Nat)
<1> QED OBVIOUS

LEMMA OneOver ==
  ASSUME NEW s \in Seq(Nat), NEW b \in Seq(Nat), b # <<>>
  PROVE  /\ Tail(b) \in Seq(Nat) /\ Append(s, Head(b)) \in Seq(Nat)
         /\ s \o b = Append(s, Head(b)) \o Tail(b)
         /\ Len(b) > 1 => Tail(b) # <<>>
         /\ ~(Len(b) > 1) => Tail(b) = <<>>
<1>1. Head(b) \in Nat /\ Head(b) = b[1] /\ 1 \in 1..Len(b) /\ Len(b) \in 1..Len(b) /\ Len(b) \in Nat
  OBVIOUS
<1>2. b = <<Head(b)>> \o Tail(b)
  BY <1>1, SubSeqRecursiveFirst, SubSeqFull, TailIsSubSeq
<1>3. Tail(b) \in Seq(Nat) /\ Len(Tail(b)) = Len(b) - 1 /\ <<Head(b)>> \in Seq(Nat)
  BY <1>1, HeadTailProperties
<1>4. s \o b = (s \o <<Head(b)>>) \o Tail(b)
  <2>1. (s \o <<Head(b)>>) \o Tail(b) = s \o (<<Head(b)>> \o Tail(b))
    BY ONLY <1>3, s \in Seq(Nat), Regroup, Zenon
  <2>2. s \o b = s \o (<<Head(b)>> \o Tail(b))
    BY ONLY <1>2, Zenon
  <2> QED BY ONLY <2>1, <2>2, Zenon
<1>5. Append(s, Head(b)) = s \o <<Head(b)>> /\ Append(s, Head(b)) \in Seq(Nat)
  BY <1>1
<1>6. Len(b) > 1 => Tail(b) # <<>>
  <2>1. Len(b) > 1 => Len(Tail(b)) # 0
    BY <1>1, <1>3
  <2> QED BY <2>1
<1>7. ~(Len(b) > 1) => Tail(b) = <<>>
  <2>1. ~(Len(b) > 1) => Len(Tail(b)) = 0
    BY <1>1, <1>3
  <2> QED BY <1>3, <2>1
<1> QED BY <1>3, <1>4, <1>5, <1>6, <1>7

LEMMA EchoIs == ASSUME EchoInv PROVE EchoExact
<1>1. PICK rest \in Seq(Nat) : got = back \o rest
  BY DEF EchoInv, EchoData
<1>2. IsPrefix(back, got)
  BY <1>1, PrefixOf DEF EchoInv, EchoTypes
<1> QED BY <1>2 DEF EchoExact, EchoInv, EchoData, EchoCounts, EchoStarts

LEMMA EchoInit == ASSUME NetInitInit PROVE EchoInv
<1>1. <<>> \in Seq(Nat) /\ (<<>> \o <<>> = <<>>)
  OBVIOUS
<1>2. EchoTypes
  BY <1>1 DEF NetInitInit, EchoTypes
<1>3. EchoData
  BY <1>1 DEF NetInitInit, EchoData
<1>4. EchoCounts /\ EchoStarts
  BY DEF NetInitInit, EchoCounts, EchoStarts
<1> QED BY <1>2, <1>3, <1>4 DEF EchoInv

(* A thread that runs stays, so what was started before the echo service   *)
(* is there while it works.                                                *)
RunsStay == \A i \in Thread : thread_pool[i].task # "none" => thread_pool'[i].task = thread_pool[i].task
LEMMA StillRunning ==
  ASSUME RunsStay, Running("tcpip") PROVE Running("tcpip")'
BY DEF RunsStay, Running

LEMMA EchoKept ==
  ASSUME EchoInv, UNCHANGED bootvars, RunsStay PROVE EchoInv'
BY StillRunning DEF bootvars, echovars, EchoInv, EchoTypes, EchoData, EchoCounts, EchoStarts

LEMMA BootKept ==
  ASSUME EchoInv, Booting, RunsStay PROVE EchoInv'
<1>1. UNCHANGED echovars
  BY DEF Booting, tcpip_init, net_init_wait, net_start_echo, net_thread_started, bootvars
<1>2. EchoTypes' /\ EchoData' /\ EchoCounts'
  BY <1>1 DEF echovars, EchoInv, EchoTypes, EchoData, EchoCounts
<1>3. /\ UNCHANGED tcpip_ready
      /\ boot' \in {"echo", "done"} => tcpip_ready
  BY DEF Booting, tcpip_init, net_init_wait, net_start_echo, net_thread_started, bootvars, EchoInv, EchoStarts
<1>4. EchoStarts'
  BY <1>3, StillRunning DEF EchoInv, EchoStarts
<1> QED BY <1>2, <1>4 DEF EchoInv

LEMMA ReadyKept ==
  ASSUME EchoInv, net_tcpip_init_done PROVE EchoInv' /\ RunsStay
<1>1. /\ UNCHANGED <<thread_pool, boot, echo, got, back, conns, netbufs, clients>> /\ Running("tcpip")
  BY DEF net_tcpip_init_done, sysvars, echovars
<1>2. Running("tcpip")' /\ RunsStay
  BY <1>1 DEF Running, RunsStay
<1>3. tcpip_ready' = TRUE
  BY DEF net_tcpip_init_done
<1> QED BY <1>1, <1>2, <1>3 DEF EchoInv, EchoTypes, EchoData, EchoCounts, EchoStarts

LEMMA EchoFields ==
  ASSUME EchoInv
  PROVE  echo = [at |-> echo.at, buf |-> echo.buf, err |-> echo.err] /\ echo.err \in BOOLEAN
BY DEF EchoInv, EchoTypes

LEMMA EchoStep ==
  ASSUME EchoInv, Echoing PROVE EchoInv' /\ RunsStay
<1>1. UNCHANGED <<thread_pool, boot, tcpip_ready>>
  BY DEF Echoing, echo_listen, echo_accept, echo_recv, echo_write, netbuf_delete, echo_close, sysvars
<1>2. EchoStarts' /\ RunsStay
  BY <1>1 DEF EchoInv, EchoStarts, Running, RunsStay
<1>4. <<>> \in Seq(Nat) /\ (<<>> \o <<>> = <<>>)
  OBVIOUS
<1>5. CASE echo_listen
  <2>1. PICK at \in {"accept", "sleep"} : echo' = [at |-> at, buf |-> echo.buf, err |-> echo.err]
    BY <1>5 DEF echo_listen, EchoGoes, EchoTo
  <2>2. echo.at = "new" /\ UNCHANGED <<got, back, conns, netbufs, clients>>
    BY <1>5 DEF echo_listen, EchoAt
  <2>3. EchoTypes' /\ EchoCounts'
    BY <2>1, <2>2 DEF EchoInv, EchoTypes, EchoCounts
  <2>4. EchoData'
    BY <2>1, <2>2 DEF EchoInv, EchoData
  <2> QED BY <1>2, <2>3, <2>4 DEF EchoInv
<1>6. CASE echo_accept
  <2>1. echo.at = "accept" /\ UNCHANGED netbufs /\ conns' = conns + 1
    BY <1>6 DEF echo_accept, EchoAt
  <2>2. CASE UNCHANGED <<echo, got, back, clients>>
    <3>1. EchoTypes' /\ EchoCounts'
      BY <2>1, <2>2 DEF EchoInv, EchoTypes, EchoCounts
    <3>2. EchoData'
      BY <2>1, <2>2 DEF EchoInv, EchoData
    <3> QED BY <1>2, <3>1, <3>2 DEF EchoInv
  <2>3. CASE EchoGoes("recv") /\ got' = <<>> /\ back' = <<>> /\ clients' = clients + 1
    <3>1. echo' = [at |-> "recv", buf |-> echo.buf, err |-> echo.err]
      BY <2>3 DEF EchoGoes, EchoTo
    <3>2. EchoTypes' /\ EchoCounts'
      BY <1>4, <2>1, <2>3, <3>1 DEF EchoInv, EchoTypes, EchoCounts
    <3>3. EchoData'
      BY <1>4, <2>1, <2>3, <3>1 DEF EchoInv, EchoData
    <3> QED BY <1>2, <3>2, <3>3 DEF EchoInv
  <2> QED BY <1>6, <2>2, <2>3 DEF echo_accept
<1>7. CASE echo_recv
  <2>1. echo.at = "recv" /\ UNCHANGED <<back, conns, clients>>
    BY <1>7 DEF echo_recv, EchoAt
  <2>2. ASSUME NEW n \in 1..2, NEW pieces, pieces = [i \in 1..n |-> Len(got) + i],
               got' = got \o pieces, netbufs' = netbufs + 1,
               EchoTo("write", pieces, echo.err)
        PROVE  EchoTypes' /\ EchoData' /\ EchoCounts'
    <3>6. Len(got) \in Nat /\ \A i \in 1..n : Len(got) + i \in Nat
      BY DEF EchoInv, EchoTypes
    <3>7. pieces \in [1..n -> Nat] /\ n \in Nat /\ n > 0
      BY <2>2, <3>6
    <3>1. pieces \in Seq(Nat) /\ Len(pieces) = n /\ pieces # <<>>
      BY <3>7
    <3>2. echo' = [at |-> "write", buf |-> pieces, err |-> echo.err]
      BY <2>2 DEF EchoTo
    <3>8. back = got /\ got \in Seq(Nat)
      BY <2>1 DEF EchoInv, EchoData, EchoTypes
    <3>9. got \o pieces \in Seq(Nat)
      BY <3>1, <3>8
    <3>3. got' = back' \o pieces /\ got' \in Seq(Nat)
      BY <2>1, <2>2, <3>8, <3>9
    <3>4. EchoTypes' /\ EchoCounts'
      BY <2>1, <2>2, <3>1, <3>2, <3>3 DEF EchoInv, EchoTypes, EchoCounts
    <3>5. EchoData'
      BY <2>1, <3>1, <3>2, <3>3 DEF EchoInv, EchoData
    <3> QED BY <3>4, <3>5
  <2>3. CASE EchoGoes("close") /\ UNCHANGED <<got, netbufs>>
    <3>1. echo' = [at |-> "close", buf |-> echo.buf, err |-> echo.err]
      BY <2>3 DEF EchoGoes, EchoTo
    <3>2. EchoTypes' /\ EchoCounts'
      BY <2>1, <2>3, <3>1 DEF EchoInv, EchoTypes, EchoCounts
    <3>3. EchoData'
      BY <2>1, <2>3, <3>1 DEF EchoInv, EchoData
    <3> QED BY <1>2, <3>2, <3>3 DEF EchoInv
  <2> QED BY <1>2, <1>7, <2>2, <2>3 DEF echo_recv, EchoInv
<1>8. CASE echo_write
  <2>1. /\ echo.at = "write" /\ UNCHANGED <<got, conns, netbufs, clients>>
        /\ echo.buf \in Seq(Nat) /\ echo.buf # <<>> /\ got = back \o echo.buf
        /\ back \in Seq(Nat) /\ ~echo.err
    BY <1>8 DEF echo_write, EchoAt, EchoInv, EchoData, EchoTypes
  <2>2. CASE /\ back' = Append(back, Head(echo.buf))
             /\ EchoTo(IF Len(echo.buf) > 1 THEN "write" ELSE "delete", Tail(echo.buf), FALSE)
    <3>1. PICK at \in {"write", "delete"} :
            /\ at = (IF Len(echo.buf) > 1 THEN "write" ELSE "delete")
            /\ echo' = [at |-> at, buf |-> Tail(echo.buf), err |-> FALSE]
      BY <2>2 DEF EchoTo
    <3>2. PICK b \in Seq(Nat) : b = echo.buf
      BY <2>1
    <3>3. /\ Tail(b) \in Seq(Nat) /\ back' \in Seq(Nat) /\ back \o b = back' \o Tail(b)
          /\ Len(b) > 1 => Tail(b) # <<>>
          /\ ~(Len(b) > 1) => Tail(b) = <<>>
      BY <2>1, <2>2, <3>2, OneOver
    <3>4. back' \o <<>> = back'
      BY <3>3
    <3>5. EchoTypes' /\ EchoCounts'
      BY <2>1, <3>1, <3>2, <3>3 DEF EchoInv, EchoTypes, EchoCounts
    <3>6. EchoData'
      BY <2>1, <3>1, <3>2, <3>3, <3>4 DEF EchoInv, EchoData
    <3> QED BY <1>2, <3>5, <3>6 DEF EchoInv
  <2>3. CASE EchoTo("delete", echo.buf, TRUE) /\ UNCHANGED back
    <3>1. echo' = [at |-> "delete", buf |-> echo.buf, err |-> TRUE]
      BY <2>3 DEF EchoTo
    <3>2. EchoTypes' /\ EchoCounts'
      BY <2>1, <2>3, <3>1 DEF EchoInv, EchoTypes, EchoCounts
    <3>3. EchoData'
      BY <2>1, <2>3, <3>1 DEF EchoInv, EchoData
    <3> QED BY <1>2, <3>2, <3>3 DEF EchoInv
  <2> QED BY <1>8, <2>2, <2>3 DEF echo_write
<1>9. CASE netbuf_delete
  <2>1. /\ echo.at = "delete" /\ UNCHANGED <<got, back, conns, clients>> /\ netbufs' = netbufs - 1
        /\ echo' = [at |-> IF echo.err THEN "close" ELSE "recv", buf |-> <<>>, err |-> FALSE]
    BY <1>9 DEF netbuf_delete, EchoAt, EchoTo
  <2>2. EchoTypes' /\ EchoCounts'
    BY <1>4, <2>1 DEF EchoInv, EchoTypes, EchoCounts
  <2>3. EchoData'
    BY <2>1 DEF EchoInv, EchoData
  <2> QED BY <1>2, <2>2, <2>3 DEF EchoInv
<1>10. CASE echo_close
  <2>1. echo' = [at |-> "accept", buf |-> echo.buf, err |-> echo.err]
    BY <1>10 DEF echo_close, EchoGoes, EchoTo
  <2>2. echo.at = "close" /\ UNCHANGED <<got, back, conns, netbufs>> /\ clients' = clients - 1
    BY <1>10 DEF echo_close, EchoAt
  <2>3. EchoTypes' /\ EchoCounts'
    BY <2>1, <2>2 DEF EchoInv, EchoTypes, EchoCounts
  <2>4. EchoData'
    BY <2>1, <2>2 DEF EchoInv, EchoData
  <2> QED BY <1>2, <2>3, <2>4 DEF EchoInv
<1> QED BY <1>5, <1>6, <1>7, <1>8, <1>9, <1>10 DEF Echoing

------------------------------------------------------------------------------
(* The pool of semaphores.                                                 *)
CallOK(u) ==
  LET c == sys[u]
  IN  /\ c.at \in {"idle", "cre"} => c.got = <<>>
      /\ c.at \in {"search", "mark", "made"} => c.kind \in SysKind /\ c.want = Counts(c.kind)
      /\ c.at \in {"search", "mark"} => Len(c.got) < Len(c.want)
      /\ c.at = "made" => c.got # <<>>
      /\ c.at = "mark" =>
           /\ c.slot \in Slot /\ sem_pool[c.slot].free
           /\ sem_pool[c.slot].count = c.want[Len(c.got) + 1]
ObjectsOK == \A u \in SysUser : \A n \in 1..Len(objs[u]) : objs[u][n].sems # <<>>
OneMark == \A u, v \in SysUser : sys[u].at = "mark" /\ sys[v].at = "mark" => u = v
PoolsInv ==
  /\ SysTypes /\ ThreadsInv /\ (\A u \in SysUser : CallOK(u)) /\ ObjectsOK
  /\ SlotsExact /\ OneMark

LEMMA PoolsAre == ASSUME PoolsInv PROVE PoolsExact
<1>1. FreshCount
  BY DEF PoolsInv, CallOK, FreshCount
<1>2. ThreadsOwn
  BY DEF PoolsInv, ThreadsInv, StartsOwn, ThreadsOwn
<1> QED BY <1>1, <1>2 DEF PoolsInv, PoolsExact

LEMMA SemFields ==
  ASSUME NEW r \in SysSem
  PROVE  /\ r = [created |-> r.created, free |-> r.free, count |-> r.count]
         /\ r.created \in BOOLEAN /\ r.free \in BOOLEAN /\ r.count \in Nat
BY DEF SysSem

LEMMA ObjectFields ==
  ASSUME SysTypes, NEW u \in SysUser, NEW n \in 1..Len(objs[u])
  PROVE  /\ objs[u] \in Seq(SysObj) /\ objs[u][n] \in SysObj
         /\ objs[u][n].kind \in SysKind /\ objs[u][n].sems \in Seq(Slot)
<1>1. objs[u] \in Seq(SysObj)
  BY DEF SysTypes
<1>2. objs[u][n] \in SysObj
  BY <1>1, ElementOfSeq
<1> QED BY <1>1, <1>2 DEF SysObj

LEMMA SemsTyped ==
  ASSUME SysTypes, NEW u \in SysUser, NEW n \in Places(u)
  PROVE  Sems(u, n) \in Seq(Slot \union {0})
<1>1. CASE n = 0
  BY <1>1, CallFields DEF SysTypes, Sems
<1>2. CASE n # 0
  <2>1. objs[u] \in Seq(SysObj)
    BY DEF SysTypes
  <2>2. n \in 1..Len(objs[u])
    BY <1>2, <2>1 DEF Places
  <2>3. objs[u][n].sems \in Seq(Slot)
    BY <2>2, ObjectFields
  <2> QED BY <1>2, <2>3 DEF Sems
<1> QED BY <1>1, <1>2

(* A step of a call, which leaves the objects alone.                       *)
LEMMA SemsOfCall ==
  ASSUME SysTypes, NEW u \in SysUser, NEW c, sys' = [sys EXCEPT ![u] = c], UNCHANGED objs
  PROVE  \A v \in SysUser :
           /\ Places(v)' = Places(v)
           /\ \A m : Sems(v, m)' = IF v = u /\ m = 0 THEN c.got ELSE Sems(v, m)
<1> TAKE v \in SysUser
<1>1. sys'[v] = IF v = u THEN c ELSE sys[v]
  BY DEF SysTypes
<1> QED BY <1>1 DEF Places, Sems

LEMMA SameHeld ==
  ASSUME SysTypes, Taken = {s \in Slot : Held(s)}, HeldOnce, Taken' = Taken,
         \A v \in SysUser : Places(v)' = Places(v) /\ \A m \in Places(v) : Sems(v, m)' = Sems(v, m)
  PROVE  Taken' = {s \in Slot : Held(s)'} /\ HeldOnce'
<1>1. \A s : Held(s)' <=> Held(s)
  BY DEF Held
<1>2. HeldOnce'
  BY DEF HeldOnce
<1> QED BY <1>1, <1>2

(* One more semaphore for a call, or none.                                 *)
LEMMA JoinsHeld ==
  ASSUME SysTypes, Taken = {s \in Slot : Held(s)}, HeldOnce,
         NEW u \in SysUser, NEW c, sys' = [sys EXCEPT ![u] = c], UNCHANGED objs,
         NEW x \in Slot \union {0}, c.got = Append(sys[u].got, x), x \notin Taken,
         Taken' = Taken \union ({x} \ {0})
  PROVE  Taken' = {s \in Slot : Held(s)'} /\ HeldOnce'
<1> DEFINE g == sys[u].got
           l == Len(g) + 1
<1>1. /\ g \in Seq(Slot \union {0}) /\ DOMAIN g = 1..Len(g) /\ DOMAIN c.got = 1..l /\ Len(g) \in Nat
      /\ c.got[l] = x /\ \A i \in 1..Len(g) : c.got[i] = g[i]
  <2>1. g \in Seq(Slot \union {0})
    BY CallFields DEF SysTypes
  <2> HIDE DEF g
  <2> QED BY <2>1 DEF g
<1>2. /\ Sems(u, 0) = g /\ Sems(u, 0)' = c.got /\ 0 \in Places(u)
      /\ \A v \in SysUser : Places(v)' = Places(v)
      /\ \A v \in SysUser : \A m \in Places(v) : ~(v = u /\ m = 0) => Sems(v, m)' = Sems(v, m)
  <2>1. Len(objs[u]) \in Nat
    BY DEF SysTypes
  <2>2. Sems(u, 0) = g /\ 0 \in Places(u)
    BY <2>1 DEF Sems, Places
  <2>3. \A v \in SysUser :
           /\ Places(v)' = Places(v)
           /\ \A m : Sems(v, m)' = IF v = u /\ m = 0 THEN c.got ELSE Sems(v, m)
    BY SemsOfCall
  <2> QED BY <2>2, <2>3
<1>3. 0 \notin Slot
  BY DEF Slot
<1> HIDE DEF g
<1>4. ToSet(c.got) = ToSet(g) \union {x}
  <2>1. l \in 1..l /\ \A i \in 1..l : i \in 1..Len(g) \/ i = l
    BY <1>1
  <2>2. 1..Len(g) \subseteq 1..l
    BY <1>1
  <2> QED BY <1>1, <2>1, <2>2 DEF ToSet
<1>5. \A s \in Slot : Held(s)' <=> (Held(s) \/ s = x)
  <2> TAKE s \in Slot
  <2>1. ASSUME Held(s)' PROVE Held(s) \/ s = x
    <3>4. PICK v \in SysUser : \E m \in Places(v) : s \in ToSet(Sems(v, m)')
      BY <1>2, <2>1 DEF Held
    <3>1. PICK m \in Places(v) : s \in ToSet(Sems(v, m)')
      BY <3>4
    <3>2. CASE v = u /\ m = 0
      BY <1>2, <1>4, <3>1, <3>2 DEF Held
    <3>3. CASE ~(v = u /\ m = 0)
      BY <1>2, <3>1, <3>3 DEF Held
    <3> QED BY <3>2, <3>3
  <2>2. ASSUME Held(s) PROVE Held(s)'
    <3>4. PICK v \in SysUser : \E m \in Places(v) : s \in ToSet(Sems(v, m))
      BY <2>2 DEF Held
    <3>1. PICK m \in Places(v) : s \in ToSet(Sems(v, m))
      BY <3>4
    <3>2. s \in ToSet(Sems(v, m)')
      BY <1>2, <1>4, <3>1
    <3> QED BY <1>2, <3>1, <3>2 DEF Held
  <2>3. ASSUME s = x PROVE Held(s)'
    <3>1. s \in ToSet(Sems(u, 0)') /\ 0 \in Places(u)'
      BY <1>2, <1>4, <2>3
    <3> QED BY <3>1 DEF Held
  <2> QED BY <2>1, <2>2, <2>3
<1>6. Taken' = {s \in Slot : Held(s)'}
  BY <1>3, <1>5
<1>7. x # 0 => ~Held(x)
  BY <1>3
<1>8. ASSUME NEW v \in SysUser, NEW w \in SysUser, NEW n \in Places(v), NEW m \in Places(w),
             NEW i \in DOMAIN Sems(v, n)', NEW j \in DOMAIN Sems(w, m)',
             Sems(v, n)'[i] = Sems(w, m)'[j], Sems(v, n)'[i] # 0
      PROVE  v = w /\ n = m /\ i = j
  <2>1. \A y \in SysUser : \A o \in Places(y) : \A h \in DOMAIN Sems(y, o)' :
           \/ h \in DOMAIN Sems(y, o) /\ Sems(y, o)'[h] = Sems(y, o)[h]
           \/ y = u /\ o = 0 /\ h = l /\ Sems(y, o)'[h] = x
    BY <1>1, <1>2
  <2>2. \A y \in SysUser : \A o \in Places(y) : \A h \in DOMAIN Sems(y, o) : Sems(y, o)[h] = x => x = 0
    BY <1>7 DEF Held, ToSet
  <2>3. CASE /\ i \in DOMAIN Sems(v, n) /\ Sems(v, n)'[i] = Sems(v, n)[i]
             /\ j \in DOMAIN Sems(w, m) /\ Sems(w, m)'[j] = Sems(w, m)[j]
    <3>1. Sems(v, n)[i] = Sems(w, m)[j] /\ Sems(v, n)[i] # 0
      BY <1>8, <2>3
    <3> QED BY <2>3, <3>1 DEF HeldOnce
  <2>4. CASE v = u /\ n = 0 /\ i = l /\ w = u /\ m = 0 /\ j = l
    BY <2>4
  <2> QED BY <1>8, <2>1, <2>2, <2>3, <2>4
<1>9. HeldOnce'
  BY <1>2, <1>8 DEF HeldOnce
<1> QED BY <1>6, <1>9

(* Semaphores go from one place to another: f tells where each was.        *)
LEMMA MovesHeld ==
  ASSUME HeldOnce, NEW f,
         \A v \in SysUser : \A m \in Places(v)' :
           Sems(v, m)' = <<>> \/ (f[v][m] \in Places(v) /\ Sems(v, m)' = Sems(v, f[v][m])),
         \A v \in SysUser : \A m, n \in Places(v)' :
           Sems(v, m)' # <<>> /\ Sems(v, n)' # <<>> /\ f[v][m] = f[v][n] => m = n
  PROVE  HeldOnce'
<1>1. ASSUME NEW v \in SysUser, NEW w \in SysUser, NEW n \in Places(v)', NEW m \in Places(w)',
             NEW i \in DOMAIN Sems(v, n)', NEW j \in DOMAIN Sems(w, m)',
             Sems(v, n)'[i] = Sems(w, m)'[j], Sems(v, n)'[i] # 0
      PROVE  v = w /\ n = m /\ i = j
  <2>1. Sems(v, n)' # <<>> /\ Sems(w, m)' # <<>>
    OBVIOUS
  <2>2. /\ f[v][n] \in Places(v) /\ Sems(v, n)' = Sems(v, f[v][n])
        /\ f[w][m] \in Places(w) /\ Sems(w, m)' = Sems(w, f[w][m])
    BY <2>1
  <2>3. v = w /\ f[v][n] = f[w][m] /\ i = j
    BY <1>1, <2>2 DEF HeldOnce
  <2> QED BY <2>1, <2>3
<1> QED BY <1>1 DEF HeldOnce

(* A place is emptied, and its semaphores are free again.                  *)
LeftFrom(f, u, o) ==
  \A v \in SysUser : \A m \in Places(v)' :
    Sems(v, m)' = <<>> \/ (f[v][m] \in Places(v) /\ Sems(v, m)' = Sems(v, f[v][m])
                             /\ ~(v = u /\ f[v][m] = o))
LeftApart(f) ==
  \A v \in SysUser : \A m, n \in Places(v)' :
    Sems(v, m)' # <<>> /\ Sems(v, n)' # <<>> /\ f[v][m] = f[v][n] => m = n
LeftAll(u, o) ==
  \A v \in SysUser : \A n \in Places(v) :
    (v = u /\ n = o) \/ \E m \in Places(v)' : Sems(v, m)' = Sems(v, n)

LEMMA LeavesHeld ==
  ASSUME SysTypes, Taken = {s \in Slot : Held(s)}, HeldOnce, NEW f,
         NEW u \in SysUser, NEW o \in Places(u), Taken' = Taken \ ToSet(Sems(u, o)),
         LeftFrom(f, u, o), LeftApart(f), LeftAll(u, o)
  PROVE  Taken' = {s \in Slot : Held(s)'} /\ HeldOnce'
<1>0. /\ \A v \in SysUser : \A m \in Places(v)' :
           Sems(v, m)' = <<>> \/ (f[v][m] \in Places(v) /\ Sems(v, m)' = Sems(v, f[v][m])
                                    /\ ~(v = u /\ f[v][m] = o))
      /\ \A v \in SysUser : \A m, n \in Places(v)' :
           Sems(v, m)' # <<>> /\ Sems(v, n)' # <<>> /\ f[v][m] = f[v][n] => m = n
      /\ \A v \in SysUser : \A n \in Places(v) :
           (v = u /\ n = o) \/ \E m \in Places(v)' : Sems(v, m)' = Sems(v, n)
  BY DEF LeftFrom, LeftApart, LeftAll
<1>1. HeldOnce'
  BY <1>0, MovesHeld
<1>2. 0 \notin Slot
  BY DEF Slot
<1>3. \A s \in Slot : Held(s)' <=> (Held(s) /\ s \notin ToSet(Sems(u, o)))
  <2> TAKE s \in Slot
  <2>1. ASSUME Held(s)' PROVE Held(s) /\ s \notin ToSet(Sems(u, o))
    <3>1. PICK v \in SysUser : \E m \in Places(v)' : s \in ToSet(Sems(v, m)')
      BY <2>1 DEF Held
    <3>2. PICK m \in Places(v)' : s \in ToSet(Sems(v, m)')
      BY <3>1
    <3>3. Sems(v, m)' # <<>>
      BY <3>2 DEF ToSet
    <3>4. PICK n \in Places(v) : Sems(v, m)' = Sems(v, n) /\ ~(v = u /\ n = o)
      BY <1>0, <3>3
    <3>5. s \in ToSet(Sems(v, n))
      BY <3>2, <3>4
    <3>6. Held(s)
      BY <3>5 DEF Held
    <3>7. s \notin ToSet(Sems(u, o))
      <4>1. SUFFICES ASSUME s \in ToSet(Sems(u, o)) PROVE FALSE
        OBVIOUS
      <4>2. PICK i \in DOMAIN Sems(v, n) : Sems(v, n)[i] = s
        BY <3>5 DEF ToSet
      <4>3. PICK j \in DOMAIN Sems(u, o) : Sems(u, o)[j] = s
        BY <4>1 DEF ToSet
      <4> QED BY <1>2, <3>4, <4>2, <4>3 DEF HeldOnce
    <3> QED BY <3>6, <3>7
  <2>2. ASSUME Held(s), s \notin ToSet(Sems(u, o)) PROVE Held(s)'
    <3>1. PICK v \in SysUser : \E m \in Places(v) : s \in ToSet(Sems(v, m))
      BY <2>2 DEF Held
    <3>2. PICK n \in Places(v) : s \in ToSet(Sems(v, n))
      BY <3>1
    <3>3. ~(v = u /\ n = o)
      BY <2>2, <3>2
    <3>4. PICK m \in Places(v)' : Sems(v, m)' = Sems(v, n)
      BY <1>0, <3>3
    <3>5. s \in ToSet(Sems(v, m)')
      BY <3>2, <3>4
    <3> QED BY <3>5 DEF Held
  <2> QED BY <2>1, <2>2
<1> QED BY <1>1, <1>3

(* What sem_drain and sem_release_to_pool do.                              *)
LEMMA Drained ==
  ASSUME NEW x \in SysSem
  PROVE  /\ sem_back(x) = [created |-> x.created, free |-> TRUE, count |-> 0]
         /\ \A n \in Nat : sem_given(x, n) = [created |-> TRUE, free |-> x.free, count |-> n]
<1>1. sem_drain(x) = [created |-> x.created, free |-> x.free, count |-> 0]
  BY SemFields DEF sem_drain
<1>2. 0 \in Nat /\ \A n \in Nat : 0 + n = n
  OBVIOUS
<1> QED BY <1>1, <1>2 DEF sem_back, sem_given

LEMMA Released ==
  ASSUME SysTypes, NEW s, sem_pool' = sem_release_to_pool(sem_pool, s)
  PROVE  /\ sem_pool' \in [Slot -> SysSem] /\ Taken' = Taken \ ToSet(s)
         /\ \A i \in Slot : i \notin ToSet(s) => sem_pool'[i] = sem_pool[i]
<1>1. \A i \in Slot : sem_pool'[i] = IF i \in ToSet(s) THEN sem_back(sem_pool[i]) ELSE sem_pool[i]
  BY DEF sem_release_to_pool
<1>2. \A i \in Slot : sem_pool[i].created \in BOOLEAN /\ sem_pool[i] \in SysSem
  BY SemFields DEF SysTypes
<1>3. \A i \in Slot : sem_back(sem_pool[i]) = [created |-> sem_pool[i].created, free |-> TRUE, count |-> 0]
  BY <1>2, Drained
<1>4. \A i \in Slot : sem_back(sem_pool[i]) \in SysSem /\ sem_back(sem_pool[i]).free = TRUE
  <2>1. \A b \in BOOLEAN : [created |-> b, free |-> TRUE, count |-> 0] \in SysSem
    BY DEF SysSem
  <2>2. \A i \in Slot : sem_back(sem_pool[i]) \in SysSem
    BY <1>2, <1>3, <2>1
  <2>3. ASSUME NEW i \in Slot PROVE sem_back(sem_pool[i]).free = TRUE
    <3>1. PICK b : b = sem_pool[i].created
      OBVIOUS
    <3>2. sem_back(sem_pool[i]) = [created |-> b, free |-> TRUE, count |-> 0]
      BY <1>3, <3>1
    <3> QED BY ONLY <3>2
  <2> QED BY <2>2, <2>3
<1>5. sem_pool' \in [Slot -> SysSem]
  <2>1. \A i \in Slot : (IF i \in ToSet(s) THEN sem_back(sem_pool[i]) ELSE sem_pool[i]) \in SysSem
    BY <1>2, <1>4
  <2> QED BY <2>1 DEF sem_release_to_pool
<1>6. Taken' = Taken \ ToSet(s)
  BY <1>1, <1>4 DEF Taken
<1> QED BY <1>1, <1>5, <1>6

(* How many semaphores a sequence holds.                                   *)
LEMMA Counted ==
  ASSUME NEW s \in Seq(Slot \union {0}),
         \A i, j \in DOMAIN s : s[i] = s[j] /\ s[i] # 0 => i = j
  PROVE  /\ IsFiniteSet(ToSet(s) \ {0}) /\ Made(s) = Cardinality(ToSet(s) \ {0})
         /\ 0 \notin ToSet(s) => Made(s) = Len(s)
<1> DEFINE D == {i \in DOMAIN s : s[i] # 0}
           f == [i \in D |-> s[i]]
<1>1. DOMAIN s = 1..Len(s) /\ Len(s) \in Nat
  OBVIOUS
<1>2. IsFiniteSet(1..Len(s)) /\ Cardinality(1..Len(s)) = Len(s)
  BY <1>1, FS_Interval
<1>3. IsFiniteSet(D)
  BY <1>1, <1>2, FS_Subset
<1>4. f \in Bijection(D, ToSet(s) \ {0})
  <2>1. f \in [D -> ToSet(s) \ {0}]
    BY DEF ToSet
  <2>2. \A a, b \in D : f[a] = f[b] => a = b
    OBVIOUS
  <2>3. \A t \in ToSet(s) \ {0} : \E a \in D : f[a] = t
    BY DEF ToSet
  <2> HIDE DEF f, D
  <2> QED BY <2>1, <2>2, <2>3 DEF Bijection, Injection, Surjection, IsInjective
<1>5. ExistsBijection(D, ToSet(s) \ {0})
  BY <1>4 DEF ExistsBijection
<1>6. IsFiniteSet(ToSet(s) \ {0}) /\ Cardinality(ToSet(s) \ {0}) = Cardinality(D)
  BY <1>3, <1>5, FS_Bijection
<1>7. 0 \notin ToSet(s) => D = 1..Len(s)
  BY <1>1 DEF ToSet
<1> QED BY <1>2, <1>6, <1>7 DEF Made

(* What the heap holds.                                                    *)
LEMMA KindsAre ==
  /\ Blocks("sem") = 0 /\ Blocks("mutex") = 1 /\ Blocks("mbox") = 2
  /\ \A kind \in SysKind : Counts(kind) \in Seq(Nat) /\ Len(Counts(kind)) \in {1, 2}
<1>1. Blocks("sem") = 0 /\ Blocks("mutex") = 1 /\ Blocks("mbox") = 2
  BY DEF Blocks
<1>2. Counts("sem") = <<0>> /\ Counts("mutex") = <<1>> /\ Counts("mbox") = <<0, 0>>
  BY DEF Counts
<1>3. /\ <<0>> \in Seq(Nat) /\ Len(<<0>>) = 1 /\ <<1>> \in Seq(Nat) /\ Len(<<1>>) = 1
      /\ <<0, 0>> \in Seq(Nat) /\ Len(<<0, 0>>) = 2
  OBVIOUS
<1> QED BY <1>1, <1>2, <1>3 DEF SysKind

LEMMA FiniteParts ==
  /\ IsFiniteSet(Taken) /\ Cardinality(Taken) \in Nat /\ Cardinality(Taken)' \in Nat
  /\ \A kind : /\ IsFiniteSet(Making(kind)) /\ Cardinality(Making(kind)) \in Nat /\ Cardinality(Making(kind))' \in Nat
               /\ IsFiniteSet(Firsts(kind)) /\ Cardinality(Firsts(kind)) \in Nat /\ Cardinality(Firsts(kind))' \in Nat
<1>1. IsFiniteSet(Slot) /\ IsFiniteSet(SysUser)
  BY FS_Interval, SysAssumption DEF Slot
<1>2. Taken \subseteq Slot /\ \A kind : Making(kind) \subseteq SysUser /\ Firsts(kind) \subseteq Slot
  BY DEF Taken, Making, Firsts
<1>3. Taken' \subseteq Slot /\ \A kind : Making(kind)' \subseteq SysUser /\ Firsts(kind)' \subseteq Slot
  BY DEF Taken, Making, Firsts
<1> QED BY <1>1, <1>2, <1>3, FS_Subset, FS_CardinalityType

LEMMA AddOne ==
  ASSUME NEW S, IsFiniteSet(S), NEW x, x \notin S
  PROVE  Cardinality(S \union {x}) = Cardinality(S) + 1
BY FS_AddElement

LEMMA DropOne ==
  ASSUME NEW S, IsFiniteSet(S), NEW x \in S
  PROVE  Cardinality(S \ {x}) = Cardinality(S) - 1
BY FS_RemoveElement

HeapHas ==
  Cardinality(Taken) + Cardinality(Firsts("mutex")) + Cardinality(Making("mutex"))
    + 2 * Cardinality(Firsts("mbox")) + 2 * Cardinality(Making("mbox"))
LEMMA HeapIs ==
  /\ SlotsExact <=> (Taken = {s \in Slot : Held(s)} /\ HeldOnce /\ heap = HeapHas)
  /\ SlotsExact' <=> (Taken' = {s \in Slot : Held(s)'} /\ HeldOnce' /\ heap' = HeapHas')
  /\ HeapHas \in Nat /\ HeapHas' \in Nat
<1>1. \A a, b, c, d, e \in Nat : /\ a + 1 * (b + c) + 2 * (d + e) = a + b + c + 2 * d + 2 * e
                                /\ a + b + c + 2 * d + 2 * e \in Nat
  OBVIOUS
<1>2. HeapHas = Cardinality(Taken) + InHeap("mutex") + InHeap("mbox") /\ HeapHas \in Nat
  <2>1. PICK a \in Nat : a = Cardinality(Taken)
    BY FiniteParts
  <2>2. PICK b \in Nat : b = Cardinality(Firsts("mutex"))
    BY FiniteParts
  <2>3. PICK c \in Nat : c = Cardinality(Making("mutex"))
    BY FiniteParts
  <2>4. PICK d \in Nat : d = Cardinality(Firsts("mbox"))
    BY FiniteParts
  <2>5. PICK e \in Nat : e = Cardinality(Making("mbox"))
    BY FiniteParts
  <2>6. InHeap("mutex") = 1 * (b + c) /\ InHeap("mbox") = 2 * (d + e)
    BY <2>2, <2>3, <2>4, <2>5, KindsAre, Zenon DEF InHeap
  <2>7. HeapHas = a + b + c + 2 * d + 2 * e
    BY <2>1, <2>2, <2>3, <2>4, <2>5, Zenon DEF HeapHas
  <2>8. a + 1 * (b + c) + 2 * (d + e) = a + b + c + 2 * d + 2 * e /\ a + b + c + 2 * d + 2 * e \in Nat
    BY ONLY <1>1, a \in Nat, b \in Nat, c \in Nat, d \in Nat, e \in Nat, Zenon
  <2>9. HeapHas = Cardinality(Taken) + 1 * (b + c) + 2 * (d + e)
    BY ONLY <2>1, <2>7, <2>8, Zenon
  <2>10. HeapHas \in Nat
    BY ONLY <2>7, <2>8, Zenon
  <2>11. HeapHas = Cardinality(Taken) + InHeap("mutex") + InHeap("mbox")
    BY ONLY <2>6, <2>9, Zenon
  <2> QED BY ONLY <2>10, <2>11, Zenon
<1>4. HeapHas' = Cardinality(Taken)' + InHeap("mutex")' + InHeap("mbox")' /\ HeapHas' \in Nat
  <2>1. PICK a \in Nat : a = Cardinality(Taken)'
    BY FiniteParts
  <2>2. PICK b \in Nat : b = Cardinality(Firsts("mutex"))'
    BY FiniteParts
  <2>3. PICK c \in Nat : c = Cardinality(Making("mutex"))'
    BY FiniteParts
  <2>4. PICK d \in Nat : d = Cardinality(Firsts("mbox"))'
    BY FiniteParts
  <2>5. PICK e \in Nat : e = Cardinality(Making("mbox"))'
    BY FiniteParts
  <2>6. InHeap("mutex")' = 1 * (b + c) /\ InHeap("mbox")' = 2 * (d + e)
    <3>1. InHeap("mutex")' = Blocks("mutex") * (Cardinality(Firsts("mutex"))' + Cardinality(Making("mutex"))')
      BY Zenon DEF InHeap
    <3>2. InHeap("mbox")' = Blocks("mbox") * (Cardinality(Firsts("mbox"))' + Cardinality(Making("mbox"))')
      BY Zenon DEF InHeap
    <3> QED BY <2>2, <2>3, <2>4, <2>5, <3>1, <3>2, KindsAre, Zenon
  <2>7. HeapHas' = a + b + c + 2 * d + 2 * e
    BY <2>1, <2>2, <2>3, <2>4, <2>5, Zenon DEF HeapHas
  <2>8. a + 1 * (b + c) + 2 * (d + e) = a + b + c + 2 * d + 2 * e /\ a + b + c + 2 * d + 2 * e \in Nat
    BY ONLY <1>1, a \in Nat, b \in Nat, c \in Nat, d \in Nat, e \in Nat, Zenon
  <2>9. HeapHas' = Cardinality(Taken)' + 1 * (b + c) + 2 * (d + e)
    BY ONLY <2>1, <2>7, <2>8, Zenon
  <2>10. HeapHas' \in Nat
    BY ONLY <2>7, <2>8, Zenon
  <2>11. HeapHas' = Cardinality(Taken)' + InHeap("mutex")' + InHeap("mbox")'
    BY ONLY <2>6, <2>9, Zenon
  <2> QED BY ONLY <2>10, <2>11, Zenon
<1> QED BY <1>2, <1>4, Zenon DEF SlotsExact

InCall == {"search", "mark", "made"}
LEMMA MakingIs ==
  ASSUME SysTypes, NEW u \in SysUser, NEW c, sys' = [sys EXCEPT ![u] = c], NEW kind
  PROVE  Making(kind)' = IF c.at \in InCall /\ c.kind = kind THEN Making(kind) \union {u} ELSE Making(kind) \ {u}
<1>1. \A v \in SysUser : sys'[v] = IF v = u THEN c ELSE sys[v]
  BY DEF SysTypes
<1> QED BY <1>1 DEF Making, InCall

LEMMA FirstsKept == ASSUME UNCHANGED objs, NEW kind PROVE Firsts(kind)' = Firsts(kind)
BY DEF Firsts

LEMMA TakenKept ==
  ASSUME UNCHANGED sem_pool PROVE Taken' = Taken
BY DEF Taken

(* A step of a call changes one call, and perhaps the pool and the heap.   *)
LEMMA CallStep ==
  ASSUME PoolsInv, NEW u \in SysUser, NEW c \in SysCall, sys' = [sys EXCEPT ![u] = c],
         UNCHANGED <<objs, thread_pool>>, sem_pool' \in [Slot -> SysSem], heap' \in Int, c.at # "cre",
         CallOK(u)', SlotsExact',
         \A v \in SysUser \ {u} : sys[v].at = "mark" =>
           c.at # "mark" /\ sem_pool'[sys[v].slot] = sem_pool[sys[v].slot]
  PROVE  PoolsInv'
<1>1. \A v \in SysUser : sys'[v] = IF v = u THEN c ELSE sys[v]
  BY DEF PoolsInv, SysTypes
<1>2. SysTypes'
  BY DEF PoolsInv, SysTypes
<1>3. ThreadsInv'
  BY ThreadsKept DEF PoolsInv
<1>4. ASSUME NEW v \in SysUser PROVE CallOK(v)'
  <2>1. CASE v = u
    BY <2>1
  <2>2. CASE v # u
    <3>1. sys'[v] = sys[v] /\ CallOK(v)
      BY <1>1, <2>2 DEF PoolsInv
    <3>2. sys[v].at = "mark" => sem_pool'[sys[v].slot] = sem_pool[sys[v].slot]
      BY <2>2
    <3> QED BY <3>1, <3>2 DEF CallOK
  <2> QED BY <2>1, <2>2
<1>5. ObjectsOK'
  BY DEF PoolsInv, ObjectsOK
<1>6. OneMark'
  BY <1>1 DEF PoolsInv, OneMark
<1> QED BY <1>2, <1>3, <1>4, <1>5, <1>6 DEF PoolsInv

LEMMA PoolsSame ==
  ASSUME PoolsInv, UNCHANGED <<sem_pool, thread_pool, heap, sys, objs>> PROVE PoolsInv'
<1>1. SysTypes' /\ ThreadsInv'
  BY DEF PoolsInv, SysTypes, ThreadsInv, PlacesFree, StartsOwn, StartsApart
<1>2. (\A u \in SysUser : CallOK(u)') /\ ObjectsOK' /\ OneMark'
  BY DEF PoolsInv, CallOK, ObjectsOK, OneMark
<1>3. \A v \in SysUser : Places(v)' = Places(v) /\ \A m \in Places(v) : Sems(v, m)' = Sems(v, m)
  BY DEF Places, Sems
<1>4. Taken' = Taken
  BY TakenKept
<1>5. HeapHas' = HeapHas
  <2>1. \A x : Firsts(x)' = Firsts(x) /\ Making(x)' = Making(x)
    BY DEF Firsts, Making
  <2> QED BY <1>4, <2>1 DEF HeapHas
<1>6. SlotsExact'
  BY <1>3, <1>4, <1>5, SameHeld, HeapIs DEF PoolsInv
<1> QED BY <1>1, <1>2, <1>6 DEF PoolsInv

LEMMA NewStep ==
  ASSUME PoolsInv, NEW u \in SysUser, sys_new(u) PROVE PoolsInv'
<1>1. sys[u].at = "idle" /\ UNCHANGED <<sem_pool, thread_pool, objs>> /\ CallOK(u)
  BY DEF sys_new, PoolsInv
<1>2. CASE UNCHANGED <<heap, sys>>
  BY <1>1, <1>2, PoolsSame
<1>3. ASSUME NEW kind \in SysKind, heap' = heap + Blocks(kind),
             Calls(u, Call("search", kind, Counts(kind), <<>>, 0))
      PROVE  PoolsInv'
  <2>1. PICK c : c = Call("search", kind, Counts(kind), <<>>, 0)
    OBVIOUS
  <2>2. sys' = [sys EXCEPT ![u] = c]
    BY <1>3, <2>1 DEF Calls
  <2>3. /\ c.at = "search" /\ c.kind = kind /\ c.want = Counts(kind) /\ c.got = <<>>
        /\ c = [at |-> "search", kind |-> kind, want |-> Counts(kind), got |-> <<>>, slot |-> 0]
    BY <2>1 DEF Call
  <2>16. Counts(kind) \in Seq(Nat) /\ 0 < Len(Counts(kind))
    <3>1. Counts(kind) \in Seq(Nat) /\ (Len(Counts(kind)) = 1 \/ Len(Counts(kind)) = 2)
      BY KindsAre
    <3> QED BY <3>1
  <2>4. <<>> \in Seq(Slot \union {0}) /\ Len(<<>>) = 0
    OBVIOUS
  <2>5. c \in SysCall
    BY <2>3, <2>4, <2>16 DEF SysCall, CallAt
  <2>6. sys'[u] = c /\ SysTypes
    BY <2>2 DEF PoolsInv, SysTypes
  <2>7. CallOK(u)'
    <3>1. Len(c.got) = 0
      BY <2>3, <2>4
    <3>2. Len(c.got) < Len(c.want)
      BY <2>3, <2>16, <3>1
    <3> QED BY <2>3, <2>6, <3>2 DEF CallOK
  <2>8. sys[u].got = <<>>
    BY <1>1 DEF CallOK
  <2>9. \A v \in SysUser : Places(v)' = Places(v) /\ \A m \in Places(v) : Sems(v, m)' = Sems(v, m)
    <3> TAKE v \in SysUser
    <3>1. Sems(u, 0) = <<>>
      BY <2>8 DEF Sems
    <3>2. /\ Places(v)' = Places(v)
          /\ \A m : Sems(v, m)' = IF v = u /\ m = 0 THEN <<>> ELSE Sems(v, m)
      BY <1>1, <2>2, <2>3, <2>6, SemsOfCall
    <3> QED BY <3>1, <3>2
  <2>10. Taken' = Taken /\ \A x : Firsts(x)' = Firsts(x)
    BY <1>1, TakenKept, FirstsKept
  <2>11. u \notin Making("mutex") /\ u \notin Making("mbox")
    BY <1>1 DEF Making
  <2>12. \A x : Making(x)' = IF x = kind THEN Making(x) \union {u} ELSE Making(x) \ {u}
    <3> TAKE x
    <3>1. Making(x)' = IF c.at \in InCall /\ c.kind = x THEN Making(x) \union {u} ELSE Making(x) \ {u}
      BY <2>2, <2>6, MakingIs
    <3>2. c.at \in InCall /\ c.kind = kind
      BY <2>3 DEF InCall
    <3> QED BY <3>1, <3>2
  <2>13. /\ Cardinality(Making("mutex"))' = Cardinality(Making("mutex")) + (IF kind = "mutex" THEN 1 ELSE 0)
         /\ Cardinality(Making("mbox"))' = Cardinality(Making("mbox")) + (IF kind = "mbox" THEN 1 ELSE 0)
    <3>1. Making("mutex") \ {u} = Making("mutex") /\ Making("mbox") \ {u} = Making("mbox")
      BY <2>11
    <3>2. /\ Cardinality(Making("mutex") \union {u}) = Cardinality(Making("mutex")) + 1
          /\ Cardinality(Making("mbox") \union {u}) = Cardinality(Making("mbox")) + 1
      BY <2>11, AddOne, FiniteParts
    <3>3. /\ Making("mutex")' = IF kind = "mutex" THEN Making("mutex") \union {u} ELSE Making("mutex")
          /\ Making("mbox")' = IF kind = "mbox" THEN Making("mbox") \union {u} ELSE Making("mbox")
      BY <2>12, <3>1
    <3>4. Cardinality(Making("mutex"))' = Cardinality(Making("mutex")) + (IF kind = "mutex" THEN 1 ELSE 0)
      <4>1. CASE kind = "mutex"
        BY <3>2, <3>3, <4>1
      <4>2. CASE kind # "mutex"
        BY <3>3, <4>2, FiniteParts
      <4> QED BY <4>1, <4>2
    <3>5. Cardinality(Making("mbox"))' = Cardinality(Making("mbox")) + (IF kind = "mbox" THEN 1 ELSE 0)
      BY <3>2, <3>3, FiniteParts
    <3> QED BY <3>4, <3>5
  <2>14. HeapHas' = HeapHas + Blocks(kind)
    <3>1. Blocks(kind) = (IF kind = "mutex" THEN 1 ELSE 0) + 2 * (IF kind = "mbox" THEN 1 ELSE 0)
      BY KindsAre DEF SysKind
    <3>2. HeapHas' = Cardinality(Taken) + Cardinality(Firsts("mutex")) + Cardinality(Making("mutex"))'
                       + 2 * Cardinality(Firsts("mbox")) + 2 * Cardinality(Making("mbox"))'
      BY <2>10 DEF HeapHas
    <3> QED BY <2>13, <3>1, <3>2, FiniteParts DEF HeapHas
  <2>15. SlotsExact' /\ heap' \in Int
    <3>1. heap = HeapHas /\ Taken = {s \in Slot : Held(s)} /\ HeldOnce
      BY HeapIs DEF PoolsInv
    <3>2. HeapHas' \in Int
      BY HeapIs
    <3>3. Taken' = {s \in Slot : Held(s)'} /\ HeldOnce'
      BY <2>6, <2>9, <2>10, <3>1, SameHeld
    <3> QED BY <1>3, <2>14, <3>1, <3>2, <3>3, HeapIs
  <2> QED BY <1>1, <2>2, <2>3, <2>5, <2>7, <2>15, CallStep DEF PoolsInv, SysTypes
<1> QED BY <1>2, <1>3 DEF sys_new, SysKind

(* While a call goes on it is counted once.                                *)
LEMMA HeapOfCall ==
  ASSUME SysTypes, NEW u \in SysUser, NEW c, sys' = [sys EXCEPT ![u] = c], UNCHANGED objs,
         sys[u].at \in InCall, c.at \in InCall, c.kind = sys[u].kind
  PROVE  /\ Taken' = Taken => HeapHas' = HeapHas
         /\ \A s : s \notin Taken /\ Taken' = Taken \union {s} => HeapHas' = HeapHas + 1
<1>1. \A x : Firsts(x)' = Firsts(x)
  BY FirstsKept
<1>2. ASSUME NEW x PROVE Making(x)' = Making(x)
  <2>1. Making(x)' = IF c.at \in InCall /\ c.kind = x THEN Making(x) \union {u} ELSE Making(x) \ {u}
    BY MakingIs
  <2>2. u \in Making(x) <=> sys[u].kind = x
    BY DEF Making, InCall
  <2> QED BY <2>1, <2>2
<1> DEFINE b == Cardinality(Firsts("mutex"))
           d == Cardinality(Making("mutex"))
           e == Cardinality(Firsts("mbox"))
           f == Cardinality(Making("mbox"))
<1>3. b \in Nat /\ d \in Nat /\ e \in Nat /\ f \in Nat
  BY FiniteParts
<1>4. HeapHas = Cardinality(Taken) + b + d + 2 * e + 2 * f
  BY DEF HeapHas
<1>5. HeapHas' = Cardinality(Taken)' + b + d + 2 * e + 2 * f
  BY <1>1, <1>2 DEF HeapHas
<1> HIDE DEF b, d, e, f
<1>6. Taken' = Taken => HeapHas' = HeapHas
  BY <1>4, <1>5
<1>7. ASSUME NEW s, s \notin Taken, Taken' = Taken \union {s} PROVE HeapHas' = HeapHas + 1
  <2>1. Cardinality(Taken \union {s}) = Cardinality(Taken) + 1 /\ Cardinality(Taken) \in Nat
    BY <1>7, AddOne, FiniteParts
  <2>2. Cardinality(Taken)' = Cardinality(Taken) + 1
    BY <1>7, <2>1
  <2> QED BY <1>3, <1>4, <1>5, <2>1, <2>2
<1> QED BY <1>6, <1>7

LEMMA GotCall ==
  ASSUME PoolsInv, NEW u \in SysUser, sys[u].at \in {"search", "mark"}, NEW s \in Slot \union {0}, Got(u, s)
  PROVE  \E c \in SysCall :
           /\ sys' = [sys EXCEPT ![u] = c] /\ c.at \in {"search", "made"} /\ c.kind = sys[u].kind
           /\ c.want = sys[u].want /\ c.got = Append(sys[u].got, s) /\ c.got # <<>>
           /\ c.at = "search" => Len(c.got) < Len(c.want)
<1> DEFINE g == sys[u].got
           w == sys[u].want
<1>1. /\ g \in Seq(Slot \union {0}) /\ w \in Seq(Nat) /\ sys[u] \in SysCall
      /\ sys[u].kind \in SysKind /\ Len(g) < Len(w)
  BY DEF PoolsInv, SysTypes, SysCall, CallOK
<1> HIDE DEF g, w
<1> DEFINE n == Append(g, s)
<1>2. n \in Seq(Slot \union {0}) /\ Len(n) = Len(g) + 1 /\ n # <<>>
  BY <1>1
<1>3. Len(n) # Len(w) => Len(n) < Len(w)
  BY <1>1, <1>2
<1> DEFINE c == Call(IF Len(n) = Len(w) THEN "made" ELSE "search", sys[u].kind, w, n, 0)
<1>4. sys' = [sys EXCEPT ![u] = c]
  BY DEF Got, Calls, g, w
<1> HIDE DEF n
<1>5. /\ c.at = (IF Len(n) = Len(w) THEN "made" ELSE "search") /\ c.kind = sys[u].kind /\ c.want = w /\ c.got = n
      /\ c = [at |-> IF Len(n) = Len(w) THEN "made" ELSE "search", kind |-> sys[u].kind, want |-> w, got |-> n,
              slot |-> 0]
  BY DEF Call
<1> HIDE DEF c
<1>6. c \in SysCall
  BY <1>1, <1>2, <1>5 DEF SysCall, CallAt
<1>7. c.at \in {"search", "made"} /\ (c.at = "search" => Len(c.got) < Len(c.want))
  BY <1>3, <1>5
<1>8. c.want = sys[u].want /\ c.got = Append(sys[u].got, s) /\ c.got # <<>>
  BY <1>2, <1>5 DEF g, w, n
<1> QED BY <1>4, <1>5, <1>6, <1>7, <1>8

(* The call goes on without a semaphore, or with one.                      *)
LEMMA GotStep ==
  ASSUME PoolsInv, NEW u \in SysUser, sys[u].at \in {"search", "mark"}, NEW x \in Slot \union {0}, Got(u, x),
         UNCHANGED <<objs, thread_pool>>, sem_pool' \in [Slot -> SysSem], x \notin Taken,
         Taken' = Taken \union ({x} \ {0}), heap' = heap + (IF x = 0 THEN 0 ELSE 1),
         \A v \in SysUser \ {u} : sys[v].at = "mark" => sem_pool'[sys[v].slot] = sem_pool[sys[v].slot]
  PROVE  PoolsInv'
<1>1. PICK c \in SysCall :
        /\ sys' = [sys EXCEPT ![u] = c] /\ c.at \in {"search", "made"} /\ c.kind = sys[u].kind
        /\ c.want = sys[u].want /\ c.got = Append(sys[u].got, x) /\ c.got # <<>>
        /\ c.at = "search" => Len(c.got) < Len(c.want)
  BY GotCall
<1>2. SysTypes /\ CallOK(u) /\ Taken = {s \in Slot : Held(s)} /\ HeldOnce /\ heap = HeapHas
  BY HeapIs DEF PoolsInv
<1>3. sys'[u] = c
  BY <1>1, <1>2 DEF SysTypes
<1>4. CallOK(u)'
  BY <1>1, <1>2, <1>3 DEF CallOK
<1>5. Taken' = {s \in Slot : Held(s)'} /\ HeldOnce'
  BY <1>1, <1>2, JoinsHeld
<1>6. HeapHas' = HeapHas + (IF x = 0 THEN 0 ELSE 1) /\ HeapHas \in Nat
  <2>1. sys[u].at \in InCall /\ c.at \in InCall
    BY <1>1 DEF InCall
  <2>2. /\ Taken' = Taken => HeapHas' = HeapHas
        /\ \A s : s \notin Taken /\ Taken' = Taken \union {s} => HeapHas' = HeapHas + 1
    BY <1>1, <1>2, <2>1, HeapOfCall
  <2>3. x = 0 => Taken' = Taken
    OBVIOUS
  <2>4. x # 0 => Taken' = Taken \union {x}
    OBVIOUS
  <2>5. HeapHas \in Nat
    BY HeapIs
  <2> QED BY <2>2, <2>3, <2>4, <2>5
<1>7. SlotsExact' /\ heap' \in Int
  <2>1. heap' = HeapHas' /\ heap' \in Int
    BY <1>2, <1>6
  <2> QED BY <1>5, <2>1, HeapIs
<1>8. c.at # "cre" /\ c.at # "mark"
  BY <1>1
<1> QED BY <1>1, <1>4, <1>7, <1>8, CallStep

LEMMA SearchStep ==
  ASSUME Alone, PoolsInv, NEW u \in SysUser, sem_search(u) PROVE PoolsInv'
<1>1. /\ sys[u].at = "search" /\ UNCHANGED <<thread_pool, heap, objs>>
      /\ \A v \in SysUser : sys[v].at # "mark"
  BY DEF sem_search
<1>2. /\ SysTypes /\ CallOK(u) /\ Taken = {s \in Slot : Held(s)} /\ HeldOnce /\ heap = HeapHas
      /\ sem_pool \in [Slot -> SysSem] /\ heap \in Int
  BY HeapIs DEF PoolsInv, SysTypes
<1>3. ASSUME Got(u, 0), UNCHANGED sem_pool PROVE PoolsInv'
  <2>1. 0 \notin Taken /\ 0 \in Slot \union {0}
    BY DEF Taken, Slot
  <2>2. Taken' = Taken \union ({0} \ {0})
    BY <1>3, TakenKept
  <2>3. heap' = heap + (IF 0 = 0 THEN 0 ELSE 1)
    BY <1>1, <1>2
  <2>4. sem_pool' \in [Slot -> SysSem]
    BY <1>2, <1>3
  <2> QED BY <1>1, <1>3, <2>1, <2>2, <2>3, <2>4, GotStep
<1>4. ASSUME NEW s \in Slot, sem_pool[s].free,
             sem_pool' = [sem_pool EXCEPT ![s] = sem_given(@, sys[u].want[Len(sys[u].got) + 1])],
             Calls(u, Call("mark", sys[u].kind, sys[u].want, sys[u].got, s))
      PROVE  PoolsInv'
  <2> DEFINE g == sys[u].got
             w == sys[u].want
             c == Call("mark", sys[u].kind, w, g, s)
  <2>1. /\ g \in Seq(Slot \union {0}) /\ w \in Seq(Nat) /\ sys[u] \in SysCall
        /\ sys[u].kind \in SysKind /\ w = Counts(sys[u].kind) /\ Len(g) < Len(w)
    BY <1>1, <1>2 DEF SysTypes, SysCall, CallOK
  <2>2. sys' = [sys EXCEPT ![u] = c] /\ sys'[u] = c
    BY <1>2, <1>4 DEF Calls, SysTypes
  <2>3. sem_pool' = [sem_pool EXCEPT ![s] = sem_given(@, w[Len(g) + 1])]
    BY <1>4
  <2> HIDE DEF g, w
  <2>4. c = [at |-> "mark", kind |-> sys[u].kind, want |-> w, got |-> g, slot |-> s]
    BY DEF Call
  <2> HIDE DEF c
  <2>5. s \in Nat
    BY DEF Slot
  <2>6. c \in SysCall /\ c.at = "mark" /\ c.kind = sys[u].kind /\ c.want = w /\ c.got = g /\ c.slot = s
    BY <2>1, <2>4, <2>5 DEF SysCall, CallAt
  <2>7. PICK n \in Nat : n = w[Len(g) + 1]
    <3>1. Len(g) + 1 \in 1..Len(w)
      BY <2>1
    <3> QED BY <2>1, <3>1, ElementOfSeq
  <2>8. PICK r \in SysSem : r = [created |-> TRUE, free |-> sem_pool[s].free, count |-> n]
    <3>1. [created |-> TRUE, free |-> sem_pool[s].free, count |-> n] \in SysSem
      BY <1>4, <2>7 DEF SysSem
    <3> QED BY <3>1
  <2>9. sem_pool' = [sem_pool EXCEPT ![s] = r]
    <3>1. sem_given(sem_pool[s], n) = r
      BY <1>2, <2>7, <2>8, Drained
    <3> QED BY <1>2, <2>3, <2>7, <3>1
  <2>10. /\ sem_pool' \in [Slot -> SysSem] /\ sem_pool'[s] = r
         /\ \A i \in Slot : sem_pool'[i].free = sem_pool[i].free
    BY <1>2, <2>8, <2>9
  <2>11. Taken' = Taken
    BY <2>10 DEF Taken
  <2>12. CallOK(u)'
    BY <1>4, <2>1, <2>2, <2>6, <2>7, <2>8, <2>10 DEF CallOK
  <2>13. \A v \in SysUser : Places(v)' = Places(v) /\ \A m \in Places(v) : Sems(v, m)' = Sems(v, m)
    <3> TAKE v \in SysUser
    <3>1. Sems(u, 0) = g
      BY DEF Sems, g
    <3>2. /\ Places(v)' = Places(v)
          /\ \A m : Sems(v, m)' = IF v = u /\ m = 0 THEN g ELSE Sems(v, m)
      BY <1>1, <1>2, <2>2, <2>6, SemsOfCall
    <3> QED BY <3>1, <3>2
  <2>14. Taken' = {i \in Slot : Held(i)'} /\ HeldOnce'
    BY <1>2, <2>11, <2>13, SameHeld
  <2>15. HeapHas' = HeapHas
    <3>1. sys[u].at \in InCall /\ c.at \in InCall
      BY <1>1, <2>6 DEF InCall
    <3> QED BY <1>1, <1>2, <2>2, <2>6, <2>11, <3>1, HeapOfCall
  <2>16. SlotsExact' /\ heap' \in Int
    <3>1. heap' = HeapHas' /\ heap' \in Int
      BY <1>1, <1>2, <2>15
    <3> QED BY <2>14, <3>1, HeapIs
  <2> QED BY <1>1, <2>2, <2>6, <2>10, <2>12, <2>16, CallStep
<1>5. ASSUME NEW s \in {i \in Slot : sem_pool[i].free},
             \/ ~sem_pool[s].created /\ Got(u, 0) /\ UNCHANGED sem_pool
             \/ LET c == sys[u]
                IN  /\ sem_pool' = [sem_pool EXCEPT ![s] = sem_given(@, c.want[Len(c.got) + 1])]
                    /\ Calls(u, Call("mark", c.kind, c.want, c.got, s))
      PROVE  PoolsInv'
  BY <1>3, <1>4, <1>5
<1> QED BY <1>3, <1>5 DEF sem_search

LEMMA SemTaken ==
  ASSUME NEW x \in SysSem
  PROVE  [x EXCEPT !.free = FALSE] = [created |-> x.created, free |-> FALSE, count |-> x.count]
<1>1. PICK b \in BOOLEAN : b = FALSE
  OBVIOUS
<1>2. [x EXCEPT !.free = b] = [created |-> x.created, free |-> b, count |-> x.count]
  BY SemFields
<1> QED BY <1>1, <1>2

LEMMA MarkStep ==
  ASSUME PoolsInv, NEW u \in SysUser, sem_mark(u) PROVE PoolsInv'
<1>1. /\ sys[u].at = "mark" /\ UNCHANGED <<thread_pool, objs>> /\ SysTypes /\ CallOK(u) /\ heap \in Int
      /\ \A v \in SysUser \ {u} : sys[v].at # "mark"
  BY DEF sem_mark, PoolsInv, SysTypes, OneMark
<1>2. PICK s \in Slot : s = sys[u].slot /\ sem_pool[s].free
  BY <1>1 DEF CallOK
<1>3. sem_pool[s] \in SysSem /\ s \notin Taken /\ s # 0 /\ 0 \notin Taken
  BY <1>1, <1>2 DEF SysTypes, Taken, Slot
<1>4. CASE sem_pool' = [sem_pool EXCEPT ![s].free = FALSE] /\ heap' = heap + 1 /\ Got(u, s)
  <2>1. PICK r \in SysSem : r = [created |-> sem_pool[s].created, free |-> FALSE, count |-> sem_pool[s].count]
    BY <1>3, SemFields DEF SysSem
  <2>2. sem_pool' = [sem_pool EXCEPT ![s] = r]
    <3>1. [sem_pool[s] EXCEPT !.free = FALSE] = r
      BY <1>3, <2>1, SemTaken
    <3> QED BY <1>4, <3>1
  <2>3. sem_pool' \in [Slot -> SysSem] /\ sem_pool'[s] = r /\ \A i \in Slot : i # s => sem_pool'[i] = sem_pool[i]
    BY <1>1, <2>1, <2>2 DEF SysTypes
  <2>4. Taken' = Taken \union ({s} \ {0})
    BY <1>3, <2>1, <2>3 DEF Taken
  <2>5. heap' = heap + (IF s = 0 THEN 0 ELSE 1)
    BY <1>3, <1>4
  <2> QED BY <1>1, <1>3, <1>4, <2>3, <2>4, <2>5, GotStep
<1>5. CASE sem_pool' = [sem_pool EXCEPT ![s] = sem_back(@)] /\ Got(u, 0) /\ UNCHANGED heap
  <2>1. PICK r \in SysSem : r = sem_back(sem_pool[s]) /\ r.free = TRUE
    <3>1. PICK b \in BOOLEAN : b = sem_pool[s].created
      BY <1>3, SemFields
    <3>2. sem_back(sem_pool[s]) = [created |-> b, free |-> TRUE, count |-> 0]
      BY <1>3, <3>1, Drained
    <3>3. [created |-> b, free |-> TRUE, count |-> 0] \in SysSem
      BY DEF SysSem
    <3> QED BY <3>2, <3>3
  <2>2. sem_pool' = [sem_pool EXCEPT ![s] = r]
    BY <1>5, <2>1
  <2>3. sem_pool' \in [Slot -> SysSem] /\ sem_pool'[s] = r /\ \A i \in Slot : i # s => sem_pool'[i] = sem_pool[i]
    BY <1>1, <2>1, <2>2 DEF SysTypes
  <2>4. Taken' = Taken \union ({0} \ {0})
    BY <1>2, <1>3, <2>1, <2>3 DEF Taken
  <2>5. heap' = heap + (IF 0 = 0 THEN 0 ELSE 1)
    BY <1>1, <1>5
  <2>6. 0 \in Slot \union {0}
    OBVIOUS
  <2> QED BY <1>1, <1>3, <1>5, <2>3, <2>4, <2>5, <2>6, GotStep
<1> QED BY <1>2, <1>4, <1>5 DEF sem_mark

(* The end of a call, and the return of an object, leave the other calls.  *)
LEMMA OthersOK ==
  ASSUME PoolsInv, NEW u \in SysUser, NEW c, sys' = [sys EXCEPT ![u] = c], c.at = "idle", c.got = <<>>,
         \A i \in Slot : sem_pool[i].free => sem_pool'[i] = sem_pool[i]
  PROVE  (\A v \in SysUser : CallOK(v)') /\ OneMark'
<1>1. \A v \in SysUser : sys'[v] = IF v = u THEN c ELSE sys[v]
  BY DEF PoolsInv, SysTypes
<1>2. ASSUME NEW v \in SysUser PROVE CallOK(v)'
  <2>1. CASE v = u
    BY <1>1, <2>1 DEF CallOK
  <2>2. CASE v # u
    <3>1. sys'[v] = sys[v] /\ CallOK(v)
      BY <1>1, <2>2 DEF PoolsInv
    <3>2. sys[v].at = "mark" => sem_pool'[sys[v].slot] = sem_pool[sys[v].slot]
      BY <3>1 DEF CallOK
    <3> QED BY <3>1, <3>2 DEF CallOK
  <2> QED BY <2>1, <2>2
<1>3. OneMark'
  BY <1>1 DEF PoolsInv, OneMark
<1> QED BY <1>2, <1>3

(* The semaphores of a place are apart and taken.                          *)
LEMMA AtPlace ==
  ASSUME SysTypes, Taken = {s \in Slot : Held(s)}, HeldOnce, NEW u \in SysUser, NEW n \in Places(u)
  PROVE  /\ ToSet(Sems(u, n)) \ {0} \subseteq Taken
         /\ \A i, j \in DOMAIN Sems(u, n) : Sems(u, n)[i] = Sems(u, n)[j] /\ Sems(u, n)[i] # 0 => i = j
         /\ IsFiniteSet(ToSet(Sems(u, n)) \ {0})
         /\ Made(Sems(u, n)) = Cardinality(ToSet(Sems(u, n)) \ {0})
         /\ 0 \notin ToSet(Sems(u, n)) => Made(Sems(u, n)) = Len(Sems(u, n))
         /\ Made(Sems(u, n)) \in Nat
         /\ Cardinality(Taken \ ToSet(Sems(u, n))) = Cardinality(Taken) - Made(Sems(u, n))
<1> DEFINE s == Sems(u, n)
<1>1. s \in Seq(Slot \union {0})
  BY SemsTyped
<1>2. \A i, j \in DOMAIN s : s[i] = s[j] /\ s[i] # 0 => i = j
  BY DEF HeldOnce
<1>3. \A x \in ToSet(s) : Held(x)
  BY DEF Held
<1>4. 0 \notin Taken
  BY DEF Taken, Slot
<1> HIDE DEF s
<1>5. ToSet(s) \subseteq Slot \union {0}
  BY <1>1 DEF ToSet
<1>6. ToSet(s) \ {0} \subseteq Taken
  BY <1>3, <1>5
<1>7. /\ IsFiniteSet(ToSet(s) \ {0}) /\ Made(s) = Cardinality(ToSet(s) \ {0})
      /\ 0 \notin ToSet(s) => Made(s) = Len(s)
  BY <1>1, <1>2, Counted
<1>8. Made(s) \in Nat
  BY <1>7, FS_CardinalityType
<1>9. Cardinality(Taken \ ToSet(s)) = Cardinality(Taken) - Made(s)
  <2>1. Taken \cap ToSet(s) = ToSet(s) \ {0}
    BY <1>4, <1>6
  <2> QED BY <1>7, <2>1, FiniteParts, FS_Difference
<1> QED BY <1>2, <1>6, <1>7, <1>8, <1>9 DEF s

(* Semaphores go from one place to another, and none is let go.            *)
LEMMA StaysHeld ==
  ASSUME Taken = {s \in Slot : Held(s)}, HeldOnce, NEW f, Taken' = Taken,
         \A v \in SysUser : \A m \in Places(v)' :
           Sems(v, m)' = <<>> \/ (f[v][m] \in Places(v) /\ Sems(v, m)' = Sems(v, f[v][m])),
         \A v \in SysUser : \A m, n \in Places(v)' :
           Sems(v, m)' # <<>> /\ Sems(v, n)' # <<>> /\ f[v][m] = f[v][n] => m = n,
         \A v \in SysUser : \A n \in Places(v) : \E m \in Places(v)' : Sems(v, m)' = Sems(v, n)
  PROVE  Taken' = {s \in Slot : Held(s)'} /\ HeldOnce'
<1>1. HeldOnce'
  BY MovesHeld
<1>2. \A s \in Slot : Held(s)' <=> Held(s)
  <2> TAKE s \in Slot
  <2>1. ASSUME Held(s)' PROVE Held(s)
    <3>1. PICK v \in SysUser : \E m \in Places(v)' : s \in ToSet(Sems(v, m)')
      BY <2>1 DEF Held
    <3>2. PICK m \in Places(v)' : s \in ToSet(Sems(v, m)')
      BY <3>1
    <3>3. Sems(v, m)' # <<>>
      BY <3>2 DEF ToSet
    <3>4. PICK n \in Places(v) : Sems(v, m)' = Sems(v, n)
      BY <3>3
    <3>5. s \in ToSet(Sems(v, n))
      BY <3>2, <3>4
    <3> QED BY <3>5 DEF Held
  <2>2. ASSUME Held(s) PROVE Held(s)'
    <3>1. PICK v \in SysUser : \E n \in Places(v) : s \in ToSet(Sems(v, n))
      BY <2>2 DEF Held
    <3>2. PICK n \in Places(v) : s \in ToSet(Sems(v, n))
      BY <3>1
    <3>4. PICK m \in Places(v)' : Sems(v, m)' = Sems(v, n)
      OBVIOUS
    <3>5. s \in ToSet(Sems(v, m)')
      BY <3>2, <3>4
    <3> QED BY <3>5 DEF Held
  <2> QED BY <2>1, <2>2
<1> QED BY <1>1, <1>2

LEMMA FirstHeld ==
  ASSUME SysTypes, ObjectsOK, NEW u \in SysUser, NEW n \in 1..Len(objs[u])
  PROVE  /\ n \in Places(u) /\ n # 0 /\ Sems(u, n) = objs[u][n].sems /\ objs[u][n].sems # <<>>
         /\ objs[u][n].sems \in Seq(Slot) /\ objs[u][n].kind \in SysKind
         /\ 1 \in DOMAIN objs[u][n].sems /\ objs[u][n].sems[1] \in Slot
<1>1. objs[u] \in Seq(SysObj) /\ objs[u][n].kind \in SysKind /\ objs[u][n].sems \in Seq(Slot)
  BY ObjectFields
<1>2. PICK ob \in Seq(Slot) : ob = objs[u][n].sems
  BY <1>1
<1>3. ob # <<>>
  BY <1>2 DEF ObjectsOK
<1>4. 1 \in DOMAIN ob /\ ob[1] \in Slot
  BY <1>3
<1>5. n \in Places(u) /\ n # 0 /\ Sems(u, n) = objs[u][n].sems
  BY <1>1 DEF Places, Sems
<1> QED BY <1>1, <1>2, <1>3, <1>4, <1>5

LEMMA SysStays ==
  ASSUME SysTypes, NEW u \in SysUser, NEW c \in SysCall, sys' = [sys EXCEPT ![u] = c],
         sem_pool' \in [Slot -> SysSem], UNCHANGED thread_pool, heap' \in Int,
         objs' \in [SysUser -> Seq(SysObj)]
  PROVE  SysTypes'
BY DEF SysTypes

LEMMA IdleIs ==
  /\ IdleCall \in SysCall /\ IdleCall.at = "idle" /\ IdleCall.got = <<>>
<1>1. <<>> \in Seq(Nat) /\ <<>> \in Seq(Slot \union {0})
  OBVIOUS
<1> QED BY <1>1 DEF IdleCall, Call, SysCall, CallAt

LEMMA HeapSame ==
  ASSUME Taken' = Taken,
         \A x : Cardinality(Firsts(x))' + Cardinality(Making(x))' = Cardinality(Firsts(x)) + Cardinality(Making(x))
  PROVE  HeapHas' = HeapHas
<1> DEFINE b == Cardinality(Firsts("mutex"))
           d == Cardinality(Making("mutex"))
           e == Cardinality(Firsts("mbox"))
           f == Cardinality(Making("mbox"))
           b1 == Cardinality(Firsts("mutex"))'
           d1 == Cardinality(Making("mutex"))'
           e1 == Cardinality(Firsts("mbox"))'
           f1 == Cardinality(Making("mbox"))'
           t == Cardinality(Taken)
<1>1. b \in Nat /\ d \in Nat /\ e \in Nat /\ f \in Nat /\ t \in Nat
  BY FiniteParts
<1>2. b1 \in Nat /\ d1 \in Nat /\ e1 \in Nat /\ f1 \in Nat
  BY FiniteParts
<1>3. b1 + d1 = b + d /\ e1 + f1 = e + f
  OBVIOUS
<1>4. HeapHas = t + b + d + 2 * e + 2 * f
  BY DEF HeapHas
<1>5. HeapHas' = t + b1 + d1 + 2 * e1 + 2 * f1
  BY DEF HeapHas
<1> HIDE DEF b, d, e, f, b1, d1, e1, f1, t
<1> QED BY <1>1, <1>2, <1>3, <1>4, <1>5

(* The object is the caller's.                                             *)
LEMMA MadeStep ==
  ASSUME PoolsInv, NEW u \in SysUser, sys[u].at = "made", 0 \notin ToSet(sys[u].got),
         objs' = [objs EXCEPT ![u] = Append(@, [kind |-> sys[u].kind, sems |-> sys[u].got])],
         sys' = [sys EXCEPT ![u] = IdleCall], UNCHANGED <<sem_pool, thread_pool, heap>>
  PROVE  PoolsInv'
<1>1. /\ SysTypes /\ CallOK(u) /\ ObjectsOK /\ Taken = {s \in Slot : Held(s)} /\ HeldOnce /\ heap = HeapHas
      /\ sem_pool \in [Slot -> SysSem] /\ heap \in Int /\ objs \in [SysUser -> Seq(SysObj)]
  BY HeapIs DEF PoolsInv, SysTypes
<1> DEFINE g == sys[u].got
           k == sys[u].kind
           o == [kind |-> k, sems |-> g]
<1>2. g \in Seq(Slot \union {0}) /\ g # <<>> /\ k \in SysKind /\ 0 \notin ToSet(g)
  BY <1>1 DEF SysTypes, SysCall, CallOK
<1>3. objs' = [objs EXCEPT ![u] = Append(@, o)] /\ Sems(u, 0) = g
  BY DEF Sems
<1>21. u \in Making(k) /\ \A x : x # k => u \notin Making(x)
  BY DEF Making
<1> HIDE DEF g, k
<1>4. g \in Seq(Slot)
  <2>1. \A i \in 1..Len(g) : g[i] \in Slot
    BY <1>2 DEF ToSet
  <2> QED BY <1>2, <2>1
<1>5. o \in SysObj /\ o.kind = k /\ o.sems = g
  BY <1>2, <1>4 DEF SysObj
<1> HIDE DEF o
<1>6. /\ objs[u] \in Seq(SysObj) /\ Len(objs[u]) \in Nat /\ objs'[u] = Append(objs[u], o)
      /\ \A v \in SysUser : v # u => objs'[v] = objs[v]
  BY <1>1, <1>3
<1>22. PICK l \in Nat : l = Len(objs[u]) + 1
  BY <1>6
<1>7. /\ objs'[u] \in Seq(SysObj) /\ Len(objs'[u]) = l /\ objs'[u][l] = o
      /\ \A n \in 1..Len(objs[u]) : objs'[u][n] = objs[u][n]
  BY <1>5, <1>6, <1>22
<1>8. objs' \in [SysUser -> Seq(SysObj)]
  <2>1. objs' = [objs EXCEPT ![u] = objs'[u]]
    BY <1>1, <1>3
  <2> QED BY <1>1, <1>7, <2>1
<1>9. SysTypes' /\ ThreadsInv'
  BY <1>1, <1>8, IdleIs, SysStays, ThreadsKept DEF PoolsInv
<1>10. (\A v \in SysUser : CallOK(v)') /\ OneMark'
  BY IdleIs, OthersOK
<1>11. ObjectsOK'
  <2>1. ASSUME NEW v \in SysUser, NEW n \in 1..Len(objs'[v]) PROVE objs'[v][n].sems # <<>>
    <3>1. CASE v # u
      BY <1>1, <1>6, <2>1, <3>1 DEF ObjectsOK
    <3>2. CASE v = u /\ n = l
      BY <1>2, <1>5, <1>7, <3>2
    <3>3. CASE v = u /\ n # l
      <4>1. n \in 1..Len(objs[u])
        BY <1>6, <1>7, <1>22, <2>1, <3>3
      <4> QED BY <1>1, <1>7, <3>3, <4>1 DEF ObjectsOK
    <3> QED BY <3>1, <3>2, <3>3
  <2> QED BY <2>1 DEF ObjectsOK
<1>12. /\ \A v \in SysUser : v # u => Places(v)' = Places(v) /\ \A m \in Places(v) : Sems(v, m)' = Sems(v, m)
       /\ Places(u)' = Places(u) \union {l} /\ l \notin Places(u) /\ 0 \in Places(u) /\ l # 0
       /\ Sems(u, 0)' = <<>> /\ Sems(u, l)' = g
       /\ \A m \in Places(u) : m # 0 => Sems(u, m)' = Sems(u, m)
  <2>1. \A v \in SysUser : sys'[v] = IF v = u THEN IdleCall ELSE sys[v]
    BY <1>1 DEF SysTypes
  <2>2. \A v \in SysUser : v # u => Places(v)' = Places(v) /\ \A m \in Places(v) : Sems(v, m)' = Sems(v, m)
    BY <1>6, <2>1 DEF Places, Sems
  <2>3. Places(u)' = 0..l /\ Places(u) = 0..Len(objs[u])
    BY <1>7 DEF Places
  <2>4. Places(u)' = Places(u) \union {l} /\ l \notin Places(u) /\ 0 \in Places(u) /\ l # 0
    BY <1>6, <1>22, <2>3
  <2>5. Sems(u, 0)' = <<>>
    BY <2>1, IdleIs DEF Sems
  <2>6. Sems(u, l)' = g
    BY <1>5, <1>7, <2>4 DEF Sems
  <2>7. \A m \in Places(u) : m # 0 => Sems(u, m)' = Sems(u, m)
    <3> TAKE m \in Places(u)
    <3>1. m # 0 => m \in 1..Len(objs[u])
      BY <1>6, <2>3
    <3> QED BY <1>7, <3>1 DEF Sems
  <2> QED BY <2>2, <2>4, <2>5, <2>6, <2>7
<1>13. Taken' = Taken
  BY TakenKept
<1>14. Taken' = {s \in Slot : Held(s)'} /\ HeldOnce'
  <2> DEFINE f == [v \in SysUser |-> [m \in Nat |-> IF v = u /\ m = l THEN 0 ELSE m]]
  <2>1. \A v \in SysUser : Places(v) \subseteq Nat /\ Places(v)' \subseteq Nat
    BY <1>1, <1>8 DEF Places
  <2>2. \A v \in SysUser : \A m \in Nat : f[v][m] = IF v = u /\ m = l THEN 0 ELSE m
    OBVIOUS
  <2> HIDE DEF f
  <2>3. ASSUME NEW v \in SysUser, NEW m \in Places(v)'
        PROVE  Sems(v, m)' = <<>> \/ (f[v][m] \in Places(v) /\ Sems(v, m)' = Sems(v, f[v][m]))
    <3>1. CASE v # u
      BY <1>12, <2>1, <2>2, <3>1
    <3>2. CASE v = u /\ m = l
      BY <1>3, <1>12, <2>1, <2>2, <3>2
    <3>3. CASE v = u /\ m # l
      BY <1>12, <2>1, <2>2, <3>3
    <3> QED BY <3>1, <3>2, <3>3
  <2>4. ASSUME NEW v \in SysUser, NEW m \in Places(v)', NEW n \in Places(v)',
               Sems(v, m)' # <<>>, Sems(v, n)' # <<>>, f[v][m] = f[v][n]
        PROVE  m = n
    BY <1>12, <2>1, <2>2, <2>4
  <2>5. ASSUME NEW v \in SysUser, NEW n \in Places(v) PROVE \E m \in Places(v)' : Sems(v, m)' = Sems(v, n)
    <3>1. CASE v # u \/ n # 0
      BY <1>12, <3>1
    <3>2. CASE v = u /\ n = 0
      BY <1>3, <1>12, <3>2
    <3> QED BY <3>1, <3>2
  <2>6. \A v \in SysUser : \A m \in Places(v)' :
           Sems(v, m)' = <<>> \/ (f[v][m] \in Places(v) /\ Sems(v, m)' = Sems(v, f[v][m]))
    BY <2>3
  <2>7. \A v \in SysUser : \A m, n \in Places(v)' :
           Sems(v, m)' # <<>> /\ Sems(v, n)' # <<>> /\ f[v][m] = f[v][n] => m = n
    BY <2>4
  <2>8. \A v \in SysUser : \A n \in Places(v) : \E m \in Places(v)' : Sems(v, m)' = Sems(v, n)
    BY <2>5
  <2>9. Taken = {s \in Slot : Held(s)} /\ HeldOnce
    BY <1>1
  <2> QED BY ONLY <1>13, <2>6, <2>7, <2>8, <2>9, StaysHeld
<1>15. PICK s \in Slot : s = g[1] /\ s \in ToSet(Sems(u, 0))
  <2>1. 1 \in DOMAIN g /\ g[1] \in Slot
    BY <1>2, <1>4
  <2> QED BY <1>3, <2>1 DEF ToSet
<1>16. \A x : s \notin Firsts(x)
  <2>1. SUFFICES ASSUME NEW v \in SysUser, NEW n \in DOMAIN objs[v], objs[v][n].sems[1] = s PROVE FALSE
    BY DEF Firsts
  <2>2. n \in 1..Len(objs[v])
    BY <1>1
  <2>3. n \in Places(v) /\ n # 0 /\ Sems(v, n)[1] = s /\ 1 \in DOMAIN Sems(v, n)
    BY <1>1, <2>1, <2>2, FirstHeld
  <2>4. 0 \in Places(u) /\ Sems(u, 0)[1] = s /\ 1 \in DOMAIN Sems(u, 0) /\ s # 0
    BY <1>2, <1>3, <1>12, <1>15 DEF Slot
  <2> QED BY <1>1, <2>3, <2>4 DEF HeldOnce
<1>17. ASSUME NEW x PROVE Firsts(x)' = IF x = k THEN Firsts(x) \union {s} ELSE Firsts(x)
  <2>1. \A t \in Slot : t \in Firsts(x)' => t \in Firsts(x) \/ (x = k /\ t = s)
    <3>1. SUFFICES ASSUME NEW t \in Slot, NEW v \in SysUser, NEW n \in DOMAIN objs'[v],
                          objs'[v][n].kind = x, objs'[v][n].sems[1] = t
                   PROVE  t \in Firsts(x) \/ (x = k /\ t = s)
      BY DEF Firsts
    <3>2. n \in 1..Len(objs'[v])
      BY <1>8
    <3>3. CASE v = u /\ n = l
      BY <1>5, <1>7, <1>15, <3>1, <3>3
    <3>4. CASE ~(v = u /\ n = l)
      <4>1. n \in 1..Len(objs[v]) /\ objs'[v][n] = objs[v][n]
        BY <1>6, <1>7, <1>22, <3>2, <3>4
      <4>2. n \in DOMAIN objs[v]
        BY <1>1, <4>1
      <4> QED BY <3>1, <4>1, <4>2 DEF Firsts
    <3> QED BY <3>3, <3>4
  <2>2. ASSUME NEW t \in Firsts(x) PROVE t \in Firsts(x)'
    <3>1. t \in Slot /\ \E v \in SysUser : \E n \in DOMAIN objs[v] : objs[v][n].kind = x /\ objs[v][n].sems[1] = t
      BY DEF Firsts
    <3>2. PICK v \in SysUser : \E n \in DOMAIN objs[v] : objs[v][n].kind = x /\ objs[v][n].sems[1] = t
      BY <3>1
    <3>3. PICK n \in DOMAIN objs[v] : objs[v][n].kind = x /\ objs[v][n].sems[1] = t
      BY <3>2
    <3>4. n \in 1..Len(objs[v])
      BY <1>1
    <3>5. n \in 1..Len(objs'[v]) /\ objs'[v][n] = objs[v][n]
      BY <1>6, <1>7, <1>22, <3>4
    <3>6. n \in DOMAIN objs'[v]
      BY <1>8, <3>5
    <3> QED BY <3>1, <3>3, <3>5, <3>6 DEF Firsts
  <2>3. x = k => s \in Firsts(x)'
    <3>1. l \in DOMAIN objs'[u]
      BY <1>6, <1>7, <1>22
    <3> QED BY <1>5, <1>7, <1>15, <3>1 DEF Firsts
  <2>4. Firsts(x)' \subseteq Slot
    BY DEF Firsts
  <2> QED BY <2>1, <2>2, <2>3, <2>4
<1>18. ASSUME NEW x PROVE Making(x)' = Making(x) \ {u}
  BY <1>1, IdleIs, MakingIs DEF InCall
<1>19. HeapHas' = HeapHas
  <2>1. ASSUME NEW x
        PROVE  Cardinality(Firsts(x))' + Cardinality(Making(x))' = Cardinality(Firsts(x)) + Cardinality(Making(x))
    <3>1. CASE x = k
      <4>1. Cardinality(Firsts(x) \union {s}) = Cardinality(Firsts(x)) + 1
        BY <1>16, AddOne, FiniteParts
      <4>2. Cardinality(Making(x) \ {u}) = Cardinality(Making(x)) - 1
        BY <1>21, <3>1, DropOne, FiniteParts
      <4>3. Firsts(x)' = Firsts(x) \union {s} /\ Making(x)' = Making(x) \ {u}
        BY <1>17, <1>18, <3>1
      <4> QED BY <4>1, <4>2, <4>3, FiniteParts
    <3>2. CASE x # k
      <4>1. Firsts(x)' = Firsts(x) /\ Making(x)' = Making(x)
        BY <1>17, <1>18, <1>21, <3>2
      <4> QED BY <4>1
    <3> QED BY <3>1, <3>2
  <2> QED BY <1>13, <2>1, HeapSame
<1>20. SlotsExact'
  BY <1>1, <1>14, <1>19, HeapIs
<1> QED BY <1>9, <1>10, <1>11, <1>20 DEF PoolsInv

LEMMA HeapLess ==
  ASSUME NEW k \in SysKind, NEW b \in Nat, NEW n \in Nat,
         b = (IF k = "mutex" THEN 1 ELSE 0) + (IF k = "mbox" THEN 2 ELSE 0),
         Cardinality(Taken)' = Cardinality(Taken) - n, \A x : Firsts(x)' = Firsts(x),
         Cardinality(Making("mutex"))' = Cardinality(Making("mutex")) - (IF k = "mutex" THEN 1 ELSE 0),
         Cardinality(Making("mbox"))' = Cardinality(Making("mbox")) - (IF k = "mbox" THEN 1 ELSE 0)
  PROVE  HeapHas' = HeapHas - b - n
<1> DEFINE b0 == Cardinality(Firsts("mutex"))
           d0 == Cardinality(Making("mutex"))
           e0 == Cardinality(Firsts("mbox"))
           f0 == Cardinality(Making("mbox"))
           t0 == Cardinality(Taken)
<1>1. b0 \in Nat /\ d0 \in Nat /\ e0 \in Nat /\ f0 \in Nat /\ t0 \in Nat
  BY FiniteParts
<1>2. HeapHas = t0 + b0 + d0 + 2 * e0 + 2 * f0
  BY DEF HeapHas
<1> DEFINE y == (IF k = "mutex" THEN 1 ELSE 0)
           z == (IF k = "mbox" THEN 1 ELSE 0)
<1>3. y \in Nat /\ z \in Nat /\ b = y + 2 * z
  BY DEF SysKind
<1>4. HeapHas' = (t0 - n) + b0 + (d0 - y) + 2 * e0 + 2 * (f0 - z)
  BY DEF HeapHas
<1> HIDE DEF b0, d0, e0, f0, t0, y, z
<1> QED BY <1>1, <1>2, <1>3, <1>4

LEMMA HeapFewer ==
  ASSUME NEW k \in SysKind, NEW b \in Nat, NEW n \in Nat,
         b = (IF k = "mutex" THEN 1 ELSE 0) + (IF k = "mbox" THEN 2 ELSE 0),
         Cardinality(Taken)' = Cardinality(Taken) - n, \A x : Making(x)' = Making(x),
         Cardinality(Firsts("mutex"))' = Cardinality(Firsts("mutex")) - (IF k = "mutex" THEN 1 ELSE 0),
         Cardinality(Firsts("mbox"))' = Cardinality(Firsts("mbox")) - (IF k = "mbox" THEN 1 ELSE 0)
  PROVE  HeapHas' = HeapHas - b - n
<1> DEFINE b0 == Cardinality(Firsts("mutex"))
           d0 == Cardinality(Making("mutex"))
           e0 == Cardinality(Firsts("mbox"))
           f0 == Cardinality(Making("mbox"))
           t0 == Cardinality(Taken)
<1>1. b0 \in Nat /\ d0 \in Nat /\ e0 \in Nat /\ f0 \in Nat /\ t0 \in Nat
  BY FiniteParts
<1>2. HeapHas = t0 + b0 + d0 + 2 * e0 + 2 * f0
  BY DEF HeapHas
<1> DEFINE y == (IF k = "mutex" THEN 1 ELSE 0)
           z == (IF k = "mbox" THEN 1 ELSE 0)
<1>3. y \in Nat /\ z \in Nat /\ b = y + 2 * z
  BY DEF SysKind
<1>4. HeapHas' = (t0 - n) + (b0 - y) + d0 + 2 * (e0 - z) + 2 * f0
  BY DEF HeapHas
<1> HIDE DEF b0, d0, e0, f0, t0, y, z
<1> QED BY <1>1, <1>2, <1>3, <1>4

(* All that the call was to have is given back.                            *)
LEMMA UndoStep ==
  ASSUME PoolsInv, NEW u \in SysUser, sys[u].at = "made",
         sem_pool' = sem_release_to_pool(sem_pool, sys[u].got),
         heap' = heap - Blocks(sys[u].kind) - Made(sys[u].got),
         sys' = [sys EXCEPT ![u] = IdleCall], UNCHANGED <<objs, thread_pool>>
  PROVE  PoolsInv'
<1>1. /\ SysTypes /\ CallOK(u) /\ Taken = {s \in Slot : Held(s)} /\ HeldOnce /\ heap = HeapHas
      /\ heap \in Int /\ objs \in [SysUser -> Seq(SysObj)]
  BY HeapIs DEF PoolsInv, SysTypes
<1>2. PICK k \in SysKind : k = sys[u].kind
  BY <1>1 DEF CallOK
<1>3. Sems(u, 0) = sys[u].got /\ 0 \in Places(u)
  <2>1. Len(objs[u]) \in Nat
    BY <1>1
  <2> QED BY <2>1 DEF Sems, Places
<1>4. u \in Making(k) /\ \A x : x # k => u \notin Making(x)
  BY <1>2 DEF Making
<1>5. /\ sem_pool' \in [Slot -> SysSem] /\ Taken' = Taken \ ToSet(Sems(u, 0))
      /\ \A i \in Slot : i \notin ToSet(Sems(u, 0)) => sem_pool'[i] = sem_pool[i]
  BY <1>1, <1>3, Released
<1>6. PICK n \in Nat : n = Made(sys[u].got) /\ Cardinality(Taken)' = Cardinality(Taken) - n
  BY <1>1, <1>3, <1>5, AtPlace
<1>7. ToSet(Sems(u, 0)) \ {0} \subseteq Taken
  BY <1>1, <1>3, AtPlace
<1>8. \A i \in Slot : sem_pool[i].free => sem_pool'[i] = sem_pool[i]
  BY <1>5, <1>7 DEF Taken, Slot
<1>9. (\A v \in SysUser : CallOK(v)') /\ OneMark'
  BY <1>8, IdleIs, OthersOK
<1>10. PICK b \in Nat : b = Blocks(k) /\ b = (IF k = "mutex" THEN 1 ELSE 0) + (IF k = "mbox" THEN 2 ELSE 0)
  BY KindsAre DEF SysKind
<1>11. heap' \in Int /\ heap' = heap - b - n
  BY <1>1, <1>2, <1>6, <1>10
<1>12. SysTypes' /\ ThreadsInv'
  BY <1>1, <1>5, <1>11, IdleIs, SysStays, ThreadsKept DEF PoolsInv
<1>13. ObjectsOK'
  BY DEF PoolsInv, ObjectsOK
<1>14. \A v \in SysUser :
         /\ Places(v)' = Places(v)
         /\ \A m : Sems(v, m)' = IF v = u /\ m = 0 THEN <<>> ELSE Sems(v, m)
  BY <1>1, IdleIs, SemsOfCall
<1>15. Taken' = {s \in Slot : Held(s)'} /\ HeldOnce'
  <2> DEFINE f == [v \in SysUser |-> [m \in Nat |-> m]]
  <2>1. \A v \in SysUser : Places(v) \subseteq Nat /\ Places(v)' \subseteq Nat
    BY <1>1 DEF Places
  <2>2. \A v \in SysUser : \A m \in Nat : f[v][m] = m
    OBVIOUS
  <2> HIDE DEF f
  <2>3. PICK o \in Places(u) : o = 0
    BY <1>3
  <2>6. \A v \in SysUser : \A m \in Places(v)' :
           Sems(v, m)' = <<>> \/ (f[v][m] \in Places(v) /\ Sems(v, m)' = Sems(v, f[v][m])
                                    /\ ~(v = u /\ f[v][m] = o))
    BY <1>14, <2>1, <2>2, <2>3
  <2>7. \A v \in SysUser : \A m, j \in Places(v)' :
           Sems(v, m)' # <<>> /\ Sems(v, j)' # <<>> /\ f[v][m] = f[v][j] => m = j
    BY <2>1, <2>2
  <2>8. \A v \in SysUser : \A j \in Places(v) :
           (v = u /\ j = o) \/ \E m \in Places(v)' : Sems(v, m)' = Sems(v, j)
    BY <1>14, <2>3
  <2>9. SysTypes /\ Taken = {s \in Slot : Held(s)} /\ HeldOnce
    BY <1>1
  <2>10. Taken' = Taken \ ToSet(Sems(u, o))
    BY <1>5, <2>3
  <2>11. LeftFrom(f, u, o)
    BY <2>6 DEF LeftFrom
  <2>12. LeftApart(f)
    BY <2>7 DEF LeftApart
  <2>13. LeftAll(u, o)
    BY <2>8 DEF LeftAll
  <2> QED BY ONLY <2>9, <2>10, <2>11, <2>12, <2>13, u \in SysUser, o \in Places(u), LeavesHeld
<1>16. ASSUME NEW x PROVE Making(x)' = Making(x) \ {u} /\ Firsts(x)' = Firsts(x)
  BY <1>1, IdleIs, MakingIs, FirstsKept DEF InCall
<1>17. HeapHas' = HeapHas - b - n
  <2>1. \A x : x # k => Making(x)' = Making(x)
    BY <1>4, <1>16
  <2>2. Cardinality(Making(k))' = Cardinality(Making(k)) - 1
    <3>1. Cardinality(Making(k) \ {u}) = Cardinality(Making(k)) - 1
      BY <1>4, DropOne, FiniteParts
    <3> QED BY <1>16, <3>1
  <2>3. Cardinality(Making("mutex"))' = Cardinality(Making("mutex")) - (IF k = "mutex" THEN 1 ELSE 0)
    <3>1. CASE k = "mutex"
      BY <2>2, <3>1
    <3>2. CASE k # "mutex"
      BY <2>1, <3>2, FiniteParts
    <3> QED BY <3>1, <3>2
  <2>4. Cardinality(Making("mbox"))' = Cardinality(Making("mbox")) - (IF k = "mbox" THEN 1 ELSE 0)
    <3>1. CASE k = "mbox"
      BY <2>2, <3>1
    <3>2. CASE k # "mbox"
      BY <2>1, <3>2, FiniteParts
    <3> QED BY <3>1, <3>2
  <2> QED BY <1>6, <1>10, <1>16, <2>3, <2>4, HeapLess
<1>18. SlotsExact'
  <2>1. heap' = HeapHas'
    BY <1>1, <1>11, <1>17
  <2> QED BY <1>15, <2>1, HeapIs
<1> QED BY <1>9, <1>12, <1>13, <1>18 DEF PoolsInv

LEMMA FreeStep ==
  ASSUME PoolsInv, NEW u \in SysUser, sys_free(u)
  PROVE  PoolsInv'
<1>1. /\ SysTypes /\ CallOK(u) /\ ObjectsOK /\ Taken = {s \in Slot : Held(s)} /\ HeldOnce /\ heap = HeapHas
      /\ heap \in Int /\ objs \in [SysUser -> Seq(SysObj)]
      /\ sys[u].at = "idle" /\ objs[u] /= <<>> /\ UNCHANGED <<thread_pool, sys>>
  BY HeapIs DEF PoolsInv, SysTypes, sys_free
<1>2. PICK ob \in Seq(SysObj) : ob = objs[u] /\ ob # <<>> /\ 1 \in 1..Len(ob) /\ Head(ob) = ob[1]
  <2>1. objs[u] \in Seq(SysObj)
    BY <1>1
  <2> QED BY <1>1, <2>1
<1>3. /\ 1 \in Places(u) /\ Sems(u, 1) = ob[1].sems /\ ob[1].sems # <<>> /\ ob[1].sems \in Seq(Slot)
      /\ 1 \in DOMAIN ob[1].sems /\ ob[1].sems[1] \in Slot
  BY <1>1, <1>2, FirstHeld
<1>4. PICK k \in SysKind : k = ob[1].kind
  BY <1>1, <1>2, FirstHeld
<1>5. /\ sem_pool' = sem_release_to_pool(sem_pool, Sems(u, 1))
      /\ heap' = heap - Blocks(k) - Len(Sems(u, 1)) /\ objs' = [objs EXCEPT ![u] = Tail(@)]
  BY <1>2, <1>3, <1>4 DEF sys_free
<1>6. /\ sem_pool' \in [Slot -> SysSem] /\ Taken' = Taken \ ToSet(Sems(u, 1))
      /\ \A i \in Slot : i \notin ToSet(Sems(u, 1)) => sem_pool'[i] = sem_pool[i]
  BY <1>1, <1>5, Released
<1>7. 0 \notin ToSet(Sems(u, 1))
  <2>1. PICK w \in Seq(Slot) : w = Sems(u, 1)
    BY <1>3
  <2>2. \A i \in DOMAIN w : w[i] \in Slot
    BY <2>1
  <2> QED BY <2>1, <2>2 DEF ToSet, Slot
<1>8. PICK n \in Nat : n = Len(Sems(u, 1)) /\ Cardinality(Taken)' = Cardinality(Taken) - n
  BY <1>1, <1>3, <1>6, <1>7, AtPlace
<1>9. \A i \in Slot : sem_pool[i].free => sem_pool'[i] = sem_pool[i]
  <2>1. ToSet(Sems(u, 1)) \ {0} \subseteq Taken
    BY <1>1, <1>3, AtPlace
  <2> QED BY <1>6, <2>1 DEF Taken, Slot
<1>10. /\ sys' = [sys EXCEPT ![u] = sys[u]] /\ sys[u] \in SysCall /\ sys[u].got = <<>>
  BY <1>1 DEF SysTypes, CallOK
<1>11. (\A v \in SysUser : CallOK(v)') /\ OneMark'
  BY <1>1, <1>9, <1>10, OthersOK
<1>12. PICK b \in Nat : b = Blocks(k) /\ b = (IF k = "mutex" THEN 1 ELSE 0) + (IF k = "mbox" THEN 2 ELSE 0)
  BY KindsAre DEF SysKind
<1>13. heap' \in Int /\ heap' = heap - b - n
  BY <1>1, <1>5, <1>8, <1>12
<1>14. /\ objs'[u] = Tail(ob) /\ \A v \in SysUser : v # u => objs'[v] = objs[v]
       /\ Len(ob) \in Nat \ {0}
  BY <1>1, <1>2, <1>5
<1>15. /\ Tail(ob) \in Seq(SysObj) /\ Len(Tail(ob)) = Len(ob) - 1
       /\ \A i \in 1..Len(Tail(ob)) : i + 1 \in 1..Len(ob) /\ Tail(ob)[i] = ob[i + 1]
  BY <1>2, HeadTailProperties
<1>16. objs' \in [SysUser -> Seq(SysObj)]
  <2>1. objs' = [objs EXCEPT ![u] = Tail(ob)]
    BY <1>2, <1>5
  <2> QED BY <1>1, <1>15, <2>1
<1>17. SysTypes' /\ ThreadsInv'
  BY <1>1, <1>6, <1>10, <1>13, <1>16, SysStays, ThreadsKept DEF PoolsInv
<1>18. ObjectsOK'
  <2>1. ASSUME NEW v \in SysUser, NEW i \in 1..Len(objs'[v]) PROVE objs'[v][i].sems # <<>>
    <3>1. CASE v # u
      BY <1>1, <1>14, <2>1, <3>1 DEF ObjectsOK
    <3>2. CASE v = u
      <4>1. i \in 1..Len(Tail(ob))
        BY <1>14, <2>1, <3>2
      <4>2. objs'[v][i] = objs[u][i + 1] /\ i + 1 \in 1..Len(objs[u])
        BY <1>2, <1>14, <1>15, <3>2, <4>1
      <4> QED BY <1>1, <4>2 DEF ObjectsOK
    <3> QED BY <3>1, <3>2
  <2> QED BY <2>1 DEF ObjectsOK
<1>19. /\ \A v \in SysUser : v # u => Places(v)' = Places(v) /\ \A m \in Places(v) : Sems(v, m)' = Sems(v, m)
       /\ \A v \in SysUser : Places(v)' \subseteq Nat /\ Places(v) \subseteq Nat
       /\ 0 \in Places(u)' /\ Sems(u, 0)' = Sems(u, 0) /\ 0 \in Places(u)
       /\ \A m \in Places(u)' : m # 0 => m + 1 \in Places(u) /\ Sems(u, m)' = Sems(u, m + 1)
       /\ \A m \in Places(u) : m > 1 => m - 1 \in Places(u)'
  <2>1. \A v \in SysUser : v # u => Places(v)' = Places(v) /\ \A m \in Places(v) : Sems(v, m)' = Sems(v, m)
    BY <1>1, <1>14 DEF Places, Sems
  <2>2. \A v \in SysUser : Places(v)' \subseteq Nat /\ Places(v) \subseteq Nat
    BY DEF Places
  <2>3. Places(u)' = 0..(Len(ob) - 1) /\ Places(u) = 0..Len(ob)
    BY <1>2, <1>14, <1>15 DEF Places
  <2>4. 0 \in Places(u)' /\ 0 \in Places(u)
    BY <1>14, <2>3
  <2>5. Sems(u, 0)' = Sems(u, 0)
    BY <1>1 DEF Sems
  <2>6. ASSUME NEW m \in Places(u)', m # 0 PROVE m + 1 \in Places(u) /\ Sems(u, m)' = Sems(u, m + 1)
    <3>1. m \in 1..Len(Tail(ob)) /\ m + 1 \in Places(u) /\ m + 1 # 0
      BY <1>14, <1>15, <2>3, <2>6
    <3>2. Tail(ob)[m] = ob[m + 1]
      BY <1>15, <3>1
    <3> QED BY <1>2, <1>14, <2>6, <3>1, <3>2 DEF Sems
  <2>7. \A m \in Places(u) : m > 1 => m - 1 \in Places(u)'
    BY <1>14, <2>3
  <2> QED BY <2>1, <2>2, <2>4, <2>5, <2>6, <2>7
<1>20. Taken' = {s \in Slot : Held(s)'} /\ HeldOnce'
  <2> DEFINE f == [v \in SysUser |-> [m \in Nat |-> IF v = u /\ m # 0 THEN m + 1 ELSE m]]
  <2>2. \A v \in SysUser : \A m \in Nat : f[v][m] = IF v = u /\ m # 0 THEN m + 1 ELSE m
    OBVIOUS
  <2> HIDE DEF f
  <2>3. PICK o \in Places(u) : o = 1
    BY <1>3
  <2>6. \A v \in SysUser : \A m \in Places(v)' :
           Sems(v, m)' = <<>> \/ (f[v][m] \in Places(v) /\ Sems(v, m)' = Sems(v, f[v][m])
                                    /\ ~(v = u /\ f[v][m] = o))
    <3> TAKE v \in SysUser
    <3> TAKE m \in Places(v)'
    <3>1. m \in Nat
      BY <1>19
    <3>2. CASE v # u
      BY <1>19, <2>2, <2>3, <3>1, <3>2
    <3>3. CASE v = u /\ m = 0
      BY <1>19, <2>2, <2>3, <3>3
    <3>4. CASE v = u /\ m # 0
      <4>1. m + 1 \in Places(u) /\ Sems(u, m)' = Sems(u, m + 1)
        BY <1>19, <3>4
      <4>2. f[v][m] = m + 1
        BY <2>2, <3>1, <3>4
      <4>3. m + 1 # o
        BY <2>3, <3>1, <3>4
      <4> QED BY <3>4, <4>1, <4>2, <4>3
    <3> QED BY <3>2, <3>3, <3>4
  <2>7. \A v \in SysUser : \A m, j \in Places(v)' :
           Sems(v, m)' # <<>> /\ Sems(v, j)' # <<>> /\ f[v][m] = f[v][j] => m = j
    <3>1. ASSUME NEW v \in SysUser, NEW m \in Places(v)', NEW j \in Places(v)', f[v][m] = f[v][j] PROVE m = j
      <4>1. m \in Nat /\ j \in Nat
        BY <1>19
      <4>2. /\ f[v][m] = IF v = u /\ m # 0 THEN m + 1 ELSE m
            /\ f[v][j] = IF v = u /\ j # 0 THEN j + 1 ELSE j
        BY <2>2, <4>1
      <4>3. CASE v # u
        BY <3>1, <4>2, <4>3
      <4>4. CASE v = u
        <5>1. (IF m # 0 THEN m + 1 ELSE m) = (IF j # 0 THEN j + 1 ELSE j)
          BY <3>1, <4>2, <4>4
        <5> QED BY ONLY <4>1, <5>1
      <4> QED BY <4>3, <4>4
    <3> QED BY <3>1
  <2>8. \A v \in SysUser : \A j \in Places(v) :
           (v = u /\ j = o) \/ \E m \in Places(v)' : Sems(v, m)' = Sems(v, j)
    <3> TAKE v \in SysUser
    <3> TAKE j \in Places(v)
    <3>1. j \in Nat
      BY <1>19
    <3>2. CASE v # u
      BY <1>19, <3>2
    <3>3. CASE v = u /\ j = 0
      BY <1>19, <2>3, <3>3
    <3>4. CASE v = u /\ j > 1
      <4>1. j - 1 \in Places(u)' /\ j - 1 # 0 /\ (j - 1) + 1 = j
        BY <1>19, <3>1, <3>4
      <4>2. Sems(u, j - 1)' = Sems(u, (j - 1) + 1)
        BY <1>19, <4>1
      <4>3. Sems(u, j - 1)' = Sems(u, j)
        BY ONLY <4>1, <4>2, Zenon
      <4>4. \E m \in Places(u)' : Sems(u, m)' = Sems(u, j)
        BY ONLY <4>1, <4>3, Zenon
      <4>5. v = u
        BY <3>4
      <4> QED BY ONLY <4>4, <4>5, SMT
    <3> QED BY <2>3, <3>1, <3>2, <3>3, <3>4
  <2>9. SysTypes /\ Taken = {s \in Slot : Held(s)} /\ HeldOnce
    BY <1>1
  <2>10. Taken' = Taken \ ToSet(Sems(u, o))
    BY <1>6, <2>3
  <2>11. LeftFrom(f, u, o)
    BY <2>6 DEF LeftFrom
  <2>12. LeftApart(f)
    BY <2>7 DEF LeftApart
  <2>13. LeftAll(u, o)
    BY <2>8 DEF LeftAll
  <2> QED BY ONLY <2>9, <2>10, <2>11, <2>12, <2>13, u \in SysUser, o \in Places(u), LeavesHeld
<1>21. PICK t \in Slot : t = ob[1].sems[1]
  BY <1>3
<1>22. ASSUME NEW x PROVE Making(x)' = Making(x) /\ Firsts(x)' = IF x = k THEN Firsts(x) \ {t} ELSE Firsts(x)
  <2>1. Making(x)' = Making(x)
    BY <1>1 DEF Making
  <2>2. ASSUME NEW s \in Firsts(x)' PROVE s \in Firsts(x) /\ (x = k => s # t)
    <3>1. s \in Slot /\ \E v \in SysUser : \E i \in DOMAIN objs'[v] : objs'[v][i].kind = x /\ objs'[v][i].sems[1] = s
      BY DEF Firsts
    <3>2. PICK v \in SysUser : \E i \in DOMAIN objs'[v] : objs'[v][i].kind = x /\ objs'[v][i].sems[1] = s
      BY <3>1
    <3>3. PICK i \in DOMAIN objs'[v] : objs'[v][i].kind = x /\ objs'[v][i].sems[1] = s
      BY <3>2
    <3>4. i \in 1..Len(objs'[v])
      BY <1>16
    <3>5. \E j \in 1..Len(objs[v]) : objs[v][j] = objs'[v][i] /\ ~(v = u /\ j = 1)
      <4>1. CASE v # u
        BY <1>14, <3>4, <4>1
      <4>2. CASE v = u
        <5>1. i \in 1..Len(Tail(ob)) /\ objs'[v][i] = Tail(ob)[i]
          BY <1>14, <3>4, <4>2
        <5>2. i + 1 \in 1..Len(ob) /\ Tail(ob)[i] = ob[i + 1] /\ i + 1 # 1
          BY <1>15, <5>1
        <5> QED BY <1>2, <4>2, <5>1, <5>2
      <4> QED BY <4>1, <4>2
    <3>6. PICK j \in 1..Len(objs[v]) : objs[v][j] = objs'[v][i] /\ ~(v = u /\ j = 1)
      BY <3>5
    <3>7. j \in DOMAIN objs[v]
      BY <1>1
    <3>8. s \in Firsts(x)
      BY <3>1, <3>3, <3>6, <3>7 DEF Firsts
    <3>9. s # t
      <4>1. j \in Places(v) /\ 1 \in DOMAIN Sems(v, j) /\ Sems(v, j)[1] = s
        BY <1>1, <3>3, <3>6, FirstHeld
      <4>2. 1 \in DOMAIN Sems(u, 1) /\ Sems(u, 1)[1] = t /\ t # 0
        BY <1>3, <1>21 DEF Slot
      <4> QED BY <1>1, <1>3, <3>6, <4>1, <4>2 DEF HeldOnce
    <3> QED BY <3>8, <3>9
  <2>3. ASSUME NEW s \in Firsts(x), ~(x = k /\ s = t) PROVE s \in Firsts(x)'
    <3>1. s \in Slot /\ \E v \in SysUser : \E i \in DOMAIN objs[v] : objs[v][i].kind = x /\ objs[v][i].sems[1] = s
      BY DEF Firsts
    <3>2. PICK v \in SysUser : \E i \in DOMAIN objs[v] : objs[v][i].kind = x /\ objs[v][i].sems[1] = s
      BY <3>1
    <3>3. PICK i \in DOMAIN objs[v] : objs[v][i].kind = x /\ objs[v][i].sems[1] = s
      BY <3>2
    <3>4. i \in 1..Len(objs[v])
      BY <1>1
    <3>5. \E j \in 1..Len(objs'[v]) : objs'[v][j] = objs[v][i]
      <4>1. CASE v # u
        BY <1>14, <3>4, <4>1
      <4>2. CASE v = u
        <5>1. i # 1
          BY <1>2, <1>4, <1>21, <2>3, <3>3, <4>2
        <5>2. i - 1 \in 1..Len(Tail(ob)) /\ (i - 1) + 1 = i
          BY <1>2, <1>14, <1>15, <3>4, <4>2, <5>1
        <5>3. Tail(ob)[i - 1] = ob[(i - 1) + 1]
          BY <1>15, <5>2
        <5>4. Tail(ob)[i - 1] = ob[i]
          BY ONLY <5>2, <5>3, Zenon
        <5> QED BY <1>2, <1>14, <4>2, <5>2, <5>4
      <4> QED BY <4>1, <4>2
    <3>6. PICK j \in 1..Len(objs'[v]) : objs'[v][j] = objs[v][i]
      BY <3>5
    <3>7. j \in DOMAIN objs'[v]
      BY <1>16
    <3> QED BY <3>1, <3>3, <3>6, <3>7 DEF Firsts
  <2>4. x = k => t \in Firsts(x)
    <3>1. 1 \in DOMAIN objs[u]
      BY <1>2
    <3> QED BY <1>2, <1>4, <1>21, <3>1 DEF Firsts
  <2> QED BY <2>1, <2>2, <2>3
<1>23. t \in Firsts(k)
  <2>1. 1 \in DOMAIN objs[u]
    BY <1>2
  <2> QED BY <1>2, <1>4, <1>21, <2>1 DEF Firsts
<1>24. HeapHas' = HeapHas - b - n
  <2>2. Cardinality(Firsts(k))' = Cardinality(Firsts(k)) - 1
    <3>1. Cardinality(Firsts(k) \ {t}) = Cardinality(Firsts(k)) - 1
      BY <1>23, DropOne, FiniteParts
    <3> QED BY <1>22, <3>1
  <2>3. Cardinality(Firsts("mutex"))' = Cardinality(Firsts("mutex")) - (IF k = "mutex" THEN 1 ELSE 0)
    <3>1. CASE k = "mutex"
      BY <2>2, <3>1
    <3>2. CASE k # "mutex"
      BY <1>22, <3>2, FiniteParts
    <3> QED BY <3>1, <3>2
  <2>4. Cardinality(Firsts("mbox"))' = Cardinality(Firsts("mbox")) - (IF k = "mbox" THEN 1 ELSE 0)
    <3>1. CASE k = "mbox"
      BY <2>2, <3>1
    <3>2. CASE k # "mbox"
      BY <1>22, <3>2, FiniteParts
    <3> QED BY <3>1, <3>2
  <2> QED BY <1>8, <1>12, <1>22, <2>3, <2>4, HeapFewer
<1>25. SlotsExact'
  <2>1. heap' = HeapHas'
    BY <1>1, <1>13, <1>24
  <2> QED BY <1>20, <2>1, HeapIs
<1> QED BY <1>11, <1>17, <1>18, <1>25 DEF PoolsInv

LEMMA SemRaised ==
  ASSUME NEW x \in SysSem
  PROVE  [x EXCEPT !.count = x.count + 1] = [created |-> x.created, free |-> x.free, count |-> x.count + 1]
<1>1. PICK n : n = x.count + 1
  OBVIOUS
<1>2. [x EXCEPT !.count = n] = [created |-> x.created, free |-> x.free, count |-> n]
  BY SemFields
<1> QED BY <1>1, <1>2

LEMMA SignalStep ==
  ASSUME PoolsInv, NEW u \in SysUser, sys_sem_signal(u)
  PROVE  PoolsInv'
<1>1. /\ SysTypes /\ CallOK(u) /\ ObjectsOK /\ Taken = {s \in Slot : Held(s)} /\ HeldOnce /\ heap = HeapHas
      /\ heap \in Int /\ objs \in [SysUser -> Seq(SysObj)] /\ sem_pool \in [Slot -> SysSem]
      /\ sys[u].at = "idle" /\ objs[u] /= <<>> /\ UNCHANGED <<thread_pool, heap, sys, objs>>
  BY HeapIs DEF PoolsInv, SysTypes, sys_sem_signal
<1>2. PICK ob \in Seq(SysObj) : ob = objs[u] /\ ob # <<>> /\ 1 \in 1..Len(ob) /\ Head(ob) = ob[1]
  <2>1. objs[u] \in Seq(SysObj)
    BY <1>1
  <2> QED BY <1>1, <2>1
<1>3. PICK w \in Seq(Slot) : w = ob[1].sems /\ w = Sems(u, 1) /\ w # <<>> /\ 1 \in Places(u)
  BY <1>1, <1>2, FirstHeld
<1>4. PICK s \in Slot : s = w[Len(w)] /\ s \in ToSet(w)
  <2>1. Len(w) \in DOMAIN w /\ w[Len(w)] \in Slot
    BY <1>3
  <2> QED BY <2>1 DEF ToSet
<1>5. sem_pool' = [sem_pool EXCEPT ![s].count = @ + 1]
  BY <1>2, <1>3, <1>4 DEF sys_sem_signal, Last
<1>6. ~sem_pool[s].free
  <2>1. Held(s)
    BY <1>3, <1>4 DEF Held
  <2> QED BY <1>1, <2>1 DEF Taken
<1>7. PICK r \in SysSem : r = [created |-> sem_pool[s].created, free |-> sem_pool[s].free, count |-> sem_pool[s].count + 1]
  <2>1. sem_pool[s].created \in BOOLEAN /\ sem_pool[s].free \in BOOLEAN /\ sem_pool[s].count \in Nat
    BY <1>1, SemFields
  <2>2. sem_pool[s].count + 1 \in Nat
    BY <2>1
  <2>3. \A a, b \in BOOLEAN : \A n \in Nat : [created |-> a, free |-> b, count |-> n] \in SysSem
    BY DEF SysSem
  <2>4. [created |-> sem_pool[s].created, free |-> sem_pool[s].free, count |-> sem_pool[s].count + 1] \in SysSem
    BY ONLY <2>1, <2>2, <2>3, Zenon
  <2> QED BY ONLY <2>4, Zenon
<1>8. sem_pool' = [sem_pool EXCEPT ![s] = r]
  <2>1. [sem_pool[s] EXCEPT !.count = sem_pool[s].count + 1] = r
    BY <1>1, <1>7, SemRaised
  <2> QED BY <1>1, <1>5, <2>1
<1>9. /\ sem_pool' \in [Slot -> SysSem] /\ \A i \in Slot : sem_pool'[i].free = sem_pool[i].free
      /\ \A i \in Slot : sem_pool[i].free => sem_pool'[i] = sem_pool[i]
  BY <1>1, <1>6, <1>7, <1>8
<1>10. /\ sys' = [sys EXCEPT ![u] = sys[u]] /\ sys[u] \in SysCall /\ sys[u].got = <<>>
  BY <1>1 DEF SysTypes, CallOK
<1>11. (\A v \in SysUser : CallOK(v)') /\ OneMark'
  BY <1>1, <1>9, <1>10, OthersOK
<1>12. SysTypes' /\ ThreadsInv' /\ ObjectsOK'
  BY <1>1, <1>9, <1>10, SysStays, ThreadsKept DEF PoolsInv, ObjectsOK
<1>13. \A v \in SysUser : Places(v)' = Places(v) /\ \A m \in Places(v) : Sems(v, m)' = Sems(v, m)
  BY <1>1 DEF Places, Sems
<1>14. Taken' = Taken
  BY <1>9 DEF Taken
<1>15. HeapHas' = HeapHas
  <2>1. \A x : Firsts(x)' = Firsts(x) /\ Making(x)' = Making(x)
    BY <1>1 DEF Firsts, Making
  <2> QED BY <1>14, <2>1 DEF HeapHas
<1>16. SlotsExact'
  BY <1>1, <1>13, <1>14, <1>15, SameHeld, HeapIs
<1> QED BY <1>11, <1>12, <1>16 DEF PoolsInv

(* A thread is made: the objects stay.                                     *)
LEMMA ThreadMade ==
  ASSUME PoolsInv, NEW u \in SysUser, NEW c, sys' = [sys EXCEPT ![u] = c], c.at \in {"idle", "cre"}, c.got = <<>>,
         sys[u].at \in {"idle", "cre"}, UNCHANGED <<sem_pool, heap, objs>>, SysTypes', ThreadsInv'
  PROVE  PoolsInv'
<1>1. /\ SysTypes /\ CallOK(u) /\ Taken = {s \in Slot : Held(s)} /\ HeldOnce /\ heap = HeapHas
      /\ \A v \in SysUser : sys'[v] = IF v = u THEN c ELSE sys[v]
  BY HeapIs DEF PoolsInv, SysTypes
<1>2. ASSUME NEW v \in SysUser PROVE CallOK(v)'
  <2>1. CASE v = u
    BY <1>1, <2>1 DEF CallOK
  <2>2. CASE v # u
    <3>1. sys'[v] = sys[v] /\ CallOK(v)
      BY <1>1, <2>2 DEF PoolsInv
    <3> QED BY <3>1 DEF CallOK
  <2> QED BY <2>1, <2>2
<1>3. OneMark' /\ ObjectsOK'
  BY <1>1 DEF PoolsInv, OneMark, ObjectsOK
<1>4. \A v \in SysUser : Places(v)' = Places(v) /\ \A m \in Places(v) : Sems(v, m)' = Sems(v, m)
  <2> TAKE v \in SysUser
  <2>1. Sems(u, 0) = <<>>
    BY <1>1 DEF CallOK, Sems
  <2>2. /\ Places(v)' = Places(v)
        /\ \A m : Sems(v, m)' = IF v = u /\ m = 0 THEN <<>> ELSE Sems(v, m)
    BY <1>1, SemsOfCall
  <2> QED BY <2>1, <2>2
<1>5. Taken' = Taken
  BY TakenKept
<1>6. HeapHas' = HeapHas
  <2>1. ASSUME NEW x PROVE Firsts(x)' = Firsts(x) /\ Making(x)' = Making(x)
    <3>1. u \notin Making(x)
      BY DEF Making
    <3>2. Making(x)' = Making(x) \ {u}
      BY <1>1, MakingIs DEF InCall
    <3> QED BY <3>1, <3>2, FirstsKept
  <2> QED BY <1>5, <2>1 DEF HeapHas
<1>7. SlotsExact'
  BY <1>1, <1>4, <1>5, <1>6, SameHeld, HeapIs
<1> QED BY <1>2, <1>3, <1>7 DEF PoolsInv

LEMMA ThreadNewStep ==
  ASSUME PoolsInv, NEW u \in SysUser, NEW fn \in SysUser \union {"tcpip", "echo7"}, sys_thread_new(u, fn)
  PROVE  PoolsInv'
<1>1. SysTypes /\ ThreadsInv
  BY DEF PoolsInv
<1>2. ThreadsInv' /\ thread_pool' \in [Thread -> SysThr] /\ sys' \in [SysUser -> SysCall]
  BY <1>1, ThreadTaken
<1>3. sys[u].at = "idle" /\ UNCHANGED <<sem_pool, heap, objs>>
  BY DEF sys_thread_new
<1>4. PICK i \in Unused : Calls(u, Call("cre", fn, <<>>, <<>>, i))
  BY DEF sys_thread_new
<1>5. PICK c : c = Call("cre", fn, <<>>, <<>>, i)
  OBVIOUS
<1>6. sys' = [sys EXCEPT ![u] = c]
  BY <1>4, <1>5, Zenon DEF Calls
<1>7. c.at = "cre" /\ c.got = <<>>
  BY <1>5 DEF Call
<1>8. SysTypes'
  BY <1>1, <1>2, <1>3 DEF SysTypes
<1> QED BY <1>2, <1>3, <1>6, <1>7, <1>8, ThreadMade

LEMMA ThreadGoesStep ==
  ASSUME PoolsInv, NEW u \in SysUser, sys_thread_started(u)
  PROVE  PoolsInv'
<1>1. SysTypes /\ ThreadsInv
  BY DEF PoolsInv
<1>2. ThreadsInv' /\ thread_pool' \in [Thread -> SysThr] /\ sys' = [sys EXCEPT ![u] = IdleCall]
  BY <1>1, ThreadStarted
<1>3. sys[u].at = "cre" /\ UNCHANGED <<sem_pool, heap, objs>>
  BY DEF sys_thread_started
<1>4. SysTypes'
  BY <1>1, <1>2, <1>3, IdleIs DEF SysTypes
<1> QED BY <1>2, <1>3, <1>4, IdleIs, ThreadMade

LEMMA MadeOf ==
  ASSUME PoolsInv, NEW u \in SysUser, sys_made(u) PROVE PoolsInv'
<1>1. sys[u].at = "made" /\ sys' = [sys EXCEPT ![u] = IdleCall] /\ UNCHANGED thread_pool
  BY DEF sys_made, Calls
<1>2. CASE 0 \notin ToSet(sys[u].got)
  <2>1. /\ objs' = [objs EXCEPT ![u] = Append(@, [kind |-> sys[u].kind, sems |-> sys[u].got])]
        /\ UNCHANGED <<sem_pool, heap>>
    BY <1>2 DEF sys_made
  <2> QED BY <1>1, <1>2, <2>1, MadeStep
<1>3. CASE 0 \in ToSet(sys[u].got)
  <2>1. /\ sem_pool' = sem_release_to_pool(sem_pool, sys[u].got)
        /\ heap' = heap - Blocks(sys[u].kind) - Made(sys[u].got) /\ UNCHANGED objs
    BY <1>3 DEF sys_made
  <2> QED BY <1>1, <2>1, UndoStep
<1> QED BY <1>2, <1>3

LEMMA SysStepKeeps ==
  ASSUME Alone, PoolsInv, SysStep PROVE PoolsInv'
<1>1. PICK u \in SysUser : SysObject(u) \/ SysThread(u)
  BY DEF SysStep
<1>2. CASE SysObject(u)
  BY <1>2, NewStep, SearchStep, MarkStep, MadeOf, FreeStep, SignalStep DEF SysObject
<1>3. CASE SysThread(u)
  BY <1>3, ThreadNewStep, ThreadGoesStep DEF SysThread
<1> QED BY <1>1, <1>2, <1>3

LEMMA PoolsInit == ASSUME SysInit PROVE PoolsInv
<1>1. /\ sem_pool = [i \in Slot |-> [created |-> FALSE, free |-> TRUE, count |-> 0]]
      /\ thread_pool = [i \in Thread |-> [used |-> FALSE, fn |-> "none", task |-> "none"]]
      /\ heap = 0 /\ sys = [u \in SysUser |-> IdleCall] /\ objs = [u \in SysUser |-> <<>>]
  BY DEF SysInit
<1>2. /\ \A i \in Slot : sem_pool[i].free = TRUE
      /\ \A i \in Thread : thread_pool[i].used = FALSE /\ thread_pool[i].task = "none"
      /\ \A u \in SysUser : sys[u].at = "idle" /\ sys[u].got = <<>> /\ objs[u] = <<>>
  BY <1>1, IdleIs
<1>3. SysTypes
  <2>1. /\ [created |-> FALSE, free |-> TRUE, count |-> 0] \in SysSem
        /\ [used |-> FALSE, fn |-> "none", task |-> "none"] \in SysThr
        /\ <<>> \in Seq(SysObj)
    BY DEF SysSem, SysThr
  <2> QED BY <1>1, <2>1, IdleIs DEF SysTypes
<1>4. ThreadsInv
  BY <1>2 DEF ThreadsInv, PlacesFree, StartsOwn, StartsApart
<1>5. (\A u \in SysUser : CallOK(u)) /\ OneMark
  BY <1>2 DEF CallOK, OneMark
<1>6. ObjectsOK
  BY <1>2 DEF ObjectsOK
<1>7. \A u \in SysUser : Places(u) = {0} /\ Sems(u, 0) = <<>>
  BY <1>2 DEF Places, Sems
<1>8. Taken = {} /\ (\A s : ~Held(s)) /\ HeldOnce
  BY <1>2, <1>7 DEF Taken, Held, HeldOnce, ToSet
<1>9. \A x : Firsts(x) = {} /\ Making(x) = {}
  BY <1>2 DEF Firsts, Making
<1>10. HeapHas = 0
  BY <1>8, <1>9, FS_EmptySet DEF HeapHas
<1> QED BY <1>1, <1>3, <1>4, <1>5, <1>6, <1>8, <1>10, HeapIs DEF PoolsInv

LEMMA BootPools ==
  ASSUME PoolsInv, "init" \in SysUser, Booting PROVE PoolsInv'
<1>1. CASE tcpip_init
  BY <1>1, ThreadNewStep DEF tcpip_init
<1>2. CASE net_init_wait
  BY <1>2, PoolsSame DEF net_init_wait, sysvars
<1>3. CASE net_start_echo
  BY <1>3, ThreadNewStep DEF net_start_echo
<1>4. CASE net_thread_started
  BY <1>4, ThreadGoesStep DEF net_thread_started
<1> QED BY <1>1, <1>2, <1>3, <1>4 DEF Booting

------------------------------------------------------------------------------
(* All parts: each leaves the variables of the others alone.               *)
LEMMA OnlyPart ==
  ASSUME Next
  PROVE  /\ part' = part
         /\ part # "sys" => UNCHANGED sysvars \/ (Booting /\ part = "boot")
         /\ part # "boot" => UNCHANGED bootvars
         /\ part = "sys" => SysStep
         /\ part = "boot" => \/ UNCHANGED <<sysvars, bootvars>> \/ Booting \/ net_tcpip_init_done \/ Echoing
                             \/ init_tsk /\ UNCHANGED sysvars
<1>1. part' = part
  BY DEF Next
<1>2. CASE part = "boot"
  <2>1. InitTask \/ LwipThreads
    BY <1>2 DEF Next
  <2>2. \/ UNCHANGED <<sysvars, bootvars>> \/ Booting \/ net_tcpip_init_done \/ Echoing
        \/ init_tsk /\ UNCHANGED sysvars
    BY <2>1 DEF InitTask, LwipThreads
  <2>3. UNCHANGED sysvars \/ Booting
    BY <2>2 DEF net_tcpip_init_done, Echoing, echo_listen, echo_accept, echo_recv, echo_write, netbuf_delete,
                echo_close
  <2> QED BY <1>1, <1>2, <2>2, <2>3
<1>3. CASE part = "sys"
  BY <1>1, <1>3 DEF Next
<1>4. CASE part \notin {"sys", "boot"}
  BY <1>1, <1>4 DEF Next
<1> QED BY <1>2, <1>3, <1>4

LEMMA InitParts == ASSUME Init PROVE SysInit /\ NetInitInit
BY DEF Init

(* The echo service is only there in a board's start, where lwIP's objects *)
(* are not made.                                                           *)
EchoNet ==
  /\ EchoInv
  /\ part # "boot" => ~tcpip_ready /\ boot = "off"
  /\ part = "boot" => SysTypes /\ ThreadsInv

LEMMA TaskKept ==
  ASSUME EchoInv, init_tsk, UNCHANGED sysvars PROVE EchoInv'
<1>1. RunsStay
  BY DEF sysvars, RunsStay
<1>2. UNCHANGED <<tcpip_ready, echovars>>
  BY DEF init_tsk, bootvars
<1>3. boot' \in {"echo", "done"} => boot' = boot
  BY DEF init_tsk, bootvars, nic_init, net_starts
<1>4. EchoTypes' /\ EchoData' /\ EchoCounts'
  BY <1>2 DEF echovars, EchoInv, EchoTypes, EchoData, EchoCounts
<1>5. EchoStarts'
  BY <1>1, <1>2, <1>3, StillRunning DEF EchoInv, EchoStarts
<1> QED BY <1>4, <1>5 DEF EchoInv

LEMMA BootThreads ==
  ASSUME SysTypes, ThreadsInv, Booting, "init" \in SysUser
  PROVE  SysTypes' /\ ThreadsInv' /\ RunsStay
<1>1. ASSUME NEW fn \in SysUser \union {"tcpip", "echo7"}, sys_thread_new("init", fn)
      PROVE  SysTypes' /\ ThreadsInv' /\ RunsStay
  <2>1. /\ ThreadsInv' /\ thread_pool' \in [Thread -> SysThr] /\ sys' \in [SysUser -> SysCall]
        /\ \A i \in Thread : thread_pool'[i].task = thread_pool[i].task
    BY <1>1, ThreadTaken
  <2>2. UNCHANGED <<sem_pool, heap, objs>>
    BY <1>1 DEF sys_thread_new
  <2> QED BY <2>1, <2>2 DEF SysTypes, RunsStay
<1>2. CASE tcpip_init
  BY <1>1, <1>2 DEF tcpip_init
<1>3. CASE net_init_wait
  BY <1>3 DEF net_init_wait, sysvars, SysTypes, ThreadsInv, PlacesFree, StartsOwn, StartsApart, RunsStay
<1>4. CASE net_start_echo
  BY <1>1, <1>4 DEF net_start_echo
<1>5. CASE net_thread_started
  <2>1. /\ ThreadsInv' /\ thread_pool' \in [Thread -> SysThr] /\ sys' = [sys EXCEPT !["init"] = IdleCall]
        /\ \A i \in Thread : thread_pool[i].task # "none" => thread_pool'[i].task = thread_pool[i].task
    BY <1>5, ThreadStarted DEF net_thread_started
  <2>2. UNCHANGED <<sem_pool, heap, objs>>
    BY <1>5 DEF net_thread_started, sys_thread_started
  <2> QED BY <2>1, <2>2, IdleIs DEF SysTypes, RunsStay
<1> QED BY <1>2, <1>3, <1>4, <1>5 DEF Booting

LEMMA SysSame ==
  ASSUME SysTypes, ThreadsInv, UNCHANGED sysvars PROVE SysTypes' /\ ThreadsInv' /\ RunsStay
BY DEF sysvars, SysTypes, ThreadsInv, PlacesFree, StartsOwn, StartsApart, RunsStay

LEMMA EchoNetStep ==
  ASSUME EchoNet, [Next]_vars PROVE EchoNet'
<1>0. "init" \in SysUser
  BY NetAssumption
<1>1. CASE UNCHANGED vars
  <2>1. UNCHANGED part /\ UNCHANGED sysvars /\ UNCHANGED bootvars
    BY <1>1 DEF vars
  <2>2. EchoInv'
    <3>1. RunsStay
      BY <2>1 DEF sysvars, RunsStay
    <3> QED BY <2>1, <3>1, EchoKept DEF EchoNet
  <2>3. UNCHANGED <<boot, tcpip_ready>>
    BY <2>1 DEF bootvars
  <2>4. part = "boot" => SysTypes' /\ ThreadsInv'
    BY <2>1, SysSame DEF EchoNet
  <2> QED BY <2>1, <2>2, <2>3, <2>4 DEF EchoNet
<1>2. CASE Next /\ part # "boot"
  <2>1. part' = part /\ UNCHANGED bootvars
    BY <1>2, OnlyPart
  <2>2. UNCHANGED <<boot, tcpip_ready, echo, got, back, conns, netbufs, clients>>
    BY <2>1 DEF bootvars, echovars
  <2>3. EchoInv /\ ~tcpip_ready /\ boot = "off"
    BY <1>2 DEF EchoNet
  <2>4. EchoTypes' /\ EchoData' /\ EchoCounts'
    BY <2>2, <2>3 DEF EchoInv, EchoTypes, EchoData, EchoCounts
  <2>5. EchoStarts'
    BY <2>2, <2>3 DEF EchoStarts
  <2> QED BY <1>2, <2>1, <2>2, <2>3, <2>4, <2>5 DEF EchoNet, EchoInv
<1>3. CASE Next /\ part = "boot"
  <2>1. /\ part' = part
        /\ \/ UNCHANGED <<sysvars, bootvars>> \/ Booting \/ net_tcpip_init_done \/ Echoing
           \/ init_tsk /\ UNCHANGED sysvars
        /\ UNCHANGED sysvars \/ Booting
    BY <1>3, OnlyPart
  <2>2. EchoInv /\ SysTypes /\ ThreadsInv
    BY <1>3 DEF EchoNet
  <2>3. SysTypes' /\ ThreadsInv' /\ RunsStay
    BY <1>0, <2>1, <2>2, SysSame, BootThreads
  <2>4. EchoInv'
    BY <2>1, <2>2, <2>3, EchoKept, BootKept, ReadyKept, EchoStep, TaskKept
  <2> QED BY <1>3, <2>1, <2>3, <2>4 DEF EchoNet
<1> QED BY <1>1, <1>2, <1>3

(* What the echo thread sends back, holds and needs, in every behaviour of *)
(* any number of connections and pieces (net_init.c).                      *)
THEOREM NetEchoExact == Spec => []EchoExact
<1>1. Init => EchoNet
  <2> SUFFICES ASSUME Init PROVE EchoNet
    OBVIOUS
  <2>1. EchoInv
    BY InitParts, EchoInit
  <2>2. ~tcpip_ready /\ boot = "off"
    BY InitParts DEF NetInitInit
  <2>3. SysTypes /\ ThreadsInv
    BY InitParts, PoolsInit DEF PoolsInv
  <2> QED BY <2>1, <2>2, <2>3 DEF EchoNet
<1>2. EchoNet /\ [Next]_vars => EchoNet'
  BY EchoNetStep
<1>3. EchoNet => EchoExact
  BY EchoIs DEF EchoNet
<1> QED BY <1>1, <1>2, <1>3, PTL DEF Spec

LEMMA PoolsNext ==
  ASSUME Alone, PoolsInv, [Next]_vars PROVE PoolsInv'
<1>1. CASE UNCHANGED sysvars
  BY <1>1, PoolsSame DEF sysvars
<1>2. CASE UNCHANGED vars
  BY <1>1, <1>2 DEF vars
<1>3. CASE Next
  <2>1. UNCHANGED sysvars \/ Booting \/ SysStep
    BY <1>3, OnlyPart
  <2> QED BY <1>1, <2>1, NetAssumption, BootPools, SysStepKeeps
<1> QED BY <1>2, <1>3

(* The pools and the heap belong to the objects that exist or are being    *)
(* made, for any number of tasks, semaphores, threads and calls, when no   *)
(* task runs between another's choice of a semaphore and its marking it    *)
(* (sys_arch.c).                                                           *)
THEOREM NetPoolsExact == ASSUME Alone PROVE Spec => []PoolsExact
<1>1. Init => PoolsInv
  BY InitParts, PoolsInit
<1>2. PoolsInv /\ [Next]_vars => PoolsInv'
  BY PoolsNext
<1>3. PoolsInv => PoolsExact
  BY PoolsAre
<1> QED BY <1>1, <1>2, <1>3, PTL DEF Spec

------------------------------------------------------------------------------
(* The rings of a queue, whose indices run on modulo IDX.                  *)
LEMMA DivMod ==
  ASSUME NEW B \in Nat \ {0}, NEW p \in Nat
  PROVE  /\ p \div B \in Nat /\ (p % B) \in 0..(B - 1)
         /\ p = (p \div B) * B + (p % B)
OBVIOUS

LEMMA ModIs ==
  ASSUME NEW B \in Nat \ {0}, NEW v \in Nat, NEW r \in 0..(B - 1)
  PROVE  (v * B + r) % B = r
<1> DEFINE n == v * B + r
           d == n \div B
           m == n % B
<1>0. v * B \in Nat
  OBVIOUS
<1>1. n \in Nat
  BY <1>0
<1> HIDE DEF n
<1>2. d \in Nat /\ m \in 0..(B - 1) /\ n = d * B + m
  BY <1>1, DivMod
<1> HIDE DEF d, m
<1>3. CASE d < v
  <2>1. d + 1 <= v
    BY <1>2, <1>3
  <2>2. (d + 1) * B <= v * B
    BY <1>2, <2>1
  <2>3. (d + 1) * B = d * B + B
    BY <1>2
  <2>4. d * B \in Nat
    BY <1>2
  <2> QED BY <1>0, <1>2, <2>2, <2>3, <2>4 DEF n
<1>4. CASE v < d
  <2>1. v + 1 <= d
    BY <1>2, <1>4
  <2>2. (v + 1) * B <= d * B
    BY <1>2, <2>1
  <2>3. (v + 1) * B = v * B + B
    OBVIOUS
  <2>4. d * B \in Nat
    BY <1>2
  <2> QED BY <1>0, <1>2, <2>2, <2>3, <2>4 DEF n
<1>5. CASE v = d
  BY <1>0, <1>2, <1>5 DEF n, m
<1> QED BY <1>2, <1>3, <1>4, <1>5

LEMMA ModAdd ==
  ASSUME NEW B \in Nat \ {0}, NEW a \in Nat, NEW b \in Nat
  PROVE  ((a % B) + b) % B = (a + b) % B
<1> DEFINE v == a \div B
           r == a % B
           d == (r + b) \div B
           m == (r + b) % B
<1>1. v \in Nat /\ r \in 0..(B - 1) /\ a = v * B + r
  BY DivMod
<1> HIDE DEF v, r
<1>2. d \in Nat /\ m \in 0..(B - 1) /\ r + b = d * B + m
  <2>1. r + b \in Nat
    BY <1>1
  <2> QED BY <2>1, DivMod
<1> HIDE DEF d, m
<1>3. v * B \in Nat /\ d * B \in Nat /\ (v + d) * B = v * B + d * B
  BY <1>1, <1>2
<1>4. a + b = (v + d) * B + m
  BY <1>1, <1>2, <1>3
<1>5. ((v + d) * B + m) % B = m
  <2>1. v + d \in Nat
    BY <1>1, <1>2
  <2> QED BY <1>2, <2>1, ModIs
<1> QED BY <1>4, <1>5 DEF m, r

LEMMA NotWrapped ==
  ASSUME NEW B \in Nat \ {0}, NEW i \in Nat, NEW j \in Nat, i < j, j - i < B
  PROVE  i % B # j % B
<1> SUFFICES ASSUME i % B = j % B PROVE FALSE
  OBVIOUS
<1> DEFINE p == i \div B
           v == j \div B
           r == i % B
<1>1. p \in Nat /\ v \in Nat /\ r \in 0..(B - 1) /\ i = p * B + r /\ j = v * B + r
  BY DivMod
<1> HIDE DEF p, v, r
<1>2. p * B \in Nat /\ v * B \in Nat
  BY <1>1
<1>3. CASE v <= p
  <2>1. v * B <= p * B
    BY <1>1, <1>3
  <2> QED BY <1>1, <1>2, <2>1
<1>4. CASE p + 1 <= v
  <2>1. (p + 1) * B <= v * B
    BY <1>1, <1>4
  <2>2. (p + 1) * B = p * B + B
    BY <1>1
  <2> QED BY <1>1, <1>2, <2>1, <2>2
<1> QED BY <1>1, <1>3, <1>4

Index == 0..(IDX - 1)
Next1(a) == (a + 1) % IDX
Dist(a, b) == (b - a + IDX) % IDX

LEMMA SizesAre ==
  /\ QUEUE_SIZE \in Nat \ {0} /\ IDX \in Nat \ {0} /\ QUEUE_SIZE + 1 < IDX
  /\ IDX = (IDX \div QUEUE_SIZE) * QUEUE_SIZE /\ IDX \div QUEUE_SIZE \in Nat
<1>1. /\ QUEUE_SIZE \in Nat \ {0} /\ IDX \in Nat \ {0} /\ QUEUE_SIZE + 1 < IDX /\ IDX % QUEUE_SIZE = 0
  BY NetifAssumption, VirtioAssumption
<1>2. /\ IDX \div QUEUE_SIZE \in Nat /\ IDX = (IDX \div QUEUE_SIZE) * QUEUE_SIZE + (IDX % QUEUE_SIZE)
  BY <1>1, DivMod
<1>3. (IDX \div QUEUE_SIZE) * QUEUE_SIZE \in Nat
  BY <1>1, <1>2
<1> QED BY <1>1, <1>2, <1>3

(* What an index is, and the distance of two.                              *)
LEMMA IndexIs ==
  ASSUME NEW a \in Index, NEW b \in Index
  PROVE  /\ Next1(a) = (IF a + 1 = IDX THEN 0 ELSE a + 1) /\ Next1(a) \in Index
         /\ Dist(a, b) = (IF b >= a THEN b - a ELSE b - a + IDX) /\ Dist(a, b) \in Index
<1>1. a \in Nat /\ b \in Nat /\ a < IDX /\ b < IDX /\ IDX \in Nat /\ IDX > 1
  BY SizesAre DEF Index
<1>2. \A x \in Nat : x < IDX => x % IDX = x /\ (x + IDX) % IDX = x
  BY <1>1
<1>3. Next1(a) = (IF a + 1 = IDX THEN 0 ELSE a + 1)
  <2>1. CASE a + 1 = IDX
    BY <1>1, <2>1 DEF Next1
  <2>2. CASE a + 1 # IDX
    BY <1>1, <1>2, <2>2 DEF Next1
  <2> QED BY <2>1, <2>2
<1>4. Dist(a, b) = (IF b >= a THEN b - a ELSE b - a + IDX)
  <2>1. CASE b >= a
    <3>1. b - a \in Nat /\ b - a < IDX
      BY <1>1, <2>1
    <3> QED BY <1>2, <2>1, <3>1 DEF Dist
  <2>2. CASE b < a
    <3>1. b - a + IDX \in Nat /\ b - a + IDX < IDX
      BY <1>1, <2>2
    <3> QED BY <1>1, <1>2, <2>2, <3>1 DEF Dist
  <2> QED BY <1>1, <2>1, <2>2
<1> QED BY <1>1, <1>3, <1>4 DEF Index

LEMMA DistIs ==
  ASSUME NEW a \in Index, NEW b \in Index
  PROVE  /\ Dist(a, b) = 0 <=> a = b
         /\ a # b => Dist(Next1(a), b) = Dist(a, b) - 1
         /\ Dist(a, b) < IDX - 1 => Dist(a, Next1(b)) = Dist(a, b) + 1
<1>1. /\ a \in Nat /\ b \in Nat /\ a < IDX /\ b < IDX /\ IDX \in Nat /\ IDX > 1
  BY SizesAre DEF Index
<1>2. /\ Next1(a) = (IF a + 1 = IDX THEN 0 ELSE a + 1) /\ Next1(a) \in Index
      /\ Next1(b) = (IF b + 1 = IDX THEN 0 ELSE b + 1) /\ Next1(b) \in Index
      /\ Dist(a, b) = (IF b >= a THEN b - a ELSE b - a + IDX)
  BY IndexIs
<1>3. Dist(Next1(a), b) = (IF b >= Next1(a) THEN b - Next1(a) ELSE b - Next1(a) + IDX)
  BY <1>2, IndexIs
<1>4. Dist(a, Next1(b)) = (IF Next1(b) >= a THEN Next1(b) - a ELSE Next1(b) - a + IDX)
  BY <1>2, IndexIs
<1>5. Dist(a, b) = 0 <=> a = b
  BY <1>1, <1>2
<1>6. a # b => Dist(Next1(a), b) = Dist(a, b) - 1
  BY <1>1, <1>2, <1>3
<1>7. Dist(a, b) < IDX - 1 => Dist(a, Next1(b)) = Dist(a, b) + 1
  BY <1>1, <1>2, <1>4
<1> QED BY <1>5, <1>6, <1>7

(* The places of the ring, as IDX is a multiple of its size.               *)
Ring(x) == x % QUEUE_SIZE

LEMMA RingWraps ==
  ASSUME NEW x \in Nat PROVE Ring(x + IDX) = Ring(x) /\ Ring(x) \in Desc
<1> DEFINE k == IDX \div QUEUE_SIZE
<1>1. k \in Nat /\ IDX = k * QUEUE_SIZE /\ QUEUE_SIZE \in Nat \ {0} /\ IDX \in Nat
  BY SizesAre
<1> HIDE DEF k
<1>2. (k * QUEUE_SIZE + 0) % QUEUE_SIZE = 0
  BY <1>1, ModIs
<1>3. IDX % QUEUE_SIZE = 0
  BY <1>1, <1>2
<1>4. ((IDX % QUEUE_SIZE) + x) % QUEUE_SIZE = (IDX + x) % QUEUE_SIZE
  BY <1>1, ModAdd
<1>5. IDX + x = x + IDX /\ 0 + x = x
  BY <1>1
<1>6. (x % QUEUE_SIZE) \in 0..(QUEUE_SIZE - 1)
  BY <1>1, DivMod
<1> QED BY <1>3, <1>4, <1>5, <1>6 DEF Ring, Desc

LEMMA RingNext ==
  ASSUME NEW a \in Index, NEW i \in Nat PROVE Ring(Next1(a) + i) = Ring(a + 1 + i)
<1>1. a \in Nat /\ IDX \in Nat /\ Next1(a) = (IF a + 1 = IDX THEN 0 ELSE a + 1)
  BY SizesAre, IndexIs DEF Index
<1>2. CASE a + 1 = IDX
  <2>1. Ring(i + IDX) = Ring(i)
    BY RingWraps
  <2>2. i + IDX = a + 1 + i /\ Next1(a) + i = i
    BY <1>1, <1>2
  <2> QED BY <2>1, <2>2
<1>3. CASE a + 1 # IDX
  BY <1>1, <1>3
<1> QED BY <1>2, <1>3

LEMMA RingEnd ==
  ASSUME NEW a \in Index, NEW b \in Index PROVE Ring(b) = Ring(a + Dist(a, b))
<1>1. a \in Nat /\ b \in Nat /\ IDX \in Nat /\ Dist(a, b) = (IF b >= a THEN b - a ELSE b - a + IDX)
  BY SizesAre, IndexIs DEF Index
<1>2. CASE b >= a
  <2>1. a + Dist(a, b) = b
    BY <1>1, <1>2
  <2> QED BY <2>1
<1>3. CASE b < a
  <2>1. a + Dist(a, b) = b + IDX
    BY <1>1, <1>3
  <2> QED BY <1>1, <2>1, RingWraps
<1> QED BY <1>1, <1>2, <1>3

------------------------------------------------------------------------------
(* From, when its first goes or one more comes.                            *)
RingType == [Desc -> Desc]

LEMMA FromIs ==
  ASSUME NEW g \in RingType, NEW a \in Index, NEW b \in Index
  PROVE  /\ From(g, a, b) \in Seq(Desc) /\ Len(From(g, a, b)) = Dist(a, b) /\ Dist(a, b) \in Nat
         /\ \A i \in 1..Dist(a, b) : From(g, a, b)[i] = g[Ring(a + i - 1)]
         /\ From(g, a, b) = <<>> <=> a = b
         /\ g[Ring(a)] \in Desc
<1>1. Dist(a, b) \in Nat /\ a \in Nat
  BY IndexIs, SizesAre DEF Index
<1>2. PICK n \in Nat : n = Dist(a, b)
  BY <1>1
<1>3. \A i \in 1..n : Ring(a + i - 1) \in Desc
  <2> TAKE i \in 1..n
  <2>1. a + i - 1 \in Nat
    BY <1>1
  <2> QED BY <2>1, RingWraps
<1>4. From(g, a, b) = [i \in 1..n |-> g[Ring(a + i - 1)]]
  BY <1>2 DEF From, Dist, Ring
<1>5. [i \in 1..n |-> g[Ring(a + i - 1)]] \in [1..n -> Desc]
  BY <1>3 DEF RingType
<1>6. From(g, a, b) \in Seq(Desc) /\ Len(From(g, a, b)) = n /\ \A i \in 1..n : From(g, a, b)[i] = g[Ring(a + i - 1)]
  <2> DEFINE f == [i \in 1..n |-> g[Ring(a + i - 1)]]
  <2>1. f \in [1..n -> Desc] /\ (\A i \in 1..n : f[i] = g[Ring(a + i - 1)]) /\ From(g, a, b) = f
    BY <1>4, <1>5
  <2> HIDE DEF f
  <2>2. f \in Seq(Desc) /\ Len(f) = n
    BY <1>2, <2>1
  <2> QED BY <2>1, <2>2
<1>7. From(g, a, b) = <<>> <=> n = 0
  BY <1>2, <1>6
<1>8. n = 0 <=> a = b
  BY <1>2, DistIs
<1>9. g[Ring(a)] \in Desc
  BY <1>1, RingWraps DEF RingType
<1> QED BY <1>1, <1>2, <1>6, <1>7, <1>8, <1>9

LEMMA FromTail ==
  ASSUME NEW g \in RingType, NEW a \in Index, NEW b \in Index, a # b
  PROVE  /\ Next1(a) \in Index /\ Len(From(g, a, b)) = Len(From(g, Next1(a), b)) + 1
         /\ ToSet(From(g, a, b)) = ToSet(From(g, Next1(a), b)) \union {g[Ring(a)]}
         /\ Tail(From(g, a, b)) = From(g, Next1(a), b)
<1>1. Next1(a) \in Index /\ a \in Nat
  BY IndexIs, SizesAre DEF Index
<1>2. PICK n \in Nat : n = Dist(Next1(a), b) /\ Dist(a, b) = n + 1
  <2>1. Dist(Next1(a), b) \in Nat /\ Dist(a, b) \in Nat /\ Dist(Next1(a), b) = Dist(a, b) - 1
    BY <1>1, DistIs, FromIs
  <2> QED BY <2>1
<1>3. PICK s \in Seq(Desc) : s = From(g, a, b) /\ Len(s) = n + 1 /\ \A i \in 1..(n + 1) : s[i] = g[Ring(a + i - 1)]
  BY <1>2, FromIs
<1>4. PICK r \in Seq(Desc) :
        r = From(g, Next1(a), b) /\ Len(r) = n /\ \A i \in 1..n : r[i] = g[Ring(Next1(a) + i - 1)]
  <2> DEFINE f == From(g, Next1(a), b)
             c == Next1(a)
  <2>1. f \in Seq(Desc) /\ Len(f) = Dist(c, b) /\ \A i \in 1..Dist(c, b) : f[i] = g[Ring(c + i - 1)]
    BY <1>1, FromIs
  <2>2. Dist(c, b) = n
    BY <1>2
  <2> HIDE DEF f, c
  <2>3. f \in Seq(Desc) /\ Len(f) = n /\ \A i \in 1..n : f[i] = g[Ring(c + i - 1)]
    BY <2>1, <2>2
  <2> QED BY <2>3 DEF f, c
<1>5. ASSUME NEW i \in 1..n PROVE r[i] = s[i + 1]
  <2>1. i - 1 \in Nat /\ i + 1 \in 1..(n + 1)
    OBVIOUS
  <2>2. Ring(Next1(a) + (i - 1)) = Ring(a + 1 + (i - 1))
    BY <2>1, RingNext
  <2>3. Next1(a) + (i - 1) = Next1(a) + i - 1 /\ a + 1 + (i - 1) = a + (i + 1) - 1
    BY <1>1, <2>1 DEF Index
  <2> QED BY <1>3, <1>4, <2>1, <2>2, <2>3
<1>6. s[1] = g[Ring(a)]
  <2>1. a + 1 - 1 = a /\ 1 \in 1..(n + 1)
    BY <1>1
  <2> QED BY <1>3, <2>1
<1>7. Tail(s) = r
  <2>1. Tail(s) \in Seq(Desc) /\ Len(Tail(s)) = n /\ \A i \in 1..n : Tail(s)[i] = s[i + 1]
    BY <1>3
  <2> QED BY <1>4, <1>5, <2>1
<1>8. ToSet(s) = ToSet(r) \union {s[1]}
  <2>1. \A i \in 1..(n + 1) : i = 1 \/ (i - 1 \in 1..n /\ (i - 1) + 1 = i)
    OBVIOUS
  <2>2. DOMAIN s = 1..(n + 1) /\ DOMAIN r = 1..n /\ 1 \in 1..(n + 1) /\ \A i \in 1..n : i + 1 \in 1..(n + 1)
    BY <1>3, <1>4
  <2>3. \A x \in ToSet(s) : x \in ToSet(r) \/ x = s[1]
    <3> TAKE x \in ToSet(s)
    <3>1. PICK i \in 1..(n + 1) : s[i] = x
      BY <2>2 DEF ToSet
    <3>2. CASE i = 1
      BY <3>1, <3>2
    <3>3. CASE i - 1 \in 1..n /\ (i - 1) + 1 = i
      <4>1. r[i - 1] = x
        BY <1>5, <3>1, <3>3
      <4> QED BY <2>2, <3>3, <4>1 DEF ToSet
    <3> QED BY <2>1, <3>2, <3>3
  <2>4. ToSet(r) \subseteq ToSet(s)
    BY <1>5, <2>2 DEF ToSet
  <2>5. s[1] \in ToSet(s)
    BY <2>2 DEF ToSet
  <2> QED BY <2>3, <2>4, <2>5
<1> QED BY <1>1, <1>3, <1>4, <1>6, <1>7, <1>8

LEMMA FromMore ==
  ASSUME NEW g \in RingType, NEW a \in Index, NEW b \in Index, Dist(a, b) < QUEUE_SIZE, NEW x \in Desc,
         NEW h, h = [g EXCEPT ![Ring(b)] = x]
  PROVE  /\ Next1(b) \in Index /\ h \in RingType /\ Len(From(h, a, Next1(b))) = Len(From(g, a, b)) + 1
         /\ ToSet(From(h, a, Next1(b))) = ToSet(From(g, a, b)) \union {x}
         /\ a # b => h[Ring(a)] = g[Ring(a)]
<1>1. Next1(b) \in Index /\ a \in Nat /\ b \in Nat /\ QUEUE_SIZE \in Nat \ {0} /\ QUEUE_SIZE + 1 < IDX /\ IDX \in Nat
  BY IndexIs, SizesAre DEF Index
<1>2. PICK n \in Nat : n = Dist(a, b) /\ n < QUEUE_SIZE /\ Dist(a, Next1(b)) = n + 1
  <2>1. Dist(a, b) \in Nat /\ Dist(a, b) < IDX - 1
    BY <1>1, FromIs
  <2> QED BY <1>1, <2>1, DistIs
<1>3. Ring(b) = Ring(a + n) /\ Ring(b) \in Desc
  BY <1>1, <1>2, RingEnd, RingWraps
<1>4. h \in RingType /\ h[Ring(b)] = x /\ \A d \in Desc : d # Ring(b) => h[d] = g[d]
  BY <1>3 DEF RingType
<1>5. PICK s \in Seq(Desc) : s = From(g, a, b) /\ Len(s) = n /\ \A i \in 1..n : s[i] = g[Ring(a + i - 1)]
  BY <1>2, FromIs
<1>6. PICK r \in Seq(Desc) :
        r = From(h, a, Next1(b)) /\ Len(r) = n + 1 /\ \A i \in 1..(n + 1) : r[i] = h[Ring(a + i - 1)]
  <2> DEFINE f == From(h, a, Next1(b))
             c == Next1(b)
  <2>1. f \in Seq(Desc) /\ Len(f) = Dist(a, c) /\ \A i \in 1..Dist(a, c) : f[i] = h[Ring(a + i - 1)]
    <3>1. h \in RingType /\ a \in Index /\ Next1(b) \in Index
      BY <1>1, <1>4
    <3> QED BY ONLY <3>1, FromIs
  <2>2. Dist(a, c) = n + 1
    BY <1>2
  <2> HIDE DEF f, c
  <2>3. f \in Seq(Desc) /\ Len(f) = n + 1 /\ \A i \in 1..(n + 1) : f[i] = h[Ring(a + i - 1)]
    BY <2>1, <2>2
  <2> QED BY <2>3 DEF f
<1>7. ASSUME NEW i \in 1..n PROVE Ring(a + i - 1) # Ring(b) /\ Ring(a + i - 1) \in Desc
  <2>1. a + i - 1 \in Nat /\ a + n \in Nat /\ a + i - 1 < a + n /\ (a + n) - (a + i - 1) < QUEUE_SIZE
    BY <1>1, <1>2
  <2>2. (a + i - 1) % QUEUE_SIZE # (a + n) % QUEUE_SIZE
    BY <1>1, <2>1, NotWrapped
  <2> QED BY <1>3, <2>1, <2>2, RingWraps DEF Ring
<1>8. ASSUME NEW i \in 1..n PROVE r[i] = s[i]
  <2>1. i \in 1..(n + 1)
    OBVIOUS
  <2> QED BY <1>4, <1>5, <1>6, <1>7, <2>1
<1>9. r[n + 1] = x
  <2>1. n + 1 \in 1..(n + 1) /\ a + (n + 1) - 1 = a + n
    BY <1>1
  <2> QED BY <1>3, <1>4, <1>6, <2>1
<1>10. ToSet(r) = ToSet(s) \union {x}
  <2>1. DOMAIN r = 1..(n + 1) /\ DOMAIN s = 1..n /\ n + 1 \in 1..(n + 1)
        /\ (\A i \in 1..n : i \in 1..(n + 1)) /\ \A i \in 1..(n + 1) : i \in 1..n \/ i = n + 1
    BY <1>5, <1>6
  <2> QED BY <1>8, <1>9, <2>1 DEF ToSet
<1>11. a # b => h[Ring(a)] = g[Ring(a)]
  <2>1. SUFFICES ASSUME a # b PROVE h[Ring(a)] = g[Ring(a)]
    OBVIOUS
  <2>2. n # 0
    BY <1>2, <2>1, DistIs
  <2>3. 1 \in 1..n /\ a + 1 - 1 = a
    BY <1>1, <2>2
  <2> QED BY <1>4, <1>7, <2>3
<1> QED BY <1>1, <1>4, <1>5, <1>6, <1>10, <1>11

------------------------------------------------------------------------------
(* A queue, and what the driver and the device do with it.                 *)
QueueType == [avail : RingType, aidx : Index, used : RingType, uidx : Index, last : Index, dev : Index]
QueueOK(w) == w \in QueueType /\ w.dev = w.uidx

LEMMA NewAvailIs ==
  ASSUME NEW w \in QueueType, NEW d \in Desc, NEW n, n = NewAvail(w, d)
  PROVE  /\ n \in QueueType /\ n.avail = [w.avail EXCEPT ![Ring(w.aidx)] = d] /\ n.aidx = Next1(w.aidx)
         /\ n.used = w.used /\ n.uidx = w.uidx /\ n.last = w.last /\ n.dev = w.dev
<1>1. /\ w.avail \in RingType /\ w.aidx \in Index /\ w.used \in RingType /\ w.uidx \in Index /\ w.last \in Index
      /\ w.dev \in Index
  BY DEF QueueType
<1>2. Ring(w.aidx) \in Desc /\ Next1(w.aidx) \in Index
  BY <1>1, IndexIs, RingWraps DEF Index
<1>3. [w.avail EXCEPT ![Ring(w.aidx)] = d] \in RingType
  BY <1>1, <1>2 DEF RingType
<1>4. n = [avail |-> [w.avail EXCEPT ![Ring(w.aidx)] = d], aidx |-> Next1(w.aidx), used |-> w.used,
           uidx |-> w.uidx, last |-> w.last, dev |-> w.dev]
  BY DEF NewAvail, QueueType, Ring, Next1
<1> QED BY <1>1, <1>2, <1>3, <1>4 DEF QueueType

LEMMA UsedIs ==
  ASSUME NEW w \in QueueType, NextOf(w) \in Desc, NEW n, n = Used(w)
  PROVE  /\ n \in QueueType /\ n.used = [w.used EXCEPT ![Ring(w.uidx)] = NextOf(w)] /\ n.uidx = Next1(w.uidx)
         /\ n.avail = w.avail /\ n.aidx = w.aidx /\ n.last = w.last /\ n.dev = Next1(w.dev)
<1>1. /\ w.avail \in RingType /\ w.aidx \in Index /\ w.used \in RingType /\ w.uidx \in Index /\ w.last \in Index
      /\ w.dev \in Index
  BY DEF QueueType
<1>2. Ring(w.uidx) \in Desc /\ Next1(w.uidx) \in Index /\ Next1(w.dev) \in Index
  BY <1>1, IndexIs, RingWraps DEF Index
<1>3. [w.used EXCEPT ![Ring(w.uidx)] = NextOf(w)] \in RingType
  BY <1>1, <1>2 DEF RingType
<1>4. n = [avail |-> w.avail, aidx |-> w.aidx, used |-> [w.used EXCEPT ![Ring(w.uidx)] = NextOf(w)],
           uidx |-> Next1(w.uidx), last |-> w.last, dev |-> Next1(w.dev)]
  BY DEF Used, QueueType, Ring, Next1
<1> QED BY <1>1, <1>2, <1>3, <1>4 DEF QueueType

LEMMA LastIs ==
  ASSUME NEW w \in QueueType, NEW n, n = [w EXCEPT !.last = (@ + 1) % IDX]
  PROVE  /\ n \in QueueType /\ n.last = Next1(w.last)
         /\ n.used = w.used /\ n.uidx = w.uidx /\ n.avail = w.avail /\ n.aidx = w.aidx /\ n.dev = w.dev
<1>1. w.last \in Index
  BY DEF QueueType
<1>2. Next1(w.last) \in Index
  BY <1>1, IndexIs
<1>3. n = [w EXCEPT !.last = Next1(w.last)]
  BY DEF Next1
<1> QED BY <1>2, <1>3 DEF QueueType

(* Each descriptor of a direction, with a the first index of the used ring *)
(* that is not taken, f the free ones and h what is in the driver's hands. *)
Whole(w, a, f, h) ==
  /\ Len(WithDevice(w)) + Len(From(w.used, a, w.uidx)) + Len(f) + Len(h) = QUEUE_SIZE
  /\ ToSet(WithDevice(w)) \union ToSet(From(w.used, a, w.uidx)) \union ToSet(f) \union ToSet(h) = Desc

LEMMA DescMore ==
  ASSUME NEW f \in Seq(Desc), NEW d \in Desc
  PROVE  Append(f, d) \in Seq(Desc) /\ Len(Append(f, d)) = Len(f) + 1 /\ ToSet(Append(f, d)) = ToSet(f) \union {d}
<1> DEFINE r == Append(f, d)
<1>1. r \in Seq(Desc) /\ Len(r) = Len(f) + 1 /\ Len(f) \in Nat
  OBVIOUS
<1>2. (\A i \in 1..Len(f) : r[i] = f[i]) /\ r[Len(f) + 1] = d
  OBVIOUS
<1>3. DOMAIN r = 1..(Len(f) + 1) /\ DOMAIN f = 1..Len(f)
  BY <1>1
<1> HIDE DEF r
<1>4. ToSet(r) = ToSet(f) \union {d}
  <2>1. /\ Len(f) + 1 \in 1..(Len(f) + 1) /\ \A i \in 1..Len(f) : i \in 1..(Len(f) + 1)
        /\ \A i \in 1..(Len(f) + 1) : i \in 1..Len(f) \/ i = Len(f) + 1
    BY <1>1
  <2> QED BY <1>2, <1>3, <2>1 DEF ToSet
<1> QED BY <1>1, <1>4 DEF r

LEMMA DescLess ==
  ASSUME NEW f \in Seq(Desc), f # <<>>
  PROVE  /\ Front(f) \in Seq(Desc) /\ Last(f) \in Desc /\ Len(f) = Len(Front(f)) + 1
         /\ ToSet(f) = ToSet(Front(f)) \union {Last(f)}
<1>1. PICK n \in Nat : Len(f) = n + 1
  <2>1. Len(f) \in Nat /\ Len(f) # 0
    OBVIOUS
  <2> QED BY <2>1
<1>2. PICK d \in Desc : d = Last(f) /\ d = f[n + 1]
  BY <1>1 DEF Last
<1>3. PICK g \in Seq(Desc) : g = Front(f) /\ Len(g) = n /\ \A i \in 1..n : g[i] = f[i]
  <2> DEFINE g == Front(f)
  <2>1. g = SubSeq(f, 1, n)
    BY <1>1 DEF Front
  <2>2. SubSeq(f, 1, n) \in Seq(Desc) /\ Len(SubSeq(f, 1, n)) = n /\ \A i \in 1..n : SubSeq(f, 1, n)[i] = f[i]
    BY <1>1
  <2> HIDE DEF g
  <2>3. g \in Seq(Desc) /\ Len(g) = n /\ \A i \in 1..n : g[i] = f[i]
    BY <2>1, <2>2
  <2> QED BY <2>3 DEF g
<1>4. ToSet(f) = ToSet(g) \union {d}
  <2>1. /\ DOMAIN f = 1..(n + 1) /\ DOMAIN g = 1..n /\ n + 1 \in 1..(n + 1) /\ \A i \in 1..n : i \in 1..(n + 1)
        /\ \A i \in 1..(n + 1) : i \in 1..n \/ i = n + 1
    BY <1>1, <1>3
  <2> QED BY <1>2, <1>3, <2>1 DEF ToSet
<1> QED BY <1>1, <1>2, <1>3, <1>4

LEMMA DescOne ==
  /\ <<>> \in Seq(Desc) /\ Len(<<>>) = 0 /\ ToSet(<<>>) = {}
  /\ \A d \in Desc : <<d>> \in Seq(Desc) /\ Len(<<d>>) = 1 /\ ToSet(<<d>>) = {d}
<1>1. ToSet(<<>>) = {}
  BY DEF ToSet
<1>2. ASSUME NEW d \in Desc PROVE <<d>> \in Seq(Desc) /\ Len(<<d>>) = 1 /\ ToSet(<<d>>) = {d}
  BY DEF ToSet
<1> QED BY <1>1, <1>2

LEMMA Whereabouts ==
  ASSUME NEW w \in QueueType, NEW a \in Index
  PROVE  /\ WithDevice(w) \in Seq(Desc) /\ From(w.used, a, w.uidx) \in Seq(Desc)
         /\ Len(WithDevice(w)) = Dist(w.dev, w.aidx) /\ Len(From(w.used, a, w.uidx)) = Dist(a, w.uidx)
         /\ Dist(w.dev, w.aidx) \in Nat /\ Dist(a, w.uidx) \in Nat
         /\ WithDevice(w) = <<>> <=> w.dev = w.aidx
         /\ NextOf(w) \in Desc
<1>1. /\ w.avail \in RingType /\ w.aidx \in Index /\ w.used \in RingType /\ w.uidx \in Index /\ w.last \in Index
      /\ w.dev \in Index
  BY DEF QueueType
<1>2. NextOf(w) = w.avail[Ring(w.dev)] /\ WithDevice(w) = From(w.avail, w.dev, w.aidx)
  BY DEF NextOf, Ring, WithDevice
<1>3. PICK av \in RingType : av = w.avail
  BY <1>1
<1>4. PICK us \in RingType : us = w.used
  BY <1>1
<1>5. PICK i \in Index : i = w.dev
  BY <1>1
<1>6. PICK j \in Index : j = w.aidx
  BY <1>1
<1>7. PICK k \in Index : k = w.uidx
  BY <1>1
<1>8. /\ From(av, i, j) \in Seq(Desc) /\ Len(From(av, i, j)) = Dist(i, j) /\ Dist(i, j) \in Nat
      /\ (From(av, i, j) = <<>>) <=> (i = j)
      /\ av[Ring(i)] \in Desc
  BY FromIs
<1>9. From(us, a, k) \in Seq(Desc) /\ Len(From(us, a, k)) = Dist(a, k) /\ Dist(a, k) \in Nat
  BY FromIs
<1> QED BY ONLY <1>2, <1>3, <1>4, <1>5, <1>6, <1>7, <1>8, <1>9

(* The device uses its next descriptor.                                    *)
LEMMA UsedKeeps ==
  ASSUME NEW w, QueueOK(w), NEW a \in Index, NEW f \in Seq(Desc), NEW h \in Seq(Desc), Whole(w, a, f, h),
         WithDevice(w) # <<>>, NEW n, n = Used(w)
  PROVE  /\ QueueOK(n) /\ Whole(n, a, f, h) /\ n.last = w.last /\ n.uidx = Next1(w.uidx)
         /\ a # w.uidx => n.used[Ring(a)] = w.used[Ring(a)]
         /\ Dist(a, w.uidx) < QUEUE_SIZE
<1>0. w \in QueueType /\ w.dev = w.uidx
  BY DEF QueueOK
<1>1. /\ w.avail \in RingType /\ w.aidx \in Index /\ w.used \in RingType /\ w.uidx \in Index /\ w.last \in Index
      /\ w.dev \in Index
  BY <1>0 DEF QueueType
<1>2. PICK d \in Desc : d = NextOf(w) /\ d = w.avail[Ring(w.dev)]
  BY <1>0, Whereabouts DEF NextOf, Ring
<1>3. /\ n \in QueueType /\ n.used = [w.used EXCEPT ![Ring(w.uidx)] = d] /\ n.uidx = Next1(w.uidx)
      /\ n.avail = w.avail /\ n.aidx = w.aidx /\ n.last = w.last /\ n.dev = Next1(w.dev)
  BY <1>0, <1>2, UsedIs
<1>4. /\ Len(WithDevice(w)) = Len(WithDevice(n)) + 1 /\ ToSet(WithDevice(w)) = ToSet(WithDevice(n)) \union {d}
  <2>1. w.dev # w.aidx
    BY <1>0, <1>1, Whereabouts
  <2> QED BY <1>1, <1>2, <1>3, <2>1, FromTail DEF WithDevice
<1>5. Len(WithDevice(w)) \in Nat /\ Len(WithDevice(n)) \in Nat /\ Len(f) \in Nat /\ Len(h) \in Nat
      /\ QUEUE_SIZE \in Nat
  BY <1>0, <1>1, <1>3, Whereabouts, SizesAre
<1>6. Dist(a, w.uidx) < QUEUE_SIZE
  <2>1. Len(From(w.used, a, w.uidx)) = Dist(a, w.uidx) /\ Dist(a, w.uidx) \in Nat
    BY <1>0, Whereabouts
  <2> QED BY <1>4, <1>5, <2>1 DEF Whole
<1>7. /\ Len(From(n.used, a, n.uidx)) = Len(From(w.used, a, w.uidx)) + 1
      /\ ToSet(From(n.used, a, n.uidx)) = ToSet(From(w.used, a, w.uidx)) \union {d}
      /\ a # w.uidx => n.used[Ring(a)] = w.used[Ring(a)]
  <2> DEFINE u == [w.used EXCEPT ![Ring(w.uidx)] = d]
  <2>1. /\ Len(From(u, a, Next1(w.uidx))) = Len(From(w.used, a, w.uidx)) + 1
        /\ ToSet(From(u, a, Next1(w.uidx))) = ToSet(From(w.used, a, w.uidx)) \union {d}
        /\ a # w.uidx => u[Ring(a)] = w.used[Ring(a)]
    BY <1>1, <1>6, FromMore
  <2> QED BY <1>3, <2>1
<1>8. Whole(n, a, f, h)
  <2>1. Len(From(w.used, a, w.uidx)) \in Nat
    BY <1>0, Whereabouts
  <2>2. Len(WithDevice(n)) + Len(From(n.used, a, n.uidx)) + Len(f) + Len(h) = QUEUE_SIZE
    BY <1>4, <1>5, <1>7, <2>1 DEF Whole
  <2> QED BY <1>4, <1>7, <2>2 DEF Whole
<1> QED BY <1>0, <1>3, <1>6, <1>7, <1>8 DEF QueueOK

(* The driver gives one to the device.                                     *)
LEMMA AvailKeeps ==
  ASSUME NEW w, QueueOK(w), NEW a \in Index, NEW f \in Seq(Desc), NEW d \in Desc, Whole(w, a, f, <<d>>),
         NEW n, n = NewAvail(w, d)
  PROVE  QueueOK(n) /\ Whole(n, a, f, <<>>) /\ n.last = w.last /\ n.uidx = w.uidx /\ n.used = w.used
<1>0. w \in QueueType /\ w.dev = w.uidx
  BY DEF QueueOK
<1>1. /\ w.avail \in RingType /\ w.aidx \in Index /\ w.used \in RingType /\ w.uidx \in Index /\ w.last \in Index
      /\ w.dev \in Index
  BY <1>0 DEF QueueType
<1>3. /\ n \in QueueType /\ n.avail = [w.avail EXCEPT ![Ring(w.aidx)] = d] /\ n.aidx = Next1(w.aidx)
      /\ n.used = w.used /\ n.uidx = w.uidx /\ n.last = w.last /\ n.dev = w.dev
  BY <1>0, NewAvailIs
<1>5. Len(WithDevice(w)) \in Nat /\ Len(From(w.used, a, w.uidx)) \in Nat /\ Len(f) \in Nat
      /\ QUEUE_SIZE \in Nat /\ Len(<<d>>) = 1 /\ Len(<<>>) = 0 /\ ToSet(<<d>>) = {d} /\ ToSet(<<>>) = {}
  BY <1>0, <1>1, Whereabouts, SizesAre, DescOne
<1>6. Dist(w.dev, w.aidx) < QUEUE_SIZE
  <2>1. Len(WithDevice(w)) = Dist(w.dev, w.aidx) /\ Dist(w.dev, w.aidx) \in Nat
    BY <1>0, Whereabouts
  <2> QED BY <1>5, <2>1 DEF Whole
<1>7. /\ Len(WithDevice(n)) = Len(WithDevice(w)) + 1
      /\ ToSet(WithDevice(n)) = ToSet(WithDevice(w)) \union {d}
  <2> DEFINE u == [w.avail EXCEPT ![Ring(w.aidx)] = d]
  <2>1. /\ Len(From(u, w.dev, Next1(w.aidx))) = Len(From(w.avail, w.dev, w.aidx)) + 1
        /\ ToSet(From(u, w.dev, Next1(w.aidx))) = ToSet(From(w.avail, w.dev, w.aidx)) \union {d}
    BY <1>1, <1>6, FromMore
  <2> QED BY <1>3, <2>1 DEF WithDevice
<1>8. Whole(n, a, f, <<>>)
  <2>2. Len(WithDevice(n)) + Len(From(n.used, a, n.uidx)) + Len(f) + Len(<<>>) = QUEUE_SIZE
    BY <1>3, <1>5, <1>7 DEF Whole
  <2> QED BY <1>3, <1>5, <1>7, <2>2 DEF Whole
<1> QED BY <1>0, <1>3, <1>8 DEF QueueOK

(* The driver takes the first that the device is done with.                *)
LEMMA FirstIs ==
  ASSUME NEW w, QueueOK(w), NEW f \in Seq(Desc), NEW h \in Seq(Desc), Whole(w, w.last, f, h), w.last # w.uidx
  PROVE  /\ w.used[Ring(w.last)] \in Desc /\ w.last \in Index /\ Next1(w.last) \in Index
         /\ Len(From(w.used, w.last, w.uidx)) = Len(From(w.used, Next1(w.last), w.uidx)) + 1
         /\ ToSet(From(w.used, w.last, w.uidx))
              = ToSet(From(w.used, Next1(w.last), w.uidx)) \union {w.used[Ring(w.last)]}
         /\ Len(WithDevice(w)) + Len(From(w.used, Next1(w.last), w.uidx)) + 1 + Len(f) + Len(h) = QUEUE_SIZE
         /\ Len(WithDevice(w)) \in Nat /\ Len(From(w.used, Next1(w.last), w.uidx)) \in Nat
<1>0. w \in QueueType
  BY DEF QueueOK
<1>1. w.used \in RingType /\ w.uidx \in Index /\ w.last \in Index
  BY <1>0 DEF QueueType
<1>2. /\ Next1(w.last) \in Index
      /\ Len(From(w.used, w.last, w.uidx)) = Len(From(w.used, Next1(w.last), w.uidx)) + 1
      /\ ToSet(From(w.used, w.last, w.uidx))
           = ToSet(From(w.used, Next1(w.last), w.uidx)) \union {w.used[Ring(w.last)]}
  BY <1>1, FromTail
<1>3. w.used[Ring(w.last)] \in Desc
  BY <1>1, FromIs
<1>4. Len(WithDevice(w)) \in Nat /\ Len(From(w.used, Next1(w.last), w.uidx)) \in Nat /\ Len(f) \in Nat
      /\ Len(h) \in Nat
  BY <1>0, <1>2, Whereabouts
<1> QED BY <1>1, <1>2, <1>3, <1>4 DEF Whole

LEMMA LastKeeps ==
  ASSUME NEW w, QueueOK(w), w.last # w.uidx, NEW n, n = [w EXCEPT !.last = (@ + 1) % IDX],
         NEW f, NEW h, Whole(w, Next1(w.last), f, h)
  PROVE  QueueOK(n) /\ Whole(n, n.last, f, h)
<1>1. w \in QueueType /\ w.dev = w.uidx
  BY DEF QueueOK
<1>2. /\ n \in QueueType /\ n.last = Next1(w.last)
      /\ n.used = w.used /\ n.uidx = w.uidx /\ n.avail = w.avail /\ n.aidx = w.aidx /\ n.dev = w.dev
  BY <1>1, LastIs
<1>3. WithDevice(n) = WithDevice(w)
  BY <1>2 DEF WithDevice
<1> QED BY <1>1, <1>2, <1>3 DEF QueueOK, Whole

(* It goes to the free list, or the receiver has it.                       *)
LEMMA PushKeeps ==
  ASSUME NEW w, QueueOK(w), NEW f \in Seq(Desc), NEW h \in Seq(Desc), Whole(w, w.last, f, h), w.last # w.uidx,
         NEW d, d = w.used[Ring(w.last)]
  PROVE  /\ Len(f) < QUEUE_SIZE /\ d \in Desc /\ Append(f, d) \in Seq(Desc)
         /\ Whole(w, Next1(w.last), Append(f, d), h)
<1>1. /\ d \in Desc /\ Append(f, d) \in Seq(Desc) /\ Len(Append(f, d)) = Len(f) + 1
      /\ ToSet(Append(f, d)) = ToSet(f) \union {d} /\ Len(f) \in Nat /\ Len(h) \in Nat
  BY FirstIs, DescMore
<1>2. Whole(w, Next1(w.last), Append(f, d), h)
  <2>1. Len(WithDevice(w)) + Len(From(w.used, Next1(w.last), w.uidx)) + Len(Append(f, d)) + Len(h) = QUEUE_SIZE
    BY <1>1, FirstIs
  <2>2. ToSet(From(w.used, w.last, w.uidx)) = ToSet(From(w.used, Next1(w.last), w.uidx)) \union {d}
    BY FirstIs
  <2> QED BY <1>1, <2>1, <2>2 DEF Whole
<1>3. Len(f) < QUEUE_SIZE
  BY <1>1, FirstIs, SizesAre
<1> QED BY <1>1, <1>2, <1>3

LEMMA HoldKeeps ==
  ASSUME NEW w, QueueOK(w), Whole(w, w.last, <<>>, <<>>), w.last # w.uidx, NEW d, d = w.used[Ring(w.last)]
  PROVE  d \in Desc /\ Whole(w, Next1(w.last), <<>>, <<d>>)
<1>1. /\ d \in Desc /\ <<>> \in Seq(Desc) /\ Len(<<>>) = 0 /\ ToSet(<<>>) = {} /\ Len(<<d>>) = 1 /\ ToSet(<<d>>) = {d}
  BY FirstIs, DescOne
<1>2. Len(WithDevice(w)) + Len(From(w.used, Next1(w.last), w.uidx)) + Len(<<>>) + Len(<<d>>) = QUEUE_SIZE
  <2>1. Len(WithDevice(w)) + Len(From(w.used, Next1(w.last), w.uidx)) + 1 + Len(<<>>) + Len(<<>>) = QUEUE_SIZE
        /\ Len(WithDevice(w)) \in Nat /\ Len(From(w.used, Next1(w.last), w.uidx)) \in Nat
    BY <1>1, FirstIs
  <2> QED BY <1>1, <2>1
<1>3. ToSet(From(w.used, w.last, w.uidx)) = ToSet(From(w.used, Next1(w.last), w.uidx)) \union {d}
  BY <1>1, FirstIs
<1> QED BY <1>1, <1>2, <1>3 DEF Whole

(* The sender takes the last of the free list.                             *)
LEMMA TakeKeeps ==
  ASSUME NEW w \in QueueType, NEW a \in Index, NEW f \in Seq(Desc), f # <<>>, Whole(w, a, f, <<>>)
  PROVE  Last(f) \in Desc /\ Front(f) \in Seq(Desc) /\ Whole(w, a, Front(f), <<Last(f)>>)
<1>1. /\ Last(f) \in Desc /\ Front(f) \in Seq(Desc) /\ Len(f) = Len(Front(f)) + 1
      /\ ToSet(f) = ToSet(Front(f)) \union {Last(f)}
  BY DescLess
<1>2. /\ <<>> \in Seq(Desc) /\ Len(<<>>) = 0 /\ ToSet(<<>>) = {} /\ Len(<<Last(f)>>) = 1
      /\ ToSet(<<Last(f)>>) = {Last(f)}
  BY <1>1, DescOne
<1>3. Len(WithDevice(w)) \in Nat /\ Len(From(w.used, a, w.uidx)) \in Nat /\ Len(Front(f)) \in Nat
  BY <1>1, Whereabouts
<1>4. Len(WithDevice(w)) + Len(From(w.used, a, w.uidx)) + Len(Front(f)) + Len(<<Last(f)>>) = QUEUE_SIZE
  BY <1>1, <1>2, <1>3 DEF Whole
<1> QED BY <1>1, <1>2, <1>4 DEF Whole

------------------------------------------------------------------------------
(* The driver of virtio_net.c: where its task and the sender are, and what *)
(* each has of the queues.                                                 *)
Side == {"task", "send"}
TaskAt == {"wait", "clear", "rx", "fill", "reclaim", "push", "inc"}
SendAt == {"idle", "reclaim", "push", "inc", "take", "fill", "publish"}
DrvAt == TaskAt \union SendAt \union {"addr", "status", "spin", "copy", "give", "start"}
DrvOK == drv \in [Side -> [at : DrvAt, di : Desc, frame : Nat]] /\ sent \in Nat

Moved(t, at, di) ==
  /\ drv'[t].at = at /\ drv'[t].di = di
  /\ \A u \in Side : u # t => drv'[u].at = drv[u].at /\ drv'[u].di = drv[u].di

Reclaiming(t) == drv[t].at \in {"push", "inc"}
Incs == \E t \in Side : drv[t].at = "inc"
TxFrom == IF Incs THEN Next1(vtx.last) ELSE vtx.last
RxHeld == IF drv["task"].at = "fill" THEN <<drv["task"].di>> ELSE <<>>
TxHeld == IF drv["send"].at \in {"fill", "publish"} THEN <<drv["send"].di>> ELSE <<>>

(* One of the two reclaims at a time, what it read is what it puts on the  *)
(* list, and the index has not passed it.                                  *)
Reclaims ==
  \A t \in Side : Reclaiming(t) =>
    /\ vtx.last # vtx.uidx
    /\ drv[t].at = "push" => drv[t].di = vtx.used[Ring(vtx.last)]
    /\ \A u \in Side : u # t => ~Reclaiming(u)
RxOK == QueueOK(vrx) /\ Whole(vrx, vrx.last, <<>>, RxHeld)
TxOK == /\ QueueOK(vtx) /\ tx_free_list \in Seq(Desc)
        /\ Whole(vtx, TxFrom, tx_free_list, TxHeld) /\ Reclaims

LEMMA SetsMoves ==
  ASSUME DrvOK, NEW t \in Side, NEW at \in DrvAt, NEW di \in Desc, Sets(t, at, di), sent' = sent
  PROVE  DrvOK' /\ Moved(t, at, di)
<1>1. drv[t].frame \in Nat
  BY DEF DrvOK
<1>2. [at |-> at, di |-> di, frame |-> drv[t].frame] \in [at : DrvAt, di : Desc, frame : Nat]
  BY <1>1
<1>3. DrvOK'
  BY <1>2 DEF DrvOK, Sets
<1>4. drv'[t] = [at |-> at, di |-> di, frame |-> drv[t].frame] /\ \A u \in Side : u # t => drv'[u] = drv[u]
  BY DEF DrvOK, Sets
<1> QED BY <1>3, <1>4 DEF Moved

LEMMA GoesMoves ==
  ASSUME DrvOK, NEW t \in Side, NEW at \in DrvAt, Goes(t, at), sent' = sent
  PROVE  DrvOK' /\ Moved(t, at, drv[t].di)
<1>1. PICK di \in Desc : di = drv[t].di
  BY DEF DrvOK
<1>2. Sets(t, at, di)
  BY <1>1 DEF Goes
<1> QED BY <1>1, <1>2, SetsMoves

LEMMA ZeroIs == 0 \in Desc
BY SizesAre DEF Desc

LEMMA ReturnsMoves ==
  ASSUME DrvOK, Returns, sent' = sent
  PROVE  DrvOK' /\ Moved("send", "idle", 0)
<1>1. [at |-> "idle", di |-> 0, frame |-> 0] \in [at : DrvAt, di : Desc, frame : Nat]
  BY ZeroIs DEF DrvAt, SendAt
<1>2. DrvOK'
  BY <1>1 DEF DrvOK, Returns
<1>3. drv'["send"] = [at |-> "idle", di |-> 0, frame |-> 0] /\ \A u \in Side : u # "send" => drv'[u] = drv[u]
  BY DEF DrvOK, Returns, Side
<1> QED BY <1>2, <1>3 DEF Moved

LEMMA OutputMoves ==
  ASSUME DrvOK, NEW at \in DrvAt, low_level_output(at)
  PROVE  DrvOK' /\ Moved("send", at, 0) /\ drv["send"].at = "idle" /\ g_ready = "yes"
         /\ UNCHANGED <<stackvars, g_ready>>
<1>1. /\ drv' = [drv EXCEPT !["send"] = [at |-> at, di |-> 0, frame |-> sent + 1]] /\ sent' = sent + 1
      /\ sent \in Nat /\ drv["send"].at = "idle" /\ g_ready = "yes" /\ UNCHANGED <<stackvars, g_ready>>
  BY DEF low_level_output, DrvOK
<1>2. [at |-> at, di |-> 0, frame |-> sent + 1] \in [at : DrvAt, di : Desc, frame : Nat]
  BY <1>1, ZeroIs
<1>3. DrvOK'
  BY <1>1, <1>2 DEF DrvOK
<1>4. /\ drv'["send"] = [at |-> at, di |-> 0, frame |-> sent + 1]
      /\ \A u \in Side : u # "send" => drv'[u] = drv[u]
  BY <1>1 DEF DrvOK, Side
<1> QED BY <1>1, <1>3, <1>4 DEF Moved

------------------------------------------------------------------------------
(* The receive queue.                                                      *)
LEMMA RxSame ==
  ASSUME RxOK, vrx' = vrx,
         drv'["task"].at = "fill" <=> drv["task"].at = "fill",
         drv["task"].at = "fill" => drv'["task"].di = drv["task"].di
  PROVE  RxOK'
<1>1. RxHeld' = RxHeld
  BY DEF RxHeld
<1> QED BY <1>1 DEF RxOK

LEMMA RxReceive ==
  ASSUME RxOK, DrvOK, drv' = drv, WithDevice(vrx) # <<>>, vrx' = Used(vrx)
  PROVE  RxOK'
<1>1. PICK h \in Seq(Desc) : h = RxHeld
  BY DescOne DEF RxHeld, DrvOK, Side
<1>2. QueueOK(vrx) /\ Whole(vrx, vrx.last, <<>>, h) /\ vrx.last \in Index /\ <<>> \in Seq(Desc)
  BY <1>1, DescOne DEF RxOK, QueueOK, QueueType
<1>3. PICK n : n = Used(vrx)
  OBVIOUS
<1>4. QueueOK(n) /\ Whole(n, vrx.last, <<>>, h) /\ n.last = vrx.last
  BY <1>2, <1>3, UsedKeeps
<1>5. RxHeld' = h
  BY <1>1 DEF RxHeld
<1> QED BY <1>3, <1>4, <1>5 DEF RxOK

LEMMA RxTaken ==
  ASSUME RxOK, drv["task"].at = "rx", vrx.last # vrx.uidx, NEW d, d = vrx.used[Ring(vrx.last)],
         vrx' = [vrx EXCEPT !.last = (@ + 1) % IDX], Moved("task", "fill", d)
  PROVE  RxOK' /\ d \in Desc
<1>1. RxHeld = <<>> /\ RxHeld' = <<d>>
  BY DEF RxHeld, Moved
<1>2. QueueOK(vrx) /\ Whole(vrx, vrx.last, <<>>, <<>>)
  BY <1>1 DEF RxOK
<1>3. d \in Desc /\ Whole(vrx, Next1(vrx.last), <<>>, <<d>>)
  BY <1>2, HoldKeeps
<1>4. PICK n : n = [vrx EXCEPT !.last = (@ + 1) % IDX]
  OBVIOUS
<1>5. QueueOK(n) /\ Whole(n, n.last, <<>>, <<d>>)
  BY <1>2, <1>3, <1>4, LastKeeps
<1> QED BY <1>1, <1>3, <1>4, <1>5 DEF RxOK

LEMMA RxGiven ==
  ASSUME RxOK, DrvOK, drv["task"].at = "fill", vrx' = NewAvail(vrx, drv["task"].di), drv'["task"].at # "fill"
  PROVE  RxOK'
<1>1. PICK d \in Desc : d = drv["task"].di
  BY DEF DrvOK, Side
<1>2. RxHeld = <<d>> /\ RxHeld' = <<>>
  BY <1>1 DEF RxHeld
<1>3. QueueOK(vrx) /\ Whole(vrx, vrx.last, <<>>, <<d>>) /\ vrx.last \in Index /\ <<>> \in Seq(Desc)
  BY <1>2, DescOne DEF RxOK, QueueOK, QueueType
<1>4. PICK n : n = NewAvail(vrx, d)
  OBVIOUS
<1>5. PICK m \in Index : m = vrx.last
  BY <1>3
<1>6. PICK f \in Seq(Desc) : f = <<>>
  BY <1>3
<1>7. Whole(vrx, m, f, <<d>>)
  BY <1>3, <1>5, <1>6
<1>8. QueueOK(n) /\ Whole(n, m, f, <<>>) /\ n.last = vrx.last
  BY <1>3, <1>4, <1>7, AvailKeeps
<1> QED BY <1>1, <1>2, <1>4, <1>5, <1>6, <1>8 DEF RxOK

------------------------------------------------------------------------------
(* The transmit queue.                                                     *)
LEMMA TxTypes ==
  ASSUME TxOK, DrvOK
  PROVE  /\ vtx \in QueueType /\ vtx.last \in Index /\ vtx.uidx \in Index /\ Next1(vtx.last) \in Index
         /\ TxFrom \in Index /\ TxHeld \in Seq(Desc)
<1>1. vtx \in QueueType /\ vtx.last \in Index /\ vtx.uidx \in Index
  BY DEF TxOK, QueueOK, QueueType
<1>2. Next1(vtx.last) \in Index
  BY <1>1, IndexIs
<1>3. drv["send"].di \in Desc
  BY DEF DrvOK, Side
<1>4. TxHeld \in Seq(Desc)
  BY <1>3, DescOne DEF TxHeld
<1> QED BY <1>1, <1>2, <1>4 DEF TxFrom

(* Nothing of it moves, and nobody reclaims who did not.                   *)
LEMMA TxSame ==
  ASSUME TxOK, UNCHANGED <<vtx, tx_free_list>>, TxHeld' = TxHeld,
         \A u \in Side : Reclaiming(u)' => Reclaiming(u) /\ drv'[u].at = drv[u].at /\ drv'[u].di = drv[u].di,
         \A u \in Side : Reclaiming(u) => Reclaiming(u)'
  PROVE  TxOK'
<1>1. Incs' = Incs
  BY DEF Incs, Reclaiming
<1>2. TxFrom' = TxFrom
  BY <1>1 DEF TxFrom
<1>3. Reclaims'
  BY DEF TxOK, Reclaims, Reclaiming
<1> QED BY <1>2, <1>3 DEF TxOK

LEMMA TxMoves ==
  ASSUME TxOK, UNCHANGED <<vtx, tx_free_list>>, NEW t \in Side, NEW at, NEW di, Moved(t, at, di),
         at \notin {"push", "inc"}, ~Reclaiming(t),
         t = "send" => drv[t].at \notin {"fill", "publish"} /\ at \notin {"fill", "publish"}
  PROVE  TxOK'
<1>1. TxHeld' = TxHeld
  BY DEF TxHeld, Moved, Side
<1>2. /\ ~Reclaiming(t)'
      /\ \A u \in Side : u # t => drv'[u].at = drv[u].at /\ drv'[u].di = drv[u].di
  BY DEF Moved, Reclaiming
<1>3. \A u \in Side : u # t => (Reclaiming(u)' <=> Reclaiming(u))
  BY <1>2 DEF Reclaiming
<1> QED BY <1>1, <1>2, <1>3, TxSame

LEMMA TxRead ==
  ASSUME TxOK, UNCHANGED <<vtx, tx_free_list>>, NEW t \in Side, drv[t].at = "reclaim", vtx.last # vtx.uidx,
         \A u \in Side : u # t => ~Reclaiming(u), Moved(t, "push", vtx.used[Ring(vtx.last)])
  PROVE  TxOK'
<1>1. ~Incs /\ ~Incs'
  BY DEF Incs, Reclaiming, Moved
<1>2. TxHeld' = TxHeld
  BY DEF TxHeld, Moved, Side
<1>3. Reclaims'
  BY DEF Reclaims, Reclaiming, Moved
<1> QED BY <1>1, <1>2, <1>3 DEF TxOK, TxFrom

LEMMA TxPushed ==
  ASSUME TxOK, DrvOK, vtx' = vtx, NEW t \in Side, drv[t].at = "push", Moved(t, "inc", drv[t].di),
         tx_free_list' = IF Len(tx_free_list) < QUEUE_SIZE THEN Append(tx_free_list, drv[t].di) ELSE tx_free_list
  PROVE  TxOK'
<1>1. /\ vtx.last # vtx.uidx /\ drv[t].di = vtx.used[Ring(vtx.last)]
      /\ \A u \in Side : u # t => ~Reclaiming(u)
  BY DEF TxOK, Reclaims, Reclaiming
<1>2. ~Incs /\ Incs'
  BY <1>1 DEF Incs, Reclaiming, Moved
<1>3. TxFrom = vtx.last /\ TxFrom' = Next1(vtx.last)
  BY <1>2 DEF TxFrom
<1>4. PICK h \in Seq(Desc) : h = TxHeld
  BY TxTypes
<1>5. PICK f \in Seq(Desc) : f = tx_free_list
  BY DEF TxOK
<1>6. TxHeld' = h
  BY <1>4 DEF TxHeld, Moved, Side
<1>7. QueueOK(vtx) /\ Whole(vtx, vtx.last, f, h)
  BY <1>3, <1>4, <1>5 DEF TxOK
<1>8. PICK d : d = vtx.used[Ring(vtx.last)]
  OBVIOUS
<1>9. Len(f) < QUEUE_SIZE /\ Append(f, d) \in Seq(Desc) /\ Whole(vtx, Next1(vtx.last), Append(f, d), h)
  BY <1>1, <1>7, <1>8, PushKeeps
<1>10. tx_free_list' = Append(f, d)
  BY <1>1, <1>5, <1>8, <1>9
<1>11. Reclaims'
  BY <1>1 DEF Reclaims, Reclaiming, Moved
<1> QED BY <1>3, <1>6, <1>7, <1>9, <1>10, <1>11 DEF TxOK

LEMMA TxPassed ==
  ASSUME TxOK, DrvOK, vtx' = [vtx EXCEPT !.last = (@ + 1) % IDX], tx_free_list' = tx_free_list,
         NEW t \in Side, drv[t].at = "inc", Moved(t, "reclaim", drv[t].di)
  PROVE  TxOK'
<1>1. vtx.last # vtx.uidx /\ \A u \in Side : u # t => ~Reclaiming(u)
  BY DEF TxOK, Reclaims, Reclaiming
<1>2. Incs /\ ~Incs'
  BY <1>1 DEF Incs, Reclaiming, Moved
<1>3. TxHeld' = TxHeld
  BY DEF TxHeld, Moved, Side
<1>4. PICK n : n = [vtx EXCEPT !.last = (@ + 1) % IDX]
  OBVIOUS
<1>5. QueueOK(vtx) /\ Whole(vtx, Next1(vtx.last), tx_free_list, TxHeld)
  BY <1>2 DEF TxOK, TxFrom
<1>6. QueueOK(n) /\ Whole(n, n.last, tx_free_list, TxHeld)
  <2>1. PICK f : f = tx_free_list
    OBVIOUS
  <2>2. PICK h : h = TxHeld
    OBVIOUS
  <2>3. Whole(vtx, Next1(vtx.last), f, h)
    BY <1>5, <2>1, <2>2
  <2>4. QueueOK(n) /\ Whole(n, n.last, f, h)
    BY <1>1, <1>4, <1>5, <2>3, LastKeeps
  <2> QED BY <2>1, <2>2, <2>4
<1>7. TxFrom' = n.last
  BY <1>2, <1>4 DEF TxFrom
<1>8. Reclaims'
  BY <1>1 DEF Reclaims, Reclaiming, Moved
<1> QED BY <1>3, <1>4, <1>6, <1>7, <1>8 DEF TxOK

LEMMA TxTaken ==
  ASSUME TxOK, DrvOK, vtx' = vtx, drv["send"].at = "take", tx_free_list # <<>>,
         Moved("send", "fill", Last(tx_free_list)), tx_free_list' = Front(tx_free_list)
  PROVE  TxOK'
<1>1. PICK f \in Seq(Desc) : f = tx_free_list
  BY DEF TxOK
<1>2. PICK a \in Index : a = TxFrom
  BY TxTypes
<1>3. PICK w \in QueueType : w = vtx
  BY TxTypes
<1>4. TxHeld = <<>> /\ TxHeld' = <<Last(f)>>
  BY <1>1 DEF TxHeld, Moved
<1>5. Last(f) \in Desc /\ Front(f) \in Seq(Desc) /\ Whole(w, a, Front(f), <<Last(f)>>)
  <2>1. Whole(w, a, f, <<>>) /\ f # <<>>
    BY <1>1, <1>2, <1>3, <1>4 DEF TxOK
  <2> QED BY <2>1, TakeKeeps
<1>6. \A u \in Side : (Reclaiming(u)' <=> Reclaiming(u)) /\ (drv'[u].at = "inc" <=> drv[u].at = "inc")
        /\ (Reclaiming(u) => drv'[u].at = drv[u].at /\ drv'[u].di = drv[u].di)
  BY DEF Reclaiming, Moved, Side
<1>7. Incs' = Incs
  BY <1>6 DEF Incs
<1>8. TxFrom' = a
  BY <1>2, <1>7 DEF TxFrom
<1>9. Reclaims'
  BY <1>6 DEF TxOK, Reclaims, Reclaiming
<1> QED BY <1>1, <1>3, <1>4, <1>5, <1>8, <1>9 DEF TxOK

LEMMA TxFilled ==
  ASSUME TxOK, UNCHANGED <<vtx, tx_free_list>>, drv["send"].at = "fill", Moved("send", "publish", drv["send"].di)
  PROVE  TxOK'
<1>1. TxHeld' = TxHeld
  BY DEF TxHeld, Moved
<1>2. \A u \in Side : (Reclaiming(u)' <=> Reclaiming(u))
        /\ (Reclaiming(u) => drv'[u].at = drv[u].at /\ drv'[u].di = drv[u].di)
  BY DEF Reclaiming, Moved, Side
<1> QED BY <1>1, <1>2, TxSame

LEMMA TxPublished ==
  ASSUME TxOK, DrvOK, drv["send"].at = "publish", vtx' = NewAvail(vtx, drv["send"].di),
         tx_free_list' = tx_free_list, Moved("send", "idle", 0)
  PROVE  TxOK'
<1>1. PICK f \in Seq(Desc) : f = tx_free_list
  BY DEF TxOK
<1>2. PICK a \in Index : a = TxFrom
  BY TxTypes
<1>3. PICK d \in Desc : d = drv["send"].di
  BY DEF DrvOK, Side
<1>4. TxHeld = <<d>> /\ TxHeld' = <<>>
  BY <1>3 DEF TxHeld, Moved
<1>5. QueueOK(vtx) /\ Whole(vtx, a, f, <<d>>)
  BY <1>1, <1>2, <1>4 DEF TxOK
<1>6. PICK n : n = NewAvail(vtx, d)
  OBVIOUS
<1>7. QueueOK(n) /\ Whole(n, a, f, <<>>) /\ n.last = vtx.last /\ n.uidx = vtx.uidx /\ n.used = vtx.used
  BY <1>5, <1>6, AvailKeeps
<1>8. vtx' = n
  BY <1>3, <1>6
<1>9. \A u \in Side : (Reclaiming(u)' <=> Reclaiming(u)) /\ (drv'[u].at = "inc" <=> drv[u].at = "inc")
        /\ (Reclaiming(u) => drv'[u].at = drv[u].at /\ drv'[u].di = drv[u].di)
  BY DEF Reclaiming, Moved, Side
<1>10. Incs' = Incs
  BY <1>9 DEF Incs
<1>11. TxFrom' = a
  BY <1>2, <1>7, <1>8, <1>10 DEF TxFrom
<1>12. Reclaims'
  BY <1>7, <1>8, <1>9 DEF TxOK, Reclaims, Reclaiming
<1> QED BY <1>1, <1>4, <1>7, <1>8, <1>11, <1>12 DEF TxOK

(* The device is done with one: the used ring has no more of them than it  *)
(* has places, but for the one that has gone to the list already.          *)
LEMMA TxSent ==
  ASSUME TxOK, DrvOK, drv' = drv, tx_free_list' = tx_free_list, WithDevice(vtx) # <<>>, vtx' = Used(vtx)
  PROVE  TxOK'
<1>1. PICK f \in Seq(Desc) : f = tx_free_list
  BY DEF TxOK
<1>2. PICK a \in Index : a = TxFrom
  BY TxTypes
<1>3. PICK h \in Seq(Desc) : h = TxHeld
  BY TxTypes
<1>4. QueueOK(vtx) /\ Whole(vtx, a, f, h)
  BY <1>1, <1>2, <1>3 DEF TxOK
<1>5. PICK n : n = Used(vtx)
  OBVIOUS
<1>6. /\ QueueOK(n) /\ Whole(n, a, f, h) /\ n.last = vtx.last /\ n.uidx = Next1(vtx.uidx)
      /\ a # vtx.uidx => n.used[Ring(a)] = vtx.used[Ring(a)]
      /\ Dist(a, vtx.uidx) < QUEUE_SIZE
  BY <1>4, <1>5, UsedKeeps
<1>7. vtx' = n
  BY <1>5
<1>8. TxHeld' = h /\ Incs' = Incs /\ TxFrom' = a /\ \A u \in Side : Reclaiming(u)' = Reclaiming(u)
  BY <1>2, <1>3, <1>6, <1>7 DEF TxHeld, Incs, TxFrom, Reclaiming
<1>9. PICK l \in Index : l = vtx.last
  BY TxTypes
<1>10. PICK u \in Index : u = vtx.uidx
  BY TxTypes
<1>11. l # u => l # Next1(u)
  <2>1. SUFFICES ASSUME l # u PROVE l # Next1(u)
    OBVIOUS
  <2>2. Dist(l, u) \in Nat /\ Dist(Next1(l), u) \in Nat /\ Dist(Next1(l), u) = Dist(l, u) - 1
        /\ (a = l \/ a = Next1(l))
    <3>1. Next1(l) \in Index
      BY IndexIs
    <3>2. Dist(l, u) \in Index /\ Dist(Next1(l), u) \in Index
      BY <3>1, IndexIs
    <3> QED BY <1>2, <1>9, <2>1, <3>2, DistIs DEF TxFrom, Index
  <2>3. Dist(l, u) < IDX - 1
    <3>1. Dist(a, u) < QUEUE_SIZE
      BY <1>6, <1>10
    <3>2. QUEUE_SIZE \in Nat /\ IDX \in Nat /\ QUEUE_SIZE + 1 < IDX
      BY SizesAre
    <3>3. CASE a = l
      BY <2>2, <3>1, <3>2, <3>3
    <3>4. CASE a = Next1(l)
      BY <2>2, <3>1, <3>2, <3>4
    <3> QED BY <2>2, <3>3, <3>4
  <2>4. Dist(l, Next1(u)) = Dist(l, u) + 1
    BY <2>3, DistIs
  <2>5. Dist(l, Next1(u)) # 0
    BY <2>2, <2>4
  <2>6. Next1(u) \in Index
    BY IndexIs
  <2> QED BY <2>5, <2>6, DistIs
<1>12. ASSUME NEW t \in Side, Reclaiming(t)
       PROVE  /\ n.last # n.uidx
              /\ drv[t].at = "push" => drv[t].di = n.used[Ring(n.last)]
              /\ \A v \in Side : v # t => ~Reclaiming(v)
  <2>1. /\ vtx.last # vtx.uidx
        /\ drv[t].at = "push" => drv[t].di = vtx.used[Ring(vtx.last)]
        /\ \A v \in Side : v # t => ~Reclaiming(v)
    BY <1>12 DEF TxOK, Reclaims
  <2>2. n.last # n.uidx
    BY <1>6, <1>9, <1>10, <1>11, <2>1
  <2>3. ASSUME drv[t].at = "push" PROVE drv[t].di = n.used[Ring(n.last)]
    <3>1. ~Incs
      BY <2>1, <2>3 DEF Incs, Reclaiming
    <3>2. a = vtx.last
      BY <1>2, <3>1 DEF TxFrom
    <3> QED BY <1>6, <2>1, <2>3, <3>2
  <2> QED BY <2>1, <2>2, <2>3
<1>13. Reclaims'
  BY <1>7, <1>8, <1>12 DEF Reclaims
<1> QED BY <1>1, <1>6, <1>7, <1>8, <1>13 DEF TxOK

------------------------------------------------------------------------------
(* The steps of virtio_net.c.                                              *)
ConsoleOnly == <<[name |-> "console", class |-> "console"]>>
StackOK ==
  /\ Len(g_devices) <= ITT_DEVICES_MAX
  /\ \A i, j \in DOMAIN g_devices : g_devices[i].name = g_devices[j].name => i = j
  /\ g_ready = "no" => g_devices \in {<<>>, ConsoleOnly}
  /\ PbufsExact /\ pbufs \in Int /\ inbox \in Seq(ToSet(inbox))
VirtioOK ==
  /\ drv["task"].at \in TaskAt /\ drv["send"].at \in SendAt
  /\ g_ready # "yes" => drv["task"].at = "wait" /\ drv["send"].at = "idle"
  /\ g_ready = "yes" => RxOK /\ TxOK
NicOK == StackOK /\ DrvOK /\ VirtioOK

LEMMA StackSame == ASSUME StackOK, UNCHANGED <<stackvars, g_ready>> PROVE StackOK'
BY DEF StackOK, stackvars, PbufsExact

LEMMA StackTcpip ==
  ASSUME StackOK, NEW frame, netdev_rx_tcpip(frame), g_ready' = g_ready
  PROVE  StackOK'
<1>1. CASE UNCHANGED <<pbufs, inbox>>
  BY <1>1, StackSame DEF netdev_rx_tcpip, stackvars
<1>2. CASE pbufs' = pbufs - 1 /\ inbox' = Append(inbox, frame)
  <2>1. PICK S : S = ToSet(inbox) /\ inbox \in Seq(S)
    BY DEF StackOK
  <2>2. PICK w \in Seq(S) : w = inbox
    BY <2>1
  <2>3. w \in Seq(S \union {frame}) /\ Len(w) \in Nat
    OBVIOUS
  <2>4. Append(w, frame) \in Seq(S \union {frame}) /\ Len(Append(w, frame)) = Len(w) + 1
    BY <2>3
  <2>5. DOMAIN Append(w, frame) = 1..(Len(w) + 1) /\ DOMAIN w = 1..Len(w)
        /\ (\A i \in 1..Len(w) : Append(w, frame)[i] = w[i]) /\ Append(w, frame)[Len(w) + 1] = frame
    BY <2>3, <2>4
  <2>6. S \union {frame} = ToSet(Append(w, frame))
    <3> DEFINE r == Append(w, frame)
    <3>1. Len(w) + 1 \in 1..(Len(w) + 1) /\ \A i \in 1..Len(w) : i \in 1..(Len(w) + 1)
      BY <2>3
    <3>2. \A i \in 1..(Len(w) + 1) : i \in 1..Len(w) \/ i = Len(w) + 1
      BY <2>3
    <3>3. S = ToSet(w)
      BY <2>1, <2>2
    <3>4. DOMAIN r = 1..(Len(w) + 1) /\ (\A i \in 1..Len(w) : r[i] = w[i]) /\ r[Len(w) + 1] = frame
      BY <2>5
    <3> HIDE DEF r
    <3>5. S \union {frame} = ToSet(r)
      BY <2>5, <3>1, <3>2, <3>3, <3>4 DEF ToSet
    <3> QED BY <3>5 DEF r
  <2>7. inbox' = Append(w, frame)
    BY <1>2, <2>2
  <2>8. inbox' \in Seq(ToSet(inbox'))
    BY <2>4, <2>6, <2>7
  <2>9. pbufs' \in Int /\ pbufs' + Len(inbox') = PBUFS
    BY <1>2, <2>2, <2>3, <2>4, <2>7, NetifAssumption DEF StackOK, PbufsExact
  <2>10. g_devices' = g_devices
    BY DEF netdev_rx_tcpip
  <2> QED BY <2>8, <2>9, <2>10 DEF StackOK, PbufsExact
<1> QED BY <1>1, <1>2 DEF netdev_rx_tcpip

LEMMA StackTaken == ASSUME StackOK, tcpip_thread PROVE StackOK'
<1>1. PICK S : S = ToSet(inbox) /\ inbox \in Seq(S)
  BY DEF StackOK
<1>2. PICK w \in Seq(S) : w = inbox /\ w # <<>>
  BY <1>1 DEF tcpip_thread
<1>3. PICK n \in Nat : Len(w) = n + 1
  <2>1. Len(w) \in Nat /\ Len(w) # 0
    BY <1>2
  <2> QED BY <2>1
<1>4. Tail(w) \in Seq(S) /\ Len(Tail(w)) = n /\ DOMAIN Tail(w) = 1..n
  BY <1>2, <1>3
<1>5. Tail(w) \in Seq(ToSet(Tail(w)))
  <2> DEFINE r == Tail(w)
  <2>1. r \in Seq(S) /\ DOMAIN r = 1..n /\ Len(r) = n
    BY <1>4
  <2> HIDE DEF r
  <2>2. \A i \in 1..n : r[i] \in ToSet(r)
    BY <2>1 DEF ToSet
  <2>3. r \in [1..n -> ToSet(r)]
    BY <2>1, <2>2
  <2>4. r \in Seq(ToSet(r))
    BY <2>3
  <2> QED BY <2>4 DEF r
<1>6. inbox' = Tail(w) /\ pbufs' = pbufs + 1 /\ g_devices' = g_devices /\ g_ready' = g_ready
  BY <1>2 DEF tcpip_thread, drvvars
<1>7. pbufs' \in Int /\ pbufs' + Len(inbox') = PBUFS
  BY <1>2, <1>3, <1>4, <1>6, NetifAssumption DEF StackOK, PbufsExact
<1> QED BY <1>5, <1>6, <1>7 DEF StackOK, PbufsExact

LEMMA AppendOne ==
  ASSUME NEW S, NEW c \in S, NEW d \in S
  PROVE  Append(<<c>>, d) \in Seq(S) /\ Len(Append(<<c>>, d)) = 2 /\ Append(<<c>>, d)[1] = c /\ Append(<<c>>, d)[2] = d
<1>0. <<c>> \in Seq(S) /\ Len(<<c>>) = 1 /\ <<c>>[1] = c
  OBVIOUS
<1>1. PICK w \in Seq(S) : w = <<c>> /\ Len(w) = 1 /\ w[1] = c
  BY <1>0, Zenon
<1>2. Append(w, d) \in Seq(S) /\ Len(Append(w, d)) = 2 /\ Append(w, d)[1] = c /\ Append(w, d)[2] = d
  BY <1>1
<1> QED BY <1>1, <1>2

(* A driver's place in the table, which the console may be in before it.   *)
LEMMA Registered ==
  ASSUME StackOK, g_ready = "no", NEW name, name # "console", g_devices' = netdev_register(name).devs,
         g_ready' # "no", UNCHANGED <<pbufs, inbox>>
  PROVE  StackOK'
<1>1. CASE g_devices' = g_devices
  BY <1>1 DEF StackOK, PbufsExact
<1>2. CASE Len(g_devices) < ITT_DEVICES_MAX /\ g_devices' = Append(g_devices, [name |-> name, class |-> "net"])
  <2>0. ITT_DEVICES_MAX \in Nat
    BY NetifAssumption
  <2>1. CASE g_devices = <<>>
    <3>1. g_devices' = <<[name |-> name, class |-> "net"]>>
      BY <1>2, <2>1
    <3>2. Len(g_devices') = 1 /\ DOMAIN g_devices' = {1}
      BY <3>1
    <3>3. Len(g_devices') <= ITT_DEVICES_MAX
      BY <1>2, <2>0, <2>1, <3>2
    <3> QED BY <3>2, <3>3 DEF StackOK, PbufsExact
  <2>2. CASE g_devices = ConsoleOnly
    <3>1. PICK c : c = [name |-> "console", class |-> "console"]
      OBVIOUS
    <3>2. PICK d : d = [name |-> name, class |-> "net"]
      OBVIOUS
    <3>3. PICK w : w = <<c>>
      OBVIOUS
    <3>4. PICK S : c \in S /\ d \in S
      <4>1. c \in {c, d} /\ d \in {c, d}
        OBVIOUS
      <4> QED BY <4>1
    <3>5. PICK r \in Seq(S) : r = Append(w, d) /\ Len(r) = 2 /\ r[1] = c /\ r[2] = d
      BY <3>3, <3>4, AppendOne
    <3>6. g_devices' = r
      BY <1>2, <2>2, <3>1, <3>2, <3>3, <3>5 DEF ConsoleOnly
    <3>7. /\ Len(g_devices') = 2 /\ DOMAIN g_devices' = {1, 2} /\ g_devices'[1].name = "console"
          /\ g_devices'[2].name = name
      BY <3>1, <3>2, <3>5, <3>6
    <3>8. Len(g_devices) = 1
      BY <2>2 DEF ConsoleOnly
    <3>9. Len(g_devices') <= ITT_DEVICES_MAX
      BY <1>2, <2>0, <3>7, <3>8
    <3> QED BY <3>7, <3>9 DEF StackOK, PbufsExact
  <2> QED BY <2>1, <2>2 DEF StackOK
<1>3. \/ g_devices' = g_devices
      \/ Len(g_devices) < ITT_DEVICES_MAX /\ g_devices' = Append(g_devices, [name |-> name, class |-> "net"])
  <2>1. ITT_DEVICES_MAX \in Nat /\ Len(g_devices) \in Nat
    BY NetifAssumption DEF StackOK, ConsoleOnly
  <2> QED BY <2>1 DEF netdev_register, itt_device_add
<1> QED BY <1>1, <1>2, <1>3

LEMMA StartsOK ==
  /\ QueueOK(virtq_setup) /\ Whole(virtq_setup, virtq_setup.last, <<>>, <<>>)
  /\ QueueOK(EmptyQueue) /\ EmptyQueue.last = 0 /\ Whole(EmptyQueue, 0, Every, <<>>) /\ Every \in Seq(Desc)
<1>1. QUEUE_SIZE \in Nat \ {0} /\ IDX \in Nat /\ QUEUE_SIZE + 1 < IDX
  BY SizesAre
<1>2. 0 \in Index /\ QUEUE_SIZE \in Index /\ 0 \in Desc
  BY <1>1 DEF Index, Desc
<1>3. [i \in Desc |-> i] \in RingType /\ [i \in Desc |-> 0] \in RingType
  BY <1>2 DEF RingType
<1>40. EmptyQueue = [avail |-> [i \in Desc |-> 0], aidx |-> 0, used |-> [i \in Desc |-> 0], uidx |-> 0,
                      last |-> 0, dev |-> 0]
  BY DEF EmptyQueue
<1>41. PICK e \in QueueType : e = EmptyQueue
  BY <1>2, <1>3, <1>40 DEF QueueType
<1>42. virtq_setup = [e EXCEPT !.avail = [i \in Desc |-> i], !.aidx = QUEUE_SIZE]
  BY <1>41 DEF virtq_setup
<1>43. virtq_setup = [avail |-> [i \in Desc |-> i], aidx |-> QUEUE_SIZE, used |-> e.used, uidx |-> e.uidx,
                       last |-> e.last, dev |-> e.dev]
  BY <1>42 DEF QueueType
<1>44. e.used = [i \in Desc |-> 0] /\ e.uidx = 0 /\ e.last = 0 /\ e.dev = 0
  BY <1>40, <1>41
<1>4. /\ virtq_setup = [avail |-> [i \in Desc |-> i], aidx |-> QUEUE_SIZE, used |-> [i \in Desc |-> 0], uidx |-> 0,
                       last |-> 0, dev |-> 0]
      /\ EmptyQueue = [avail |-> [i \in Desc |-> 0], aidx |-> 0, used |-> [i \in Desc |-> 0], uidx |-> 0,
                      last |-> 0, dev |-> 0]
  BY <1>40, <1>43, <1>44
<1>5. PICK g \in RingType : g = [i \in Desc |-> i]
  BY <1>3
<1>6. PICK z \in RingType : z = [i \in Desc |-> 0]
  BY <1>3
<1>7. QueueOK(virtq_setup) /\ QueueOK(EmptyQueue) /\ EmptyQueue.last = 0 /\ virtq_setup.last = 0
  BY <1>2, <1>3, <1>4 DEF QueueOK, QueueType
<1>8. Dist(0, 0) = 0 /\ Dist(0, QUEUE_SIZE) = QUEUE_SIZE
  BY <1>1, <1>2, IndexIs
<1>9. From(z, 0, 0) = <<>>
  BY <1>2, FromIs
<1>10. PICK w \in Seq(Desc) : w = From(g, 0, QUEUE_SIZE) /\ Len(w) = QUEUE_SIZE
                             /\ \A i \in 1..QUEUE_SIZE : w[i] = g[Ring(0 + i - 1)]
  <2> DEFINE f == From(g, 0, QUEUE_SIZE)
  <2>1. /\ f \in Seq(Desc) /\ Len(f) = Dist(0, QUEUE_SIZE)
        /\ \A i \in 1..Dist(0, QUEUE_SIZE) : f[i] = g[Ring(0 + i - 1)]
    BY <1>2, FromIs
  <2> HIDE DEF f
  <2>2. f \in Seq(Desc) /\ Len(f) = QUEUE_SIZE /\ \A i \in 1..QUEUE_SIZE : f[i] = g[Ring(0 + i - 1)]
    BY <1>8, <2>1
  <2> QED BY <2>2 DEF f
<1>11. ASSUME NEW i \in 1..QUEUE_SIZE PROVE w[i] = i - 1
  <2>1. i - 1 \in Desc /\ 0 + i - 1 = i - 1
    BY <1>1 DEF Desc
  <2>2. Ring(i - 1) = i - 1
    BY <1>1, <2>1 DEF Ring, Desc
  <2> QED BY <1>5, <1>10, <2>1, <2>2
<1>12. Every \in Seq(Desc) /\ Len(Every) = QUEUE_SIZE /\ \A i \in 1..QUEUE_SIZE : Every[i] = i - 1
  <2>1. \A i \in 1..QUEUE_SIZE : i - 1 \in Desc
    BY <1>1 DEF Desc
  <2>2. Every \in [1..QUEUE_SIZE -> Desc]
    BY <2>1 DEF Every
  <2>3. Every \in Seq(Desc) /\ Len(Every) = QUEUE_SIZE
    <3> DEFINE f == Every
    <3>1. f \in [1..QUEUE_SIZE -> Desc] /\ QUEUE_SIZE \in Nat
      BY <1>1, <2>2
    <3> HIDE DEF f
    <3>2. f \in Seq(Desc) /\ Len(f) = QUEUE_SIZE
      BY <3>1
    <3> QED BY <3>2 DEF f
  <2> QED BY <2>3 DEF Every
<1>13. ASSUME NEW f \in Seq(Desc), Len(f) = QUEUE_SIZE, \A i \in 1..QUEUE_SIZE : f[i] = i - 1 PROVE ToSet(f) = Desc
  <2>1. DOMAIN f = 1..QUEUE_SIZE /\ \A d \in Desc : d + 1 \in 1..QUEUE_SIZE /\ (d + 1) - 1 = d
    BY <1>1, <1>13 DEF Desc
  <2>2. \A d \in Desc : f[d + 1] = d
    BY <1>13, <2>1
  <2>3. Desc \subseteq ToSet(f)
    BY <2>1, <2>2 DEF ToSet
  <2>4. ToSet(f) \subseteq Desc
    <3>1. \A i \in 1..QUEUE_SIZE : f[i] \in Desc
      BY <1>13
    <3> QED BY <2>1, <3>1 DEF ToSet
  <2> QED BY <2>3, <2>4
<1>14. ToSet(w) = Desc /\ ToSet(Every) = Desc
  BY <1>10, <1>11, <1>12, <1>13
<1>15. Len(<<>>) = 0 /\ ToSet(<<>>) = {}
  BY DescOne
<1>16. /\ WithDevice(virtq_setup) = w /\ From(virtq_setup.used, virtq_setup.last, virtq_setup.uidx) = <<>>
       /\ WithDevice(EmptyQueue) = <<>> /\ From(EmptyQueue.used, 0, EmptyQueue.uidx) = <<>>
  BY <1>4, <1>5, <1>6, <1>9, <1>10 DEF WithDevice
<1>17. Whole(virtq_setup, virtq_setup.last, <<>>, <<>>)
  BY <1>1, <1>10, <1>14, <1>15, <1>16 DEF Whole
<1>18. Whole(EmptyQueue, 0, Every, <<>>)
  BY <1>1, <1>12, <1>14, <1>15, <1>16 DEF Whole
<1> QED BY <1>7, <1>12, <1>17, <1>18

------------------------------------------------------------------------------
LEMMA RxMoves ==
  ASSUME RxOK, vrx' = vrx, NEW t \in Side, NEW at, NEW di, Moved(t, at, di),
         t = "task" => at # "fill" /\ drv[t].at # "fill"
  PROVE  RxOK'
BY RxSame DEF Moved, Side

(* A step that a side takes once the driver is ready.                      *)
LEMMA ReadyIs ==
  ASSUME VirtioOK, g_ready = "yes" \/ drv["task"].at # "wait" \/ drv["send"].at # "idle"
  PROVE  g_ready = "yes" /\ RxOK /\ TxOK /\ drv["task"].at \in TaskAt /\ drv["send"].at \in SendAt
BY DEF VirtioOK

LEMMA SideMoves ==
  ASSUME NicOK, NEW t \in Side, NEW at, NEW di, Moved(t, at, di),
         t = "task" => at \in TaskAt, t = "send" => at \in SendAt,
         g_ready = "yes", g_ready' = g_ready, RxOK', TxOK'
  PROVE  VirtioOK'
<1>1. drv'["task"].at \in TaskAt /\ drv'["send"].at \in SendAt
  BY DEF NicOK, VirtioOK, Moved, Side
<1> QED BY <1>1 DEF VirtioOK

(* A step that is no part of the transmit queue's, and leaves the receive  *)
(* queue alone.                                                            *)
LEMMA QuietStep ==
  ASSUME NicOK, NEW t \in Side, NEW at, NEW di, Moved(t, at, di), DrvOK', StackOK',
         t = "task" => at \in TaskAt \ {"fill", "push", "inc"} /\ drv[t].at \notin {"fill", "push", "inc"},
         t = "send" => at \in SendAt \ {"fill", "publish", "push", "inc"}
                         /\ drv[t].at \notin {"fill", "publish", "push", "inc"},
         g_ready = "yes", g_ready' = g_ready, UNCHANGED <<vrx, vtx, tx_free_list>>
  PROVE  NicOK'
<1>1. RxOK /\ TxOK
  BY DEF NicOK, VirtioOK
<1>2. at \notin {"push", "inc"} /\ ~Reclaiming(t)
  BY DEF Side, Reclaiming
<1>3. t = "send" => drv[t].at \notin {"fill", "publish"} /\ at \notin {"fill", "publish"}
  OBVIOUS
<1>4. TxOK'
  BY <1>1, <1>2, <1>3, TxMoves
<1>5. t = "task" => at # "fill" /\ drv[t].at # "fill"
  OBVIOUS
<1>6. RxOK'
  BY <1>1, <1>5, RxMoves
<1>7. (t = "task" => at \in TaskAt) /\ (t = "send" => at \in SendAt)
  OBVIOUS
<1>8. VirtioOK'
  BY <1>4, <1>6, <1>7, SideMoves
<1> QED BY <1>8 DEF NicOK

LEMMA WaitStep == ASSUME NicOK, vnet_wait \/ vnet_clear PROVE NicOK'
<1>1. PICK at \in {"clear", "rx"} : Goes("task", at) /\ drv["task"].at \in {"wait", "clear"}
  BY DEF vnet_wait, vnet_clear, twai_flg, clr_flg
<1>2. /\ UNCHANGED <<stackvars, g_ready, vrx, vtx, tx_free_list>> /\ sent' = sent
      /\ vnet_wait => g_ready = "yes"
      /\ vnet_clear => drv["task"].at # "wait"
  BY DEF vnet_wait, vnet_clear, twai_flg, clr_flg, queuevars
<1>3. g_ready = "yes"
  BY <1>2, ReadyIs DEF NicOK
<1>4. "task" \in Side /\ at \in DrvAt
  BY <1>1 DEF Side, DrvAt, TaskAt
<1>5. DrvOK' /\ Moved("task", at, drv["task"].di)
  BY <1>1, <1>2, <1>4, GoesMoves DEF NicOK
<1>6. StackOK'
  BY <1>2, StackSame DEF NicOK
<1>7. at \in TaskAt \ {"fill", "push", "inc"} /\ drv["task"].at \notin {"fill", "push", "inc"}
  BY <1>1 DEF TaskAt
<1> QED BY <1>2, <1>3, <1>4, <1>5, <1>6, <1>7, QuietStep

LEMMA ProcessStep == ASSUME NicOK, vnet_process PROVE NicOK'
<1>1. /\ drv["task"].at = "rx" /\ UNCHANGED <<g_ready, vtx, tx_free_list>> /\ sent' = sent
      /\ "task" \in Side /\ "reclaim" \in DrvAt /\ "fill" \in DrvAt
  BY DEF vnet_process, Side, DrvAt, TaskAt
<1>2. g_ready = "yes" /\ RxOK /\ TxOK
  BY <1>1, ReadyIs DEF NicOK
<1>3. CASE vrx.last = vrx.uidx
  <2>1. Goes("task", "reclaim") /\ UNCHANGED <<stackvars, vrx>>
    BY <1>3 DEF vnet_process
  <2>2. DrvOK' /\ Moved("task", "reclaim", drv["task"].di)
    BY <1>1, <2>1, GoesMoves DEF NicOK
  <2>3. StackOK'
    BY <1>1, <2>1, StackSame DEF NicOK
  <2>4. "reclaim" \in TaskAt \ {"fill", "push", "inc"} /\ drv["task"].at \notin {"fill", "push", "inc"}
    BY <1>1 DEF TaskAt
  <2> QED BY <1>1, <1>2, <2>1, <2>2, <2>3, <2>4, QuietStep
<1>4. CASE vrx.last # vrx.uidx
  <2>1. PICK d : d = vrx.used[Ring(vrx.last)]
    OBVIOUS
  <2>2. /\ netdev_rx_tcpip(rx_buf[d]) /\ vrx' = [vrx EXCEPT !.last = (@ + 1) % IDX] /\ Sets("task", "fill", d)
    BY <1>4, <2>1 DEF vnet_process, Ring
  <2>3. d \in Desc
    <3>1. QueueOK(vrx) /\ Whole(vrx, vrx.last, <<>>, <<>>)
      BY <1>1, <1>2 DEF RxOK, RxHeld
    <3> QED BY <1>4, <2>1, <3>1, HoldKeeps
  <2>4. DrvOK' /\ Moved("task", "fill", d)
    BY <1>1, <2>2, <2>3, SetsMoves DEF NicOK
  <2>5. RxOK'
    BY <1>1, <1>2, <1>4, <2>1, <2>2, <2>4, RxTaken
  <2>6. StackOK'
    BY <1>1, <2>2, StackTcpip DEF NicOK
  <2>7. TxOK'
    <3>1. ~Reclaiming("task")
      BY <1>1 DEF Reclaiming
    <3> QED BY <1>1, <1>2, <2>4, <3>1, TxMoves
  <2>8. "fill" \in TaskAt
    BY DEF TaskAt
  <2>9. VirtioOK'
    BY <1>1, <1>2, <2>4, <2>5, <2>7, <2>8, SideMoves
  <2> QED BY <2>4, <2>6, <2>9 DEF NicOK
<1> QED BY <1>3, <1>4

LEMMA FillStep == ASSUME NicOK, rx_fill PROVE NicOK'
<1>1. /\ drv["task"].at = "fill" /\ UNCHANGED <<stackvars, g_ready, vtx, tx_free_list>> /\ sent' = sent
      /\ vrx' = NewAvail(vrx, drv["task"].di) /\ Goes("task", "rx")
      /\ "task" \in Side /\ "rx" \in DrvAt /\ "rx" \in TaskAt
  BY DEF rx_fill, Side, DrvAt, TaskAt
<1>2. g_ready = "yes" /\ RxOK /\ TxOK /\ DrvOK
  BY <1>1, ReadyIs DEF NicOK
<1>3. DrvOK' /\ Moved("task", "rx", drv["task"].di)
  BY <1>1, <1>2, GoesMoves
<1>4. StackOK'
  BY <1>1, StackSame DEF NicOK
<1>5. RxOK'
  BY <1>1, <1>2, <1>3, RxGiven DEF Moved
<1>6. TxOK'
  <2>1. ~Reclaiming("task")
    BY <1>1 DEF Reclaiming
  <2> QED BY <1>1, <1>2, <1>3, <2>1, TxMoves
<1>7. VirtioOK'
  BY <1>1, <1>2, <1>3, <1>5, <1>6, SideMoves
<1> QED BY <1>3, <1>4, <1>7 DEF NicOK

LEMMA ReclaimStep == ASSUME NicOK, ~Overlap, NEW t \in Side, reclaim(t) PROVE NicOK'
<1>1. /\ drv[t].at \in {"reclaim", "push", "inc"} /\ UNCHANGED <<stackvars, g_ready, vrx>> /\ sent' = sent
      /\ {"reclaim", "push", "inc", "wait", "take"} \subseteq DrvAt
  BY DEF reclaim, reclaim_read, reclaim_push, reclaim_inc, queuevars, DrvAt, TaskAt, SendAt
<1>2. g_ready = "yes" /\ RxOK /\ TxOK /\ DrvOK
  BY <1>1, ReadyIs DEF NicOK, Side
<1>3. StackOK'
  BY <1>1, StackSame DEF NicOK
<1>4. ASSUME NEW at \in {"reclaim", "push", "inc"}, NEW di, Moved(t, at, di), DrvOK', TxOK' PROVE NicOK'
  <2>1. t = "task" => at # "fill" /\ drv[t].at # "fill"
    BY <1>1, <1>4
  <2>2. RxOK'
    BY <1>1, <1>2, <1>4, <2>1, RxMoves
  <2>3. at \in TaskAt /\ at \in SendAt
    BY DEF TaskAt, SendAt
  <2>4. VirtioOK'
    BY <1>1, <1>2, <1>4, <2>2, <2>3, SideMoves
  <2> QED BY <1>3, <1>4, <2>4 DEF NicOK
<1>5. CASE reclaim_read(t)
  <2>1. CASE vtx.last = vtx.uidx
    <3>1. PICK at \in {"wait", "take"} : Goes(t, at) /\ at = IF t = "task" THEN "wait" ELSE "take"
      BY <1>5, <2>1 DEF reclaim_read
    <3>2. DrvOK' /\ Moved(t, at, drv[t].di)
      BY <1>1, <1>2, <3>1, GoesMoves
    <3>3. drv[t].at = "reclaim" /\ UNCHANGED <<vrx, vtx, tx_free_list>>
      BY <1>5 DEF reclaim_read, queuevars
    <3>4. t = "task" => at \in TaskAt \ {"fill", "push", "inc"} /\ drv[t].at \notin {"fill", "push", "inc"}
      BY <3>1, <3>3 DEF TaskAt
    <3>5. t = "send" => at \in SendAt \ {"fill", "publish", "push", "inc"}
                          /\ drv[t].at \notin {"fill", "publish", "push", "inc"}
      BY <3>1, <3>3 DEF SendAt
    <3> QED BY <1>1, <1>2, <1>3, <3>2, <3>3, <3>4, <3>5, QuietStep
  <2>2. CASE vtx.last # vtx.uidx
    <3>1. PICK d : d = vtx.used[Ring(vtx.last)]
      OBVIOUS
    <3>2. Sets(t, "push", d) /\ drv[t].at = "reclaim" /\ UNCHANGED <<vtx, tx_free_list>> /\ Apart(t)
      BY <1>5, <2>2, <3>1 DEF reclaim_read, Ring, queuevars
    <3>3. d \in Desc
      <4>1. PICK f \in Seq(Desc) : f = tx_free_list
        BY <1>2 DEF TxOK
      <4>2. PICK h \in Seq(Desc) : h = TxHeld
        BY <1>2, TxTypes
      <4>3. ~Incs
        BY <3>2 DEF Incs, Apart, Side
      <4>4. QueueOK(vtx) /\ Whole(vtx, vtx.last, f, h)
        BY <1>2, <4>1, <4>2, <4>3 DEF TxOK, TxFrom
      <4> QED BY <2>2, <3>1, <4>4, PushKeeps
    <3>4. DrvOK' /\ Moved(t, "push", d)
      BY <1>1, <1>2, <3>2, <3>3, SetsMoves
    <3>5. \A u \in Side : u # t => ~Reclaiming(u)
      BY <3>2 DEF Apart, Reclaiming, Side
    <3>6. TxOK'
      BY <1>2, <2>2, <3>1, <3>2, <3>4, <3>5, TxRead
    <3> QED BY <1>4, <3>4, <3>6
  <2> QED BY <2>1, <2>2
<1>6. CASE reclaim_push(t)
  <2>1. /\ drv[t].at = "push" /\ Goes(t, "inc") /\ vtx' = vtx
        /\ tx_free_list' = IF Len(tx_free_list) < QUEUE_SIZE THEN Append(tx_free_list, drv[t].di)
                           ELSE tx_free_list
    BY <1>6 DEF reclaim_push
  <2>2. DrvOK' /\ Moved(t, "inc", drv[t].di)
    BY <1>1, <1>2, <2>1, GoesMoves
  <2>3. TxOK'
    BY <1>2, <2>1, <2>2, TxPushed
  <2> QED BY <1>4, <2>2, <2>3
<1>7. CASE reclaim_inc(t)
  <2>1. /\ drv[t].at = "inc" /\ Goes(t, "reclaim") /\ vtx' = [vtx EXCEPT !.last = (@ + 1) % IDX]
        /\ tx_free_list' = tx_free_list
    BY <1>7 DEF reclaim_inc
  <2>2. DrvOK' /\ Moved(t, "reclaim", drv[t].di)
    BY <1>1, <1>2, <2>1, GoesMoves
  <2>3. TxOK'
    BY <1>2, <2>1, <2>2, TxPassed
  <2> QED BY <1>4, <2>2, <2>3
<1> QED BY <1>5, <1>6, <1>7 DEF reclaim

LEMMA SendStep == ASSUME NicOK, vnet_tx \/ vnet_tx_take \/ vnet_tx_fill \/ vnet_tx_publish PROVE NicOK'
<1>0. "send" \in Side /\ {"reclaim", "idle", "fill", "publish"} \subseteq SendAt /\ SendAt \subseteq DrvAt
  BY DEF Side, SendAt, DrvAt
<1>1. CASE vnet_tx
  <2>1. low_level_output("reclaim") /\ UNCHANGED <<vrx, vtx, tx_free_list>>
    BY <1>1 DEF vnet_tx, queuevars
  <2>2. /\ DrvOK' /\ Moved("send", "reclaim", 0) /\ drv["send"].at = "idle" /\ g_ready = "yes"
        /\ UNCHANGED <<stackvars, g_ready>>
    BY <1>0, <2>1, OutputMoves DEF NicOK
  <2>3. StackOK'
    BY <2>2, StackSame DEF NicOK
  <2>4. "reclaim" \in SendAt \ {"fill", "publish", "push", "inc"}
        /\ drv["send"].at \notin {"fill", "publish", "push", "inc"}
    BY <1>0, <2>2
  <2> QED BY <1>0, <2>1, <2>2, <2>3, <2>4, QuietStep
<1>2. ASSUME drv["send"].at \in {"take", "fill", "publish"}, UNCHANGED <<stackvars, g_ready, vrx>>, sent' = sent
      PROVE  g_ready = "yes" /\ RxOK /\ TxOK /\ DrvOK /\ StackOK'
  <2>1. g_ready = "yes" /\ RxOK /\ TxOK /\ DrvOK
    BY <1>2, ReadyIs DEF NicOK
  <2>2. StackOK'
    BY <1>2, StackSame DEF NicOK
  <2> QED BY <2>1, <2>2
<1>20. ASSUME drv["send"].at \in {"take", "fill", "publish"}, UNCHANGED <<stackvars, g_ready, vrx>>, sent' = sent,
              NEW at \in SendAt, NEW di, Moved("send", at, di), DrvOK', TxOK'
       PROVE  NicOK'
  <2>1. g_ready = "yes" /\ RxOK /\ TxOK /\ DrvOK /\ StackOK'
    BY <1>2, <1>20
  <2>2. RxOK'
    BY <1>0, <1>20, <2>1, RxMoves
  <2>3. VirtioOK'
    BY <1>0, <1>20, <2>1, <2>2, SideMoves
  <2> QED BY <1>20, <2>1, <2>3 DEF NicOK
<1>3. CASE vnet_tx_take
  <2>1. drv["send"].at = "take" /\ UNCHANGED <<stackvars, g_ready, vrx, vtx>> /\ sent' = sent
    BY <1>3 DEF vnet_tx_take
  <2>2. g_ready = "yes" /\ RxOK /\ TxOK /\ DrvOK /\ StackOK'
    BY <1>2, <2>1
  <2>3. CASE tx_free_list = <<>>
    <3>1. Returns /\ UNCHANGED tx_free_list
      BY <1>3, <2>3 DEF vnet_tx_take
    <3>2. DrvOK' /\ Moved("send", "idle", 0)
      BY <2>1, <2>2, <3>1, ReturnsMoves
    <3>3. "idle" \in SendAt \ {"fill", "publish", "push", "inc"}
          /\ drv["send"].at \notin {"fill", "publish", "push", "inc"}
      BY <1>0, <2>1
    <3> QED BY <1>0, <2>1, <2>2, <3>1, <3>2, <3>3, QuietStep
  <2>4. CASE tx_free_list # <<>>
    <3>1. Sets("send", "fill", Last(tx_free_list)) /\ tx_free_list' = Front(tx_free_list)
      BY <1>3, <2>4 DEF vnet_tx_take
    <3>2. PICK d \in Desc : d = Last(tx_free_list)
      <4>1. PICK f \in Seq(Desc) : f = tx_free_list
        BY <2>2 DEF TxOK
      <4>2. Last(f) \in Desc
        BY <2>4, <4>1, DescLess
      <4> QED BY <4>1, <4>2
    <3>3. DrvOK' /\ Moved("send", "fill", d)
      BY <1>0, <2>1, <2>2, <3>1, <3>2, SetsMoves
    <3>4. TxOK'
      BY <2>1, <2>2, <2>4, <3>1, <3>2, <3>3, TxTaken
    <3> QED BY <1>0, <1>20, <2>1, <3>3, <3>4
  <2> QED BY <2>3, <2>4
<1>4. CASE vnet_tx_fill
  <2>1. /\ drv["send"].at = "fill" /\ UNCHANGED <<stackvars, g_ready, vrx, vtx, tx_free_list>> /\ sent' = sent
        /\ Goes("send", "publish")
    BY <1>4 DEF vnet_tx_fill
  <2>2. TxOK /\ DrvOK
    BY <1>2, <2>1
  <2>3. DrvOK' /\ Moved("send", "publish", drv["send"].di)
    BY <1>0, <2>1, <2>2, GoesMoves
  <2>4. TxOK'
    BY <2>1, <2>2, <2>3, TxFilled
  <2> QED BY <1>0, <1>20, <2>1, <2>3, <2>4
<1>5. CASE vnet_tx_publish
  <2>1. /\ drv["send"].at = "publish" /\ UNCHANGED <<stackvars, g_ready, vrx, tx_free_list>> /\ sent' = sent
        /\ Returns /\ vtx' = NewAvail(vtx, drv["send"].di)
    BY <1>5 DEF vnet_tx_publish
  <2>2. TxOK /\ DrvOK
    BY <1>2, <2>1
  <2>3. DrvOK' /\ Moved("send", "idle", 0)
    BY <2>1, <2>2, ReturnsMoves
  <2>4. TxOK'
    BY <2>1, <2>2, <2>3, TxPublished
  <2> QED BY <1>0, <1>20, <2>1, <2>3, <2>4
<1> QED BY <1>1, <1>3, <1>4, <1>5

(* The device, its interrupt, and the tcpip thread.                        *)
LEMMA DeviceStep ==
  ASSUME NicOK, vdev_receive \/ vdev_transmit \/ virtio_net_irq
  PROVE  NicOK'
<1>1. UNCHANGED <<stackvars, g_ready, drv>> /\ sent' = sent
  BY DEF vdev_receive, vdev_transmit, virtio_net_irq
<1>2. StackOK' /\ DrvOK'
  BY <1>1, StackSame DEF NicOK, DrvOK
<1>3. ASSUME g_ready = "yes" PROVE RxOK' /\ TxOK'
  <2>1. RxOK /\ TxOK /\ DrvOK
    BY <1>3 DEF NicOK, VirtioOK
  <2>2. UNCHANGED vrx => RxOK'
    BY <1>1, <2>1, RxSame
  <2>3. UNCHANGED <<vtx, tx_free_list>> => TxOK'
    <3>1. TxHeld' = TxHeld
      BY <1>1 DEF TxHeld
    <3>2. \A u \in Side : (Reclaiming(u)' <=> Reclaiming(u)) /\ drv'[u].at = drv[u].at /\ drv'[u].di = drv[u].di
      BY <1>1 DEF Reclaiming
    <3> QED BY <2>1, <3>1, <3>2, TxSame
  <2>4. CASE vdev_receive
    <3>1. UNCHANGED <<vtx, tx_free_list>>
      BY <2>4 DEF vdev_receive
    <3>2. CASE WithDevice(vrx) = <<>>
      BY <2>2, <2>3, <2>4, <3>1, <3>2 DEF vdev_receive
    <3>3. CASE WithDevice(vrx) # <<>>
      <4>1. vrx' = Used(vrx)
        BY <2>4, <3>3 DEF vdev_receive
      <4>2. drv' = drv
        BY <1>1
      <4>3. RxOK'
        BY <2>1, <3>3, <4>1, <4>2, RxReceive
      <4> QED BY <2>3, <3>1, <4>3
    <3> QED BY <3>2, <3>3
  <2>5. CASE vdev_transmit
    <3>1. UNCHANGED <<vrx, tx_free_list>>
      BY <2>5 DEF vdev_transmit
    <3>2. CASE WithDevice(vtx) = <<>>
      BY <2>2, <2>3, <2>5, <3>1, <3>2 DEF vdev_transmit
    <3>3. CASE WithDevice(vtx) # <<>>
      <4>1. vtx' = Used(vtx)
        BY <2>5, <3>3 DEF vdev_transmit
      <4>2. drv' = drv /\ tx_free_list' = tx_free_list
        BY <1>1, <3>1
      <4>3. TxOK'
        BY <2>1, <3>3, <4>1, <4>2, TxSent
      <4> QED BY <2>2, <3>1, <4>3
    <3> QED BY <3>2, <3>3
  <2>6. CASE virtio_net_irq
    BY <2>2, <2>3, <2>6 DEF virtio_net_irq, queuevars
  <2> QED BY <2>4, <2>5, <2>6
<1>4. VirtioOK'
  BY <1>1, <1>3 DEF NicOK, VirtioOK
<1> QED BY <1>2, <1>4 DEF NicOK

LEMMA StackStep == ASSUME NicOK, Stack, UNCHANGED queuevars PROVE NicOK'
<1>1. UNCHANGED <<g_ready, drv, sent, vrx, vtx, tx_free_list>>
  BY DEF Stack, netif_netdev_add, tcpip_thread, drvvars, queuevars
<1>2. StackOK'
  <2>1. CASE netif_netdev_add
    BY <1>1, <2>1 DEF netif_netdev_add, NicOK, StackOK, PbufsExact
  <2>2. CASE tcpip_thread
    BY <2>2, StackTaken DEF NicOK
  <2> QED BY <2>1, <2>2 DEF Stack
<1>3. DrvOK'
  BY <1>1 DEF NicOK, DrvOK
<1>4. RxHeld' = RxHeld /\ TxHeld' = TxHeld /\ TxFrom' = TxFrom /\ (Reclaims <=> Reclaims')
  BY <1>1 DEF RxHeld, TxHeld, TxFrom, Incs, Reclaims, Reclaiming
<1>5. VirtioOK'
  BY <1>1, <1>4 DEF NicOK, VirtioOK, RxOK, TxOK
<1> QED BY <1>2, <1>3, <1>5 DEF NicOK

LEMMA InitStep == ASSUME NicOK, vnet_init PROVE NicOK'
<1>1. /\ g_ready = "no" /\ g_ready' \in {"yes", "failed"} /\ g_devices' = netdev_register("virtio0").devs
      /\ UNCHANGED <<pbufs, inbox, drv, sent>> /\ "virtio0" # "console"
  BY DEF vnet_init
<1>2. StackOK'
  BY <1>1, Registered DEF NicOK
<1>3. DrvOK'
  BY <1>1 DEF NicOK, DrvOK
<1>4. drv["task"].at = "wait" /\ drv["send"].at = "idle"
  BY <1>1 DEF NicOK, VirtioOK
<1>5. ASSUME g_ready' = "yes" PROVE RxOK' /\ TxOK'
  <2>1. vrx' = virtq_setup /\ vtx' = EmptyQueue /\ tx_free_list' = Every
    BY <1>5 DEF vnet_init
  <2>2. RxHeld' = <<>> /\ TxHeld' = <<>> /\ ~Incs' /\ \A u \in Side : ~Reclaiming(u)'
    BY <1>1, <1>4 DEF RxHeld, TxHeld, Incs, Reclaiming, Side
  <2>3. RxOK'
    BY <2>1, <2>2, StartsOK DEF RxOK
  <2>4. TxFrom' = 0 /\ Reclaims'
    BY <2>1, <2>2, StartsOK DEF TxFrom, Reclaims
  <2>5. TxOK'
    BY <2>1, <2>2, <2>4, StartsOK DEF TxOK
  <2> QED BY <2>3, <2>5
<1>6. VirtioOK'
  BY <1>1, <1>4, <1>5 DEF VirtioOK, TaskAt, SendAt
<1> QED BY <1>2, <1>3, <1>6 DEF NicOK

LEMMA VirtioKeeps ==
  ASSUME NicOK, ~Overlap, VirtioStep \/ (Stack /\ UNCHANGED queuevars)
  PROVE  NicOK'
<1>1. CASE VirtioStep
  <2>1. "task" \in Side /\ "send" \in Side
    BY DEF Side
  <2>2. \/ vnet_init \/ vdev_receive \/ vdev_transmit \/ virtio_net_irq
        \/ vnet_wait \/ vnet_clear \/ vnet_process \/ rx_fill \/ reclaim("task")
        \/ vnet_tx \/ vnet_tx_take \/ vnet_tx_fill \/ vnet_tx_publish \/ reclaim("send")
    BY <1>1 DEF VirtioStep, VirtioDevice, VirtioTask, VirtioSend
  <2> QED BY <2>1, <2>2, InitStep, DeviceStep, WaitStep, ProcessStep, FillStep, ReclaimStep, SendStep
<1>2. CASE Stack /\ UNCHANGED queuevars
  BY <1>2, StackStep
<1> QED BY <1>1, <1>2

------------------------------------------------------------------------------
(* gem_net.c: what is its own is not told apart here.                      *)
LEMMA GemKeeps ==
  ASSUME StackOK, DrvOK, GemStep \/ Stack
  PROVE  StackOK' /\ DrvOK'
<1>0. /\ "task" \in Side /\ "send" \in Side
      /\ {"wait", "clear", "rx", "addr", "status", "spin", "copy", "give", "start", "idle"} \subseteq DrvAt
  BY DEF Side, DrvAt, TaskAt, SendAt
<1>1. CASE gem_net_init
  <2>1. /\ g_ready = "no" /\ g_ready' \in {"failed", "yes"} /\ UNCHANGED <<pbufs, inbox, drv, sent>>
        /\ g_devices' = g_devices \/ g_devices' = netdev_register("gem3").devs
    BY <1>1 DEF gem_net_init
  <2>2. CASE g_devices' = g_devices
    BY <2>1, <2>2 DEF StackOK, DrvOK, PbufsExact
  <2>3. CASE g_devices' = netdev_register("gem3").devs
    <3>1. StackOK'
      BY <2>1, <2>3, Registered
    <3> QED BY <2>1, <3>1 DEF DrvOK
  <2> QED BY <2>1, <2>2, <2>3
<1>2. CASE UNCHANGED <<stackvars, g_ready, drv, sent>>
  BY <1>2, StackSame DEF DrvOK
<1>3. ASSUME UNCHANGED <<stackvars, g_ready>>, sent' = sent,
             Returns \/ \E t \in Side, at \in DrvAt : Goes(t, at)
      PROVE  StackOK' /\ DrvOK'
  BY <1>3, StackSame, GoesMoves, ReturnsMoves
<1>4. CASE gem_rx_wait \/ gem_rx_clear
  BY <1>0, <1>3, <1>4 DEF gem_rx_wait, gem_rx_clear, twai_flg, clr_flg
<1>5. CASE gem_process_rx
  <2>1. PICK at \in {"addr", "wait"} : Goes("task", at) /\ g_ready' = g_ready /\ sent' = sent
    BY <1>5 DEF gem_process_rx
  <2>2. DrvOK'
    BY <1>0, <2>1, GoesMoves
  <2>3. UNCHANGED stackvars \/ \E frame : netdev_rx_tcpip(frame)
    BY <1>5, Zenon DEF gem_process_rx
  <2>4. StackOK'
    BY <2>1, <2>3, StackSame, StackTcpip
  <2> QED BY <2>2, <2>4
<1>6. CASE rearm_addr \/ rearm_status
  BY <1>0, <1>3, <1>6 DEF rearm_addr, rearm_status
<1>7. CASE gem_hw_tx
  BY <1>0, <1>7, OutputMoves, StackSame DEF gem_hw_tx
<1>8. CASE gem_tx_spin \/ gem_tx_copy \/ gem_tx_give \/ gem_tx_start
  BY <1>0, <1>3, <1>8 DEF gem_tx_spin, gem_tx_copy, gem_tx_give, gem_tx_start
<1>9. CASE mac_receive \/ mac_transmit \/ gem_irq
  BY <1>2, <1>9 DEF mac_receive, mac_transmit, gem_irq
<1>10. CASE Stack
  <2>1. CASE netif_netdev_add
    BY <2>1 DEF netif_netdev_add, drvvars, StackOK, DrvOK, PbufsExact
  <2>2. CASE tcpip_thread
    BY <2>2, StackTaken DEF tcpip_thread, drvvars, DrvOK
  <2> QED BY <1>10, <2>1, <2>2 DEF Stack
<1> QED BY <1>1, <1>4, <1>5, <1>6, <1>7, <1>8, <1>9, <1>10 DEF GemStep, GemDevice, GemTask, GemSend

------------------------------------------------------------------------------
BuffersInv == StackOK /\ DrvOK /\ (part = "virtio" => VirtioOK)

LEMMA InitBuffers == Init => BuffersInv
<1> SUFFICES ASSUME Init PROVE BuffersInv
  OBVIOUS
<1>1. NetifInit
  BY DEF Init
<1>2. /\ drv = [t \in Side |-> [at |-> IF t = "task" THEN "wait" ELSE "idle", di |-> 0, frame |-> 0]]
      /\ sent = 0 /\ g_ready = "no" /\ pbufs = PBUFS /\ inbox = <<>>
  BY <1>1 DEF NetifInit, Side
<1>3. DrvOK
  BY <1>2, ZeroIs DEF DrvOK, DrvAt, TaskAt, SendAt
<1>4. g_devices \in {<<>>, ConsoleOnly} /\ Len(g_devices) <= ITT_DEVICES_MAX
  <2>0. ITT_DEVICES_MAX \in Nat /\ Len(<<>>) = 0
    BY NetifAssumption
  <2>1. CASE ITT_DEVICES_MAX = 0
    <3>1. console_register = <<>>
      BY <2>0, <2>1 DEF console_register, itt_device_add
    <3> QED BY <1>1, <2>0, <2>1, <3>1 DEF NetifInit
  <2>2. CASE ITT_DEVICES_MAX > 0
    <3>1. Append(<<>>, [name |-> "console", class |-> "console"]) = ConsoleOnly
      BY DEF ConsoleOnly
    <3>2. Len(ConsoleOnly) = 1
      BY DEF ConsoleOnly
    <3>3. g_devices = <<>> \/ g_devices = ConsoleOnly
      BY <1>1, <3>1, Zenon DEF NetifInit, console_register, itt_device_add
    <3> QED BY <2>0, <2>2, <3>2, <3>3
  <2> QED BY <2>0, <2>1, <2>2
<1>5. \A i, j \in DOMAIN g_devices : g_devices[i].name = g_devices[j].name => i = j
  BY <1>4 DEF ConsoleOnly
<1>6. PbufsExact /\ pbufs \in Int /\ inbox \in Seq(ToSet(inbox))
  BY <1>2, NetifAssumption DEF PbufsExact
<1>7. VirtioOK
  BY <1>2 DEF VirtioOK, TaskAt, SendAt, Side
<1> QED BY <1>3, <1>4, <1>5, <1>6, <1>7 DEF BuffersInv, StackOK

LEMMA NextBuffers == ~Overlap /\ BuffersInv /\ [Next]_vars => BuffersInv'
<1> SUFFICES ASSUME ~Overlap, BuffersInv, [Next]_vars PROVE BuffersInv'
  OBVIOUS
<1>1. CASE part' = part /\ UNCHANGED <<netifvars, queuevars>>
  <2>1. UNCHANGED <<stackvars, g_ready, drv, sent, vrx, vtx, tx_free_list>>
    BY <1>1 DEF netifvars, drvvars, queuevars
  <2>2. StackOK' /\ DrvOK'
    BY <2>1, StackSame DEF BuffersInv, DrvOK
  <2>3. RxHeld' = RxHeld /\ TxHeld' = TxHeld /\ TxFrom' = TxFrom /\ (Reclaims <=> Reclaims')
    BY <2>1 DEF RxHeld, TxHeld, TxFrom, Incs, Reclaims, Reclaiming
  <2>4. VirtioOK => VirtioOK'
    BY <2>1, <2>3 DEF VirtioOK, RxOK, TxOK
  <2> QED BY <1>1, <2>2, <2>4 DEF BuffersInv
<1>2. CASE part' = part /\ part = "virtio" /\ (VirtioStep \/ (Stack /\ UNCHANGED queuevars))
  BY <1>2, VirtioKeeps DEF BuffersInv, NicOK
<1>3. CASE part' = part /\ part = "gem" /\ (GemStep \/ Stack)
  BY <1>3, GemKeeps DEF BuffersInv
<1>4. CASE Next
  BY <1>1, <1>2, <1>3, <1>4 DEF Next
<1>5. CASE UNCHANGED vars
  BY <1>1, <1>5 DEF vars
<1> QED BY <1>4, <1>5

LEMMA DescJoin ==
  ASSUME NEW s \in Seq(Desc), NEW r \in Seq(Desc)
  PROVE  s \o r \in Seq(Desc) /\ Len(s \o r) = Len(s) + Len(r) /\ ToSet(s \o r) = ToSet(s) \union ToSet(r)
<1>1. PICK n \in Nat : n = Len(s) /\ DOMAIN s = 1..n
  OBVIOUS
<1>2. PICK k \in Nat : k = Len(r) /\ DOMAIN r = 1..k
  OBVIOUS
<1>3. PICK x \in Seq(Desc) : x = s \o r /\ Len(x) = n + k /\ \A i \in 1..(n + k) : x[i] = IF i <= n THEN s[i] ELSE r[i - n]
  <2>1. /\ s \o r \in Seq(Desc) /\ Len(s \o r) = Len(s) + Len(r)
        /\ \A i \in 1..(Len(s) + Len(r)) : (s \o r)[i] = IF i <= Len(s) THEN s[i] ELSE r[i - Len(s)]
    BY ConcatProperties
  <2> HIDE DEF Desc
  <2>2. PICK x : x = s \o r
    OBVIOUS
  <2> QED BY <1>1, <1>2, <2>1, <2>2
<1>4. DOMAIN x = 1..(n + k)
  BY <1>3
<1>5. ASSUME NEW i \in 1..(n + k) PROVE x[i] \in ToSet(s) \union ToSet(r)
  <2>1. CASE i <= n
    BY <1>1, <1>3, <2>1 DEF ToSet
  <2>2. CASE ~(i <= n)
    <3>1. i - n \in 1..k
      BY <2>2
    <3> QED BY <1>2, <1>3, <2>2, <3>1 DEF ToSet
  <2> QED BY <2>1, <2>2
<1>6. ASSUME NEW i \in 1..n PROVE s[i] \in ToSet(x)
  <2>1. i \in 1..(n + k) /\ i <= n
    OBVIOUS
  <2> QED BY <1>3, <1>4, <2>1 DEF ToSet
<1>7. ASSUME NEW i \in 1..k PROVE r[i] \in ToSet(x)
  <2>1. n + i \in 1..(n + k) /\ ~(n + i <= n) /\ (n + i) - n = i
    OBVIOUS
  <2>2. x[n + i] = r[i]
    BY <1>3, <2>1
  <2> QED BY <1>4, <2>1, <2>2 DEF ToSet
<1>8. ToSet(x) = ToSet(s) \union ToSet(r)
  BY <1>1, <1>2, <1>4, <1>5, <1>6, <1>7 DEF ToSet
<1> QED BY <1>1, <1>2, <1>3, <1>8

LEMMA OnceIs ==
  ASSUME NEW w, NEW a, NEW f \in Seq(Desc), NEW h \in Seq(Desc), Whole(w, a, f, h),
         NEW p \in Seq(Desc), p = WithDevice(w), NEW r \in Seq(Desc), r = From(w.used, a, w.uidx)
  PROVE  Once(p \o r \o f \o h)
<1>1. /\ p \o r \in Seq(Desc) /\ Len(p \o r) = Len(p) + Len(r) /\ ToSet(p \o r) = ToSet(p) \union ToSet(r)
  BY DescJoin
<1>2. PICK x \in Seq(Desc) : x = p \o r
  BY <1>1
<1>3. x \o f \in Seq(Desc) /\ Len(x \o f) = Len(x) + Len(f) /\ ToSet(x \o f) = ToSet(x) \union ToSet(f)
  BY DescJoin
<1>4. PICK y \in Seq(Desc) : y = x \o f
  BY <1>3
<1>5. Len(y \o h) = Len(y) + Len(h) /\ ToSet(y \o h) = ToSet(y) \union ToSet(h)
  BY DescJoin
<1>6. Len(y \o h) = QUEUE_SIZE /\ ToSet(y \o h) = Desc
  BY <1>1, <1>2, <1>3, <1>4, <1>5 DEF Whole
<1> QED BY <1>2, <1>4, <1>6 DEF Once

LEMMA ConservedIs == BuffersInv => BuffersExact
<1> SUFFICES ASSUME BuffersInv PROVE BuffersExact
  OBVIOUS
<1>1. TypeOK
  BY DEF BuffersInv, StackOK, DrvOK, TypeOK, Side
<1>2. ASSUME part = "virtio", g_ready = "yes" PROVE Once(RxPlaces) /\ Once(TxPlaces)
  <2>1. RxOK /\ TxOK /\ DrvOK
    BY <1>2 DEF BuffersInv, VirtioOK
  <2>2. Once(RxPlaces)
    <3>1. vrx \in QueueType /\ vrx.last \in Index
      BY <2>1 DEF RxOK, QueueOK, QueueType
    <3>2. PICK p \in Seq(Desc) : p = WithDevice(vrx)
      BY <3>1, Whereabouts
    <3>3. PICK r \in Seq(Desc) : r = From(vrx.used, vrx.last, vrx.uidx)
      BY <3>1, Whereabouts
    <3>4. PICK h \in Seq(Desc) : h = RxHeld
      BY <2>1, DescOne DEF RxHeld, DrvOK, Side
    <3>5. PICK f \in Seq(Desc) : f = <<>>
      BY DescOne
    <3>6. Whole(vrx, vrx.last, f, h)
      BY <2>1, <3>4, <3>5 DEF RxOK
    <3>7. Once(p \o r \o f \o h)
      BY <3>2, <3>3, <3>6, OnceIs
    <3>8. (p \o r) \o f = p \o r
      <4>1. p \o r \in Seq(Desc)
        OBVIOUS
      <4>2. PICK x \in Seq(Desc) : x = p \o r
        BY <4>1
      <4>3. x \o <<>> = x
        BY ConcatEmptySeq
      <4> QED BY <3>5, <4>2, <4>3
    <3>9. RxPlaces = p \o r \o h
      BY <3>2, <3>3, <3>4 DEF RxPlaces, Pending, RxHeld
    <3> QED BY <3>7, <3>8, <3>9
  <2>3. Once(TxPlaces)
    <3>1. vtx \in QueueType /\ vtx.last \in Index /\ TxFrom \in Index /\ vtx.uidx \in Index /\ vtx.used \in RingType
      BY <2>1, TxTypes DEF QueueType
    <3>2. PICK p \in Seq(Desc) : p = WithDevice(vtx)
      BY <3>1, Whereabouts
    <3>3. PICK r \in Seq(Desc) : r = From(vtx.used, TxFrom, vtx.uidx)
      BY <3>1, Whereabouts
    <3>4. PICK h \in Seq(Desc) : h = TxHeld
      BY <2>1, TxTypes
    <3>5. PICK f \in Seq(Desc) : f = tx_free_list
      BY <2>1 DEF TxOK
    <3>6. Whole(vtx, TxFrom, f, h)
      BY <2>1, <3>4, <3>5 DEF TxOK
    <3>7. Once(p \o r \o f \o h)
      BY <3>2, <3>3, <3>6, OnceIs
    <3>8. r = (IF Incs /\ Pending(vtx) # <<>> THEN Tail(Pending(vtx)) ELSE Pending(vtx))
      <4>1. CASE ~Incs
        BY <3>3, <4>1 DEF TxFrom, Pending
      <4>2. CASE Incs
        <5>1. vtx.last # vtx.uidx
          BY <2>1, <4>2 DEF Incs, TxOK, Reclaims, Reclaiming
        <5>2. PICK g \in RingType : g = vtx.used
          BY <3>1
        <5>3. PICK l \in Index : l = vtx.last
          BY <3>1
        <5>4. PICK u \in Index : u = vtx.uidx
          BY <3>1
        <5>5. Tail(From(g, l, u)) = From(g, Next1(l), u)
          BY <5>1, <5>3, <5>4, FromTail
        <5>6. From(g, l, u) # <<>>
          BY <5>1, <5>3, <5>4, FromIs
        <5> QED BY <3>3, <4>2, <5>2, <5>3, <5>4, <5>5, <5>6 DEF TxFrom, Pending
      <4> QED BY <4>1, <4>2
    <3>9. TxPlaces = p \o r \o f \o h
      BY <3>2, <3>4, <3>5, <3>8, Zenon DEF TxPlaces, TxHeld, Incs, Side
    <3> QED BY <3>7, <3>9
  <2> QED BY <2>2, <2>3
<1> QED BY <1>1, <1>2 DEF BuffersExact, DescriptorsConserved

(* No descriptor of virtio_net.c and no pbuf is lost or is in two places   *)
(* while the device, the driver's task and the sender go on, and the table *)
(* of devices holds a name once, for any sizes.  One reclaims at a time: a *)
(* second one may read the entry that the first is about to pass (nothing  *)
(* in vnet_reclaim_tx keeps it away).                                      *)
THEOREM NetBuffersExact == ASSUME ~Overlap PROVE Spec => []BuffersExact
<1>1. Init => BuffersInv
  BY InitBuffers
<1>2. BuffersInv /\ [Next]_vars => BuffersInv'
  BY NextBuffers
<1>3. BuffersInv => BuffersExact
  BY ConservedIs
<1> QED BY <1>1, <1>2, <1>3, PTL DEF Spec

User == Poster \union Fetcher

(* The slots that are in use hold messages, and end where head is.         *)
RingOK ==
  /\ head = (tail + used) % Size
  /\ \A i \in 0..(used - 1) : q[(tail + i) % Size] \in Msg

MboxIInv == /\ TokensExact /\ RingOK
            /\ pc \in [User -> PosterPc \union FetcherPc]

-----------------------------------------------------------------------------
(* A queue that gets one more waiter, or loses the first or another one.   *)

(* obj_make_wait: the last in the queue is the one that came.              *)
LEMMA QueueJoin ==
  ASSUME NEW S, NEW w \in Seq(S), NEW t \in S, IsInjective(w), t \notin ToSet(w)
  PROVE  /\ Append(w, t) \in Seq(S) /\ IsInjective(Append(w, t))
         /\ ToSet(Append(w, t)) = ToSet(w) \union {t}
<1> DEFINE r == Append(w, t)
<1>1. /\ r \in Seq(S) /\ Len(r) = Len(w) + 1
      /\ DOMAIN r = 1..(Len(w) + 1) /\ DOMAIN w = 1..Len(w)
      /\ \A i \in 1..Len(w) : r[i] = w[i]
      /\ r[Len(w) + 1] = t
  OBVIOUS
<1> HIDE DEF r
<1>2. IsInjective(r)
  BY <1>1 DEF IsInjective, ToSet
<1>3. ToSet(r) = ToSet(w) \union {t}
  BY <1>1 DEF ToSet
<1> QED BY <1>1, <1>2, <1>3 DEF r

(* A place i in the queue is closed.                                       *)
Closed(w, i, r) ==
  Len(r) = Len(w) - 1 /\ \A j \in 1..Len(r) : r[j] = IF j < i THEN w[j] ELSE w[j + 1]

LEMMA QueueLeave ==
  ASSUME NEW S, NEW w \in Seq(S), NEW i \in DOMAIN w, IsInjective(w),
         NEW r \in Seq(S), Closed(w, i, r)
  PROVE  IsInjective(r) /\ ToSet(r) = ToSet(w) \ {w[i]}
<1> DEFINE f(j) == IF j < i THEN j ELSE j + 1
<1>1. /\ DOMAIN w = 1..Len(w) /\ DOMAIN r = 1..Len(r) /\ i \in 1..Len(w)
      /\ Len(w) \in Nat /\ Len(r) \in Nat /\ Len(r) = Len(w) - 1
      /\ \A j \in 1..Len(r) : r[j] = IF j < i THEN w[j] ELSE w[j + 1]
  BY DEF Closed
<1>2. \A j \in 1..Len(r) : f(j) \in 1..Len(w) /\ f(j) # i /\ r[j] = w[f(j)]
  BY <1>1
<1>3. \A j \in 1..Len(w) : j # i => \E k \in 1..Len(r) : f(k) = j
  <2> SUFFICES ASSUME NEW j \in 1..Len(w), j # i PROVE \E k \in 1..Len(r) : f(k) = j
    OBVIOUS
  <2>1. CASE j < i
    <3>1. j \in 1..Len(r) /\ f(j) = j
      BY <2>1, <1>1
    <3> QED BY <3>1
  <2>2. CASE j > i
    <3>1. j - 1 \in 1..Len(r) /\ f(j - 1) = j
      BY <2>2, <1>1
    <3> QED BY <3>1
  <2> QED BY <2>1, <2>2, <1>1
<1>4. \A j, k \in 1..Len(r) : f(j) = f(k) => j = k
  BY <1>1
<1> HIDE DEF f
<1>5. IsInjective(r)
  BY <1>1, <1>2, <1>4 DEF IsInjective
<1>6. \A j \in 1..Len(r) : r[j] \in ToSet(w) /\ r[j] # w[i]
  BY <1>1, <1>2 DEF IsInjective, ToSet
<1>7. \A j \in 1..Len(w) : w[j] # w[i] => w[j] \in ToSet(r)
  BY <1>1, <1>2, <1>3 DEF ToSet
<1> QED BY <1>1, <1>5, <1>6, <1>7 DEF ToSet

(* sig_sem: the first leaves.                                              *)
LEMMA QueueTail ==
  ASSUME NEW S, NEW w \in Seq(S), w # <<>>, IsInjective(w)
  PROVE  /\ Tail(w) \in Seq(S) /\ IsInjective(Tail(w))
         /\ ToSet(Tail(w)) = ToSet(w) \ {Head(w)}
         /\ Head(w) \in ToSet(w)
<1> DEFINE r == Tail(w)
<1>1. /\ r \in Seq(S) /\ Len(r) = Len(w) - 1
      /\ \A j \in 1..Len(r) : r[j] = w[j + 1]
      /\ 1 \in DOMAIN w /\ Head(w) = w[1]
  BY HeadTailProperties
<1> HIDE DEF r
<1>2. Closed(w, 1, r)
  BY <1>1 DEF Closed
<1>3. IsInjective(r) /\ ToSet(r) = ToSet(w) \ {w[1]}
  BY <1>1, <1>2, QueueLeave
<1> QED BY <1>1, <1>3 DEF ToSet, r

(* A timeout: any one leaves.                                              *)
LEMMA QueueRemoveAt ==
  ASSUME NEW S, NEW w \in Seq(S), NEW i \in DOMAIN w, IsInjective(w)
  PROVE  /\ RemoveAt(w, i) \in Seq(S) /\ IsInjective(RemoveAt(w, i))
         /\ ToSet(RemoveAt(w, i)) = ToSet(w) \ {w[i]}
<1> DEFINE u == SubSeq(w, 1, i - 1)
           v == SubSeq(w, i + 1, Len(w))
           r == RemoveAt(w, i)
<1>1. i \in 1..Len(w) /\ Len(w) \in Nat
  OBVIOUS
<1>2. u \in Seq(S) /\ Len(u) = i - 1 /\ \A j \in 1..(i - 1) : u[j] = w[j]
  BY <1>1, SubSeqProperties
<1>3. /\ v \in Seq(S) /\ Len(v) = Len(w) - i
      /\ \A j \in 1..(Len(w) - i) : v[j] = w[i + j]
  BY <1>1, SubSeqProperties
<1>4. r = u \o v
  BY DEF RemoveAt
<1> HIDE DEF u, v, r
<1>5. /\ r \in Seq(S) /\ Len(r) = Len(w) - 1
      /\ \A j \in 1..Len(r) : r[j] = IF j <= Len(u) THEN u[j] ELSE v[j - Len(u)]
  BY <1>1, <1>2, <1>3, <1>4, ConcatProperties
<1>6. ASSUME NEW j \in 1..Len(r) PROVE r[j] = IF j < i THEN w[j] ELSE w[j + 1]
  <2>1. CASE j < i
    BY <2>1, <1>1, <1>2, <1>5
  <2>2. CASE ~(j < i)
    <3>1. j - (i - 1) \in 1..(Len(w) - i) /\ i + (j - (i - 1)) = j + 1
      BY <2>2, <1>1, <1>5
    <3>2. r[j] = v[j - (i - 1)]
      BY <2>2, <1>1, <1>2, <1>5
    <3> QED BY <3>1, <3>2, <2>2, <1>3
  <2> QED BY <2>1, <2>2
<1>7. IsInjective(r) /\ ToSet(r) = ToSet(w) \ {w[i]}
  <2>1. Closed(w, i, r)
    BY <1>5, <1>6 DEF Closed
  <2> QED BY <1>5, <2>1, QueueLeave
<1> QED BY <1>5, <1>7 DEF r

-----------------------------------------------------------------------------
(* Counting the users that are somewhere.                                  *)

(* One more is there.                                                      *)
LEMMA CountUp ==
  ASSUME NEW T, IsFiniteSet(T), NEW f, NEW g, NEW l, NEW t \in T,
         f[t] \notin l, g[t] \in l, \A u \in T \ {t} : f[u] \in l <=> g[u] \in l
  PROVE  Cardinality({u \in T : g[u] \in l}) = Cardinality({u \in T : f[u] \in l}) + 1
<1> DEFINE A == {u \in T : f[u] \in l}
           B == {u \in T : g[u] \in l}
<1>1. IsFiniteSet(A)
  BY FS_Subset
<1>2. t \notin A /\ B = A \union {t}
  OBVIOUS
<1> QED BY <1>1, <1>2, FS_AddElement

(* As many are there.                                                      *)
LEMMA CountSame ==
  ASSUME NEW T, NEW f, NEW g, NEW l, \A u \in T : f[u] \in l <=> g[u] \in l
  PROVE  Cardinality({u \in T : g[u] \in l}) = Cardinality({u \in T : f[u] \in l})
<1>1. {u \in T : g[u] \in l} = {u \in T : f[u] \in l}
  OBVIOUS
<1> QED BY <1>1

LEMMA CountNat ==
  ASSUME NEW T, IsFiniteSet(T), NEW f, NEW l
  PROVE  /\ Cardinality({u \in T : f[u] \in l}) \in Nat
         /\ (\E t \in T : f[t] \in l) => Cardinality({u \in T : f[u] \in l}) >= 1
<1> DEFINE A == {u \in T : f[u] \in l}
<1>1. IsFiniteSet(A) /\ Cardinality(A) \in Nat
  BY FS_Subset, FS_CardinalityType
<1>2. A # {} => Cardinality(A) # 0
  BY <1>1, FS_EmptySet
<1> QED BY <1>1, <1>2

-----------------------------------------------------------------------------
(* The ring's arithmetic                                                   *)

LEMMA Wrap ==
  ASSUME NEW n \in Nat \ {0}, NEW a \in 0..(n - 1), NEW b \in 0..n
  PROVE  /\ (a + b) % n = IF a + b < n THEN a + b ELSE a + b - n
         /\ (a + b) % n \in 0..(n - 1)
<1> DEFINE c == a + b
           d == c \div n
<1>1. /\ c \in 0..(2 * n - 1) /\ d \in Nat
      /\ (c % n) \in 0..(n - 1) /\ c = d * n + (c % n)
  OBVIOUS
<1> HIDE DEF c, d
<1>2. d = 0 \/ d = 1
  <2>1. ASSUME d >= 2 PROVE FALSE
    <3>1. d * n >= 2 * n
      BY <2>1, <1>1
    <3> QED BY <3>1, <1>1
  <2> QED BY <2>1, <1>1
<1>3. c % n = IF c < n THEN c ELSE c - n
  BY <1>1, <1>2
<1> QED BY <1>1, <1>3 DEF c

(* Two places of the ring that are less than a round apart differ.         *)
LEMMA PcApart ==
  ASSUME NEW n \in Nat \ {0}, NEW a \in 0..(n - 1), NEW i \in 0..n, NEW j \in 0..n,
         i < j, j - i < n
  PROVE  (a + i) % n # (a + j) % n
<1>1. (a + i) % n = IF a + i < n THEN a + i ELSE a + i - n
  BY Wrap, Zenon
<1>2. (a + j) % n = IF a + j < n THEN a + j ELSE a + j - n
  BY Wrap, Zenon
<1> QED BY <1>1, <1>2

(* A step on round the ring is a step less to go.                          *)
LEMMA StepOn ==
  ASSUME NEW n \in Nat \ {0}, NEW a \in 0..(n - 1), NEW i \in 0..(n - 1)
  PROVE  LET b == IF a + 1 >= n THEN 0 ELSE a + 1
         IN  b \in 0..(n - 1) /\ (b + i) % n = (a + (i + 1)) % n
<1> DEFINE b == IF a + 1 >= n THEN 0 ELSE a + 1
<1>1. b \in 0..(n - 1) /\ i \in 0..n /\ i + 1 \in 0..n
  OBVIOUS
<1>2. (a + (i + 1)) % n = IF a + (i + 1) < n THEN a + (i + 1) ELSE a + (i + 1) - n
  BY <1>1, Wrap, Zenon
<1>3. b = IF a + 1 >= n THEN 0 ELSE a + 1
  OBVIOUS
<1> HIDE DEF b
<1>4. (b + i) % n = IF b + i < n THEN b + i ELSE b + i - n
  BY <1>1, Wrap, Zenon
<1>5. (b + i) % n = (a + (i + 1)) % n
  BY <1>1, <1>2, <1>3, <1>4
<1> QED BY <1>1, <1>5 DEF b

-----------------------------------------------------------------------------
(* The parts of a step                                                     *)

Holding == {"dequeue", "try_dequeue"}
Announcing == {"sig_empty"}

LEMMA Typed ==
  ASSUME MboxIInv
  PROVE  /\ Size \in Nat \ {0} /\ TMAX_MAXSEM \in Nat /\ Size <= TMAX_MAXSEM
         /\ head \in 0..(Size - 1) /\ tail \in 0..(Size - 1) /\ used \in 0..Size
         /\ sem_empty.cnt \in 0..TMAX_MAXSEM /\ sem_full.cnt \in 0..TMAX_MAXSEM
         /\ Count(Fetcher, Holding) \in Nat /\ Count(Poster, Announcing) \in Nat
<1>1. /\ sem_empty \in Sem /\ sem_full \in Sem
      /\ head \in Cell /\ tail \in Cell /\ used \in 0..Size
  BY DEF MboxIInv, TokensExact, MboxTypeOK
<1>2. Count(Fetcher, Holding) \in Nat /\ Count(Poster, Announcing) \in Nat
  BY MboxAssumption, CountNat DEF Count
<1> QED BY <1>1, <1>2, MboxAssumption DEF Cell, Sem

(* wai_sem and sig_sem keep a semaphore one.                               *)
LEMMA TokenTaken ==
  ASSUME NEW s \in Sem, s.cnt > 0
  PROVE  taken(s) \in Sem /\ taken(s).cnt = s.cnt - 1 /\ taken(s).waitq = s.waitq
BY MboxAssumption DEF Sem, taken

LEMMA SemWaits ==
  ASSUME NEW s \in Sem, NEW t \in User
  PROVE  /\ waits(s, t) \in Sem /\ waits(s, t).cnt = s.cnt
         /\ waits(s, t).waitq = Append(s.waitq, t)
BY DEF Sem, waits, User

LEMMA SemSignalled ==
  ASSUME NEW s \in Sem
  PROVE  /\ signalled(s) \in Sem
         /\ s.waitq # <<>> => signalled(s).cnt = s.cnt /\ signalled(s).waitq = Tail(s.waitq)
         /\ s.waitq = <<>> =>
              /\ signalled(s).waitq = <<>>
              /\ signalled(s).cnt = IF s.cnt < TMAX_MAXSEM THEN s.cnt + 1 ELSE s.cnt
<1>1. CASE s.waitq # <<>>
  <2>1. Tail(s.waitq) \in Seq(Poster \union Fetcher)
    BY <1>1, HeadTailProperties DEF Sem
  <2> QED BY <1>1, <2>1 DEF Sem, signalled
<1>2. CASE s.waitq = <<>>
  BY <1>2, MboxAssumption DEF Sem, signalled
<1> QED BY <1>1, <1>2

(* A task that is not asleep moves on to where it does not sleep, and the  *)
(* queues stay.                                                            *)
LEMMA MovesOn ==
  ASSUME MboxIInv, NEW t \in User, NEW l, l # "asleep", pc[t] # "asleep",
         t \in Poster => l \in PosterPc, t \in Fetcher => l \in FetcherPc,
         Enters(t, l),
         sem_empty'.waitq = sem_empty.waitq, sem_full'.waitq = sem_full.waitq
  PROVE  /\ SleepersQueued'
         /\ pc' \in [User -> PosterPc \union FetcherPc]
         /\ \A u \in Poster : pc'[u] \in PosterPc
         /\ \A u \in Fetcher : pc'[u] \in FetcherPc
<1>1. /\ pc'[t] = l /\ \A u \in User \ {t} : pc'[u] = pc[u]
      /\ pc' \in [User -> PosterPc \union FetcherPc]
  BY DEF MboxIInv, Enters, User
<1>2. \A u \in User : pc'[u] = "asleep" <=> pc[u] = "asleep"
  BY <1>1
<1>3. SleepersQueued'
  BY <1>2 DEF MboxIInv, TokensExact, SleepersQueued, At, User
<1> QED BY <1>1, <1>3 DEF MboxIInv, TokensExact, MboxTypeOK, User

(* How many hold a token, and how many have a message to announce, changes *)
(* with t alone.                                                           *)
LEMMA MovesCount ==
  ASSUME MboxIInv, NEW t \in User, NEW l, Enters(t, l)
  PROVE  /\ t \in Poster => Count(Fetcher, Holding)' = Count(Fetcher, Holding)
         /\ t \in Fetcher => Count(Poster, Announcing)' = Count(Poster, Announcing)
         /\ pc[t] \in Holding <=> l \in Holding =>
              Count(Fetcher, Holding)' = Count(Fetcher, Holding)
         /\ pc[t] \in Announcing <=> l \in Announcing =>
              Count(Poster, Announcing)' = Count(Poster, Announcing)
         /\ t \in Fetcher /\ pc[t] \notin Holding /\ l \in Holding =>
              Count(Fetcher, Holding)' = Count(Fetcher, Holding) + 1
         /\ t \in Fetcher /\ pc[t] \in Holding /\ l \notin Holding =>
              Count(Fetcher, Holding) = Count(Fetcher, Holding)' + 1
         /\ t \in Poster /\ pc[t] \notin Announcing /\ l \in Announcing =>
              Count(Poster, Announcing)' = Count(Poster, Announcing) + 1
         /\ t \in Poster /\ pc[t] \in Announcing /\ l \notin Announcing =>
              Count(Poster, Announcing) = Count(Poster, Announcing)' + 1
<1>1. pc'[t] = l /\ \A u \in User \ {t} : pc'[u] = pc[u]
  BY DEF MboxIInv, Enters, User
<1>2. /\ IsFiniteSet(Poster) /\ IsFiniteSet(Fetcher)
      /\ Poster \intersect Fetcher = {} /\ Poster \subseteq User /\ Fetcher \subseteq User
  BY MboxAssumption DEF User
<1>3. ASSUME NEW T \in {Poster, Fetcher}, NEW k
      PROVE  /\ t \notin T \/ (pc[t] \in k <=> l \in k) => Count(T, k)' = Count(T, k)
             /\ t \in T /\ pc[t] \notin k /\ l \in k => Count(T, k)' = Count(T, k) + 1
             /\ t \in T /\ pc[t] \in k /\ l \notin k => Count(T, k) = Count(T, k)' + 1
  <2>0. IsFiniteSet(T) /\ \A u \in T \ {t} : pc'[u] = pc[u]
    BY <1>1, <1>2
  <2>1. ASSUME t \notin T \/ (pc[t] \in k <=> l \in k) PROVE Count(T, k)' = Count(T, k)
    <3>1. \A u \in T : pc[u] \in k <=> pc'[u] \in k
      BY <1>1, <2>0, <2>1
    <3> QED BY <3>1, CountSame DEF Count
  <2>2. ASSUME t \in T, pc[t] \notin k, l \in k PROVE Count(T, k)' = Count(T, k) + 1
    BY <1>1, <2>0, <2>2, CountUp DEF Count
  <2>3. ASSUME t \in T, pc[t] \in k, l \notin k PROVE Count(T, k) = Count(T, k)' + 1
    <3>1. /\ IsFiniteSet(T) /\ t \in T /\ pc'[t] \notin k /\ pc[t] \in k
          /\ \A u \in T \ {t} : pc'[u] \in k <=> pc[u] \in k
      BY <1>1, <2>0, <2>3
    <3> QED BY ONLY <3>1, CountUp DEF Count
  <2> QED BY <2>1, <2>2, <2>3
<1> QED BY <1>2, <1>3

-----------------------------------------------------------------------------
(* The steps of a poster                                                   *)

LEMMA RingStays == ASSUME MboxIInv, UNCHANGED ring PROVE RingOK'
BY DEF MboxIInv, RingOK, ring

LEMMA PostStep ==
  ASSUME MboxIInv, NEW t \in Poster, NEW m \in Msg, post(t, m)
  PROVE  MboxIInv'
<1>1. /\ pc[t] = "idle" /\ Enters(t, "enqueue") /\ t \in User
      /\ UNCHANGED <<q, head, tail, used, sem_empty, sem_full>>
      /\ msg' = [msg EXCEPT ![t] = m]
  BY DEF post, At, User, ring
<1>2. /\ SleepersQueued'
      /\ pc' \in [User -> PosterPc \union FetcherPc]
      /\ \A u \in Poster : pc'[u] \in PosterPc
      /\ \A u \in Fetcher : pc'[u] \in FetcherPc
  BY <1>1, MovesOn, MboxAssumption DEF PosterPc
<1>3. MboxTypeOK'
  BY <1>1, <1>2 DEF MboxIInv, TokensExact, MboxTypeOK, User
<1>4. TokenPerMessage'
  <2>1. /\ Count(Fetcher, Holding)' = Count(Fetcher, Holding)
        /\ Count(Poster, Announcing)' = Count(Poster, Announcing)
    BY <1>1, MovesCount DEF Holding, Announcing
  <2> QED BY <1>1, <2>1
      DEF MboxIInv, TokensExact, TokenPerMessage, Holding, Announcing
<1>5. RingOK'
  BY <1>1, RingStays DEF ring
<1> QED BY <1>2, <1>3, <1>4, <1>5 DEF MboxIInv, TokensExact

(* The message goes into the slot at head, and nothing else is overwritten.*)
LEMMA EnqueueRing ==
  ASSUME MboxIInv, NEW m \in Msg, used < Size,
         q' = [q EXCEPT ![head] = m],
         head' = IF head + 1 >= Size THEN 0 ELSE head + 1,
         used' = used + 1, UNCHANGED tail
  PROVE  /\ RingOK'
         /\ q' \in [Cell -> Msg \union {NULL}] /\ head' \in Cell
         /\ \A i \in 0..(used - 1) : q'[(tail + i) % Size] = q[(tail + i) % Size]
         /\ q'[(tail + used) % Size] = m
<1>1. /\ Size \in Nat \ {0} /\ head \in 0..(Size - 1) /\ tail \in 0..(Size - 1)
      /\ used \in 0..Size /\ used \in 0..(Size - 1)
  BY Typed
<1>2. /\ head = (tail + used) % Size
      /\ \A i \in 0..(used - 1) : q[(tail + i) % Size] \in Msg
      /\ q \in [Cell -> Msg \union {NULL}]
  BY DEF MboxIInv, RingOK, TokensExact, MboxTypeOK
<1>3. head' \in 0..(Size - 1) /\ head' = (tail + (used + 1)) % Size
  <2>0. used \in 0..Size /\ used + 1 \in 0..Size
    BY <1>1
  <2>1. (tail + used) % Size = IF tail + used < Size THEN tail + used ELSE tail + used - Size
    BY <1>1, <2>0, Wrap
  <2>2. (tail + (used + 1)) % Size =
          IF tail + (used + 1) < Size THEN tail + (used + 1) ELSE tail + (used + 1) - Size
    BY <1>1, <2>0, Wrap
  <2> QED BY <1>1, <1>2, <2>1, <2>2
<1>4. ASSUME NEW i \in 0..(used - 1)
      PROVE  (tail + i) % Size # head /\ (tail + i) % Size \in 0..(Size - 1)
  <2>1. i \in 0..Size /\ i < used /\ used - i < Size
    BY <1>1
  <2>2. (tail + i) % Size # (tail + used) % Size
    BY <1>1, <2>1, PcApart
  <2>3. (tail + i) % Size \in 0..(Size - 1)
    BY <1>1, <2>1, Wrap
  <2> QED BY <1>2, <2>2, <2>3
<1>5. /\ q'[head] = m
      /\ \A i \in 0..(used - 1) : q'[(tail + i) % Size] = q[(tail + i) % Size]
      /\ q' \in [Cell -> Msg \union {NULL}]
  BY <1>1, <1>2, <1>4 DEF Cell
<1>6. \A i \in 0..(used' - 1) : q'[(tail' + i) % Size] \in Msg
  <2>0. 0..(used' - 1) = 0..used /\ tail' = tail
    BY <1>1
  <2> SUFFICES ASSUME NEW i \in 0..used PROVE q'[(tail + i) % Size] \in Msg
    BY <2>0
  <2>1. CASE i = used
    BY <2>1, <1>2, <1>5
  <2>2. CASE i # used
    <3>1. i \in 0..(used - 1)
      BY <2>2, <1>1
    <3> QED BY <3>1, <1>2, <1>5
  <2> QED BY <2>1, <2>2
<1>7. RingOK'
  BY <1>3, <1>6 DEF RingOK
<1> QED BY <1>2, <1>3, <1>5, <1>7 DEF Cell

LEMMA EnqueueStep ==
  ASSUME MboxIInv, NEW t \in Poster, mbox_try_enqueue(t)
  PROVE  MboxIInv'
<1>0. t \in User /\ pc[t] = "enqueue" /\ UNCHANGED <<sem_empty, sem_full, msg>>
  BY DEF mbox_try_enqueue, At, User
<1>1. CASE /\ used < Size
           /\ q' = [q EXCEPT ![head] = msg[t]]
           /\ head' = IF head + 1 >= Size THEN 0 ELSE head + 1
           /\ used' = used + 1
           /\ Enters(t, "sig_empty")
           /\ UNCHANGED tail
  <2>1. /\ SleepersQueued'
        /\ pc' \in [User -> PosterPc \union FetcherPc]
        /\ \A u \in Poster : pc'[u] \in PosterPc
        /\ \A u \in Fetcher : pc'[u] \in FetcherPc
    BY <1>0, <1>1, MovesOn, MboxAssumption DEF PosterPc
  <2>2. msg[t] \in Msg
    BY <1>0 DEF MboxIInv, TokensExact, MboxTypeOK, User
  <2>3. RingOK' /\ q' \in [Cell -> Msg \union {NULL}] /\ head' \in Cell
    BY <1>1, <2>2, EnqueueRing
  <2>4. used' \in 0..Size
    BY <1>1, Typed
  <2>5. MboxTypeOK'
    BY <1>0, <1>1, <2>1, <2>3, <2>4 DEF MboxIInv, TokensExact, MboxTypeOK
  <2>6. /\ Count(Fetcher, Holding)' = Count(Fetcher, Holding)
        /\ Count(Poster, Announcing)' = Count(Poster, Announcing) + 1
    BY <1>0, <1>1, MovesCount DEF Holding, Announcing
  <2>7. TokenPerMessage'
    BY <1>0, <1>1, <2>6, Typed
      DEF MboxIInv, TokensExact, TokenPerMessage, Holding, Announcing
  <2> QED BY <2>1, <2>3, <2>5, <2>7 DEF MboxIInv, TokensExact
<1>2. CASE /\ Enters(t, IF t \in Blocking THEN "wai_full" ELSE "idle")
           /\ UNCHANGED ring
  <2> DEFINE l == IF t \in Blocking THEN "wai_full" ELSE "idle"
  <2>0. l \in {"wai_full", "idle"} /\ Enters(t, l)
    BY <1>2
  <2> HIDE DEF l
  <2>1. /\ SleepersQueued'
        /\ pc' \in [User -> PosterPc \union FetcherPc]
        /\ \A u \in Poster : pc'[u] \in PosterPc
        /\ \A u \in Fetcher : pc'[u] \in FetcherPc
    BY <1>0, <2>0, MovesOn, MboxAssumption DEF PosterPc
  <2>2. MboxTypeOK'
    BY <1>0, <1>2, <2>1 DEF MboxIInv, TokensExact, MboxTypeOK, ring
  <2>3. /\ Count(Fetcher, Holding)' = Count(Fetcher, Holding)
        /\ Count(Poster, Announcing)' = Count(Poster, Announcing)
    BY <1>0, <2>0, MovesCount DEF Holding, Announcing
  <2>4. TokenPerMessage'
    BY <1>0, <1>2, <2>3
      DEF MboxIInv, TokensExact, ring, TokenPerMessage, Holding, Announcing
  <2> QED BY <1>2, <2>1, <2>2, <2>4, RingStays DEF MboxIInv, TokensExact
<1> QED BY <1>1, <1>2 DEF mbox_try_enqueue

(* sig_sem: t goes on, and so does the first task that waits.              *)
LEMMA Wakes ==
  ASSUME MboxIInv, NEW s, NEW T, <<s, T>> \in {<<sem_empty, Fetcher>>, <<sem_full, Poster>>},
         NEW t \in User, t \notin T, NEW l, l # "asleep", pc[t] # "asleep",
         l \in PosterPc \union FetcherPc,
         pc' = woken(s, l, t), s.waitq # <<>>
  PROVE  /\ Head(s.waitq) \in T /\ pc[Head(s.waitq)] = "asleep"
         /\ pc'[t] = "idle" /\ pc'[Head(s.waitq)] = l
         /\ \A u \in User \ {t, Head(s.waitq)} : pc'[u] = pc[u]
         /\ pc' \in [User -> PosterPc \union FetcherPc]
         /\ Tail(s.waitq) \in Seq(T) /\ IsInjective(Tail(s.waitq))
         /\ \A u \in T : pc'[u] = "asleep" <=> u \in ToSet(Tail(s.waitq))
<1> DEFINE h == Head(s.waitq)
<1>1. /\ T \subseteq User /\ s.waitq \in Seq(T) /\ IsInjective(s.waitq)
      /\ \A u \in T : pc[u] = "asleep" <=> u \in ToSet(s.waitq)
      /\ pc \in [User -> PosterPc \union FetcherPc]
  BY DEF MboxIInv, TokensExact, SleepersQueued, At, User
<1>2. /\ h \in ToSet(s.waitq) /\ h \in T
      /\ Tail(s.waitq) \in Seq(T) /\ IsInjective(Tail(s.waitq))
      /\ ToSet(Tail(s.waitq)) = ToSet(s.waitq) \ {h}
  <2>1. h \in T
    BY <1>1, HeadTailProperties
  <2> QED BY <1>1, <2>1, QueueTail
<1>3. pc' = [[pc EXCEPT ![t] = "idle"] EXCEPT ![h] = l]
  BY DEF woken
<1>4. h # t /\ h \in User
  BY <1>1, <1>2
<1> HIDE DEF h
<1>5. /\ pc'[t] = "idle" /\ pc'[h] = l
      /\ \A u \in User \ {t, h} : pc'[u] = pc[u]
      /\ pc' \in [User -> PosterPc \union FetcherPc]
  BY <1>1, <1>3, <1>4 DEF PosterPc
<1>6. \A u \in T : pc'[u] = "asleep" <=> u \in ToSet(Tail(s.waitq))
  BY <1>1, <1>2, <1>5
<1> QED BY <1>1, <1>2, <1>5, <1>6 DEF h

(* With nobody to wake the token goes into the count, which has room: the  *)
(* message of this poster has no token there yet.                          *)
LEMMA SigEmptyStep ==
  ASSUME MboxIInv, NEW t \in Poster, post_sig_empty(t)
  PROVE  MboxIInv'
<1>0. /\ t \in User /\ t \notin Fetcher /\ pc[t] = "sig_empty"
      /\ UNCHANGED <<q, head, tail, used, sem_full, msg>>
      /\ sem_empty' = signalled(sem_empty) /\ pc' = woken(sem_empty, "dequeue", t)
      /\ sem_empty \in Sem /\ sem_empty.cnt \in Nat
  BY MboxAssumption
     DEF post_sig_empty, At, User, ring, MboxIInv, TokensExact, MboxTypeOK, Sem
<1>1. RingOK'
  BY <1>0, RingStays DEF ring
<1>2. sem_empty' \in Sem
  BY <1>0, SemSignalled
<1>3. CASE sem_empty.waitq # <<>>
  <2> DEFINE h == Head(sem_empty.waitq)
  <2>1. /\ h \in Fetcher /\ pc[h] = "asleep"
        /\ pc'[t] = "idle" /\ pc'[h] = "dequeue"
        /\ \A u \in User \ {t, h} : pc'[u] = pc[u]
        /\ pc' \in [User -> PosterPc \union FetcherPc]
        /\ Tail(sem_empty.waitq) \in Seq(Fetcher) /\ IsInjective(Tail(sem_empty.waitq))
        /\ \A u \in Fetcher : pc'[u] = "asleep" <=> u \in ToSet(Tail(sem_empty.waitq))
    BY <1>0, <1>3, Wakes DEF FetcherPc
  <2> HIDE DEF h
  <2>2. /\ sem_empty'.waitq = Tail(sem_empty.waitq) /\ sem_empty'.cnt = sem_empty.cnt
    BY <1>0, <1>3, SemSignalled
  <2>3. \A u \in Poster \ {t} : pc'[u] = pc[u]
    BY <2>1, MboxAssumption DEF User
  <2>4. \A u \in Fetcher \ {h} : pc'[u] = pc[u]
    BY <1>0, <2>1 DEF User
  <2>5. SleepersQueued'
    BY <1>0, <2>1, <2>2, <2>3 DEF MboxIInv, TokensExact, SleepersQueued, At
  <2>6. MboxTypeOK'
    BY <1>0, <1>2, <2>1, <2>3, <2>4 DEF MboxIInv, TokensExact, MboxTypeOK, PosterPc, FetcherPc
  <2>7. Count(Poster, Announcing) = Count(Poster, Announcing)' + 1
    <3>1. pc'[t] \notin Announcing /\ pc[t] \in Announcing
      BY <1>0, <2>1 DEF Announcing
    <3>2. IsFiniteSet(Poster) /\ \A u \in Poster \ {t} : pc'[u] \in Announcing <=> pc[u] \in Announcing
      BY <2>3, MboxAssumption
    <3> QED BY <3>1, <3>2, CountUp DEF Count
  <2>8. Count(Fetcher, Holding)' = Count(Fetcher, Holding) + 1
    <3>1. h \in Fetcher /\ pc[h] \notin Holding /\ pc'[h] \in Holding
      BY <2>1 DEF Holding
    <3>2. IsFiniteSet(Fetcher) /\ \A u \in Fetcher \ {h} : pc[u] \in Holding <=> pc'[u] \in Holding
      BY <2>4, MboxAssumption
    <3> QED BY <3>1, <3>2, CountUp DEF Count
  <2>9. TokenPerMessage'
    <3>1. Count(Poster, Announcing)' \in Nat
      BY CountNat, MboxAssumption DEF Count
    <3> QED BY <1>0, <2>2, <2>7, <2>8, <3>1, Typed
       DEF MboxIInv, TokensExact, TokenPerMessage, Holding, Announcing
  <2> QED BY <1>1, <2>1, <2>5, <2>6, <2>9 DEF MboxIInv, TokensExact
<1>4. CASE sem_empty.waitq = <<>>
  <2>1. Enters(t, "idle")
    BY <1>0, <1>4 DEF woken, Enters
  <2>2. /\ Count(Fetcher, Holding)' = Count(Fetcher, Holding)
        /\ Count(Poster, Announcing) = Count(Poster, Announcing)' + 1
    BY <1>0, <2>1, MovesCount DEF Holding, Announcing
  <2>3. Count(Poster, Announcing)' \in Nat
    BY CountNat, MboxAssumption DEF Count
  <2>4. sem_empty.cnt < TMAX_MAXSEM
    BY <1>0, <2>2, <2>3, Typed DEF MboxIInv, TokensExact, TokenPerMessage, Holding, Announcing
  <2>5. sem_empty'.waitq = sem_empty.waitq /\ sem_empty'.cnt = sem_empty.cnt + 1
    BY <1>0, <1>4, <2>4, SemSignalled
  <2>6. /\ SleepersQueued'
        /\ pc' \in [User -> PosterPc \union FetcherPc]
        /\ \A u \in Poster : pc'[u] \in PosterPc
        /\ \A u \in Fetcher : pc'[u] \in FetcherPc
    BY <1>0, <2>1, <2>5, MovesOn DEF PosterPc
  <2>7. MboxTypeOK'
    BY <1>0, <1>2, <2>6 DEF MboxIInv, TokensExact, MboxTypeOK
  <2>8. TokenPerMessage'
    BY <1>0, <2>2, <2>3, <2>5, Typed
       DEF MboxIInv, TokensExact, TokenPerMessage, Holding, Announcing
  <2> QED BY <1>1, <2>6, <2>7, <2>8 DEF MboxIInv, TokensExact
<1> QED BY <1>3, <1>4

(* wai_sem without a token: t is the last to wait.                         *)
LEMMA FallsAsleep ==
  ASSUME MboxIInv, NEW s, NEW T, <<s, T>> \in {<<sem_empty, Fetcher>>, <<sem_full, Poster>>},
         NEW t \in T, pc[t] # "asleep", Enters(t, "asleep")
  PROVE  /\ Append(s.waitq, t) \in Seq(T) /\ IsInjective(Append(s.waitq, t))
         /\ \A u \in T : pc'[u] = "asleep" <=> u \in ToSet(Append(s.waitq, t))
         /\ \A u \in User \ T : pc'[u] = pc[u]
         /\ pc' \in [User -> PosterPc \union FetcherPc]
         /\ \A u \in Poster : pc'[u] \in PosterPc
         /\ \A u \in Fetcher : pc'[u] \in FetcherPc
<1>1. /\ T \subseteq User /\ s.waitq \in Seq(T) /\ IsInjective(s.waitq)
      /\ \A u \in T : pc[u] = "asleep" <=> u \in ToSet(s.waitq)
      /\ pc \in [User -> PosterPc \union FetcherPc]
      /\ \A u \in Poster : pc[u] \in PosterPc
      /\ \A u \in Fetcher : pc[u] \in FetcherPc
  BY DEF MboxIInv, TokensExact, MboxTypeOK, SleepersQueued, At, User
<1>2. /\ Append(s.waitq, t) \in Seq(T) /\ IsInjective(Append(s.waitq, t))
      /\ ToSet(Append(s.waitq, t)) = ToSet(s.waitq) \union {t}
  BY <1>1, QueueJoin
<1>3. pc'[t] = "asleep" /\ \A u \in User \ {t} : pc'[u] = pc[u]
  BY <1>1 DEF Enters
<1>4. pc' \in [User -> PosterPc \union FetcherPc]
  BY <1>1 DEF Enters, PosterPc
<1>5. \A u \in T : pc'[u] = "asleep" <=> u \in ToSet(Append(s.waitq, t))
  BY <1>1, <1>2, <1>3
<1> QED BY <1>1, <1>2, <1>3, <1>4, <1>5 DEF PosterPc, FetcherPc, User

LEMMA WaiFullStep ==
  ASSUME MboxIInv, NEW t \in Poster, post_wai_full(t)
  PROVE  MboxIInv'
<1>0. /\ t \in User /\ pc[t] = "wai_full" /\ t \notin Fetcher
      /\ UNCHANGED <<q, head, tail, used, sem_empty, msg>>
      /\ sem_full \in Sem
  BY MboxAssumption DEF post_wai_full, At, User, ring, MboxIInv, TokensExact, MboxTypeOK
<1>1. RingOK'
  BY <1>0, RingStays DEF ring
<1>2. CASE sem_full.cnt > 0 /\ sem_full' = taken(sem_full) /\ Enters(t, "enqueue")
  <2>1. sem_full' \in Sem /\ sem_full'.waitq = sem_full.waitq
    BY <1>0, <1>2, TokenTaken
  <2>2. /\ SleepersQueued'
        /\ pc' \in [User -> PosterPc \union FetcherPc]
        /\ \A u \in Poster : pc'[u] \in PosterPc
        /\ \A u \in Fetcher : pc'[u] \in FetcherPc
    BY <1>0, <1>2, <2>1, MovesOn DEF PosterPc
  <2>3. MboxTypeOK'
    BY <1>0, <2>1, <2>2 DEF MboxIInv, TokensExact, MboxTypeOK
  <2>4. /\ Count(Fetcher, Holding)' = Count(Fetcher, Holding)
        /\ Count(Poster, Announcing)' = Count(Poster, Announcing)
    BY <1>0, <1>2, MovesCount DEF Holding, Announcing
  <2>5. TokenPerMessage'
    BY <1>0, <2>4 DEF MboxIInv, TokensExact, TokenPerMessage, Holding, Announcing
  <2> QED BY <1>1, <2>2, <2>3, <2>5 DEF MboxIInv, TokensExact
<1>3. CASE sem_full' = waits(sem_full, t) /\ Enters(t, "asleep")
  <2>1. sem_full' \in Sem /\ sem_full'.waitq = Append(sem_full.waitq, t)
    BY <1>0, <1>3, SemWaits
  <2>2. /\ Append(sem_full.waitq, t) \in Seq(Poster) /\ IsInjective(Append(sem_full.waitq, t))
        /\ \A u \in Poster : pc'[u] = "asleep" <=> u \in ToSet(Append(sem_full.waitq, t))
        /\ \A u \in User \ Poster : pc'[u] = pc[u]
        /\ pc' \in [User -> PosterPc \union FetcherPc]
        /\ \A u \in Poster : pc'[u] \in PosterPc
        /\ \A u \in Fetcher : pc'[u] \in FetcherPc
    BY <1>0, <1>3, FallsAsleep
  <2>3. SleepersQueued'
    BY <1>0, <2>1, <2>2, MboxAssumption DEF MboxIInv, TokensExact, SleepersQueued, At, User
  <2>4. MboxTypeOK'
    BY <1>0, <2>1, <2>2 DEF MboxIInv, TokensExact, MboxTypeOK
  <2>5. /\ Count(Fetcher, Holding)' = Count(Fetcher, Holding)
        /\ Count(Poster, Announcing)' = Count(Poster, Announcing)
    BY <1>0, <1>3, MovesCount DEF Holding, Announcing
  <2>6. TokenPerMessage'
    BY <1>0, <2>5 DEF MboxIInv, TokensExact, TokenPerMessage, Holding, Announcing
  <2> QED BY <1>1, <2>2, <2>3, <2>4, <2>6 DEF MboxIInv, TokensExact
<1> QED BY <1>2, <1>3 DEF post_wai_full

-----------------------------------------------------------------------------
(* The steps of a fetcher                                                  *)

LEMMA FetchStep ==
  ASSUME MboxIInv, NEW t \in Fetcher, fetch(t)
  PROVE  MboxIInv'
<1>1. /\ pc[t] = "idle" /\ Enters(t, "wai_empty") /\ t \in User /\ t \notin Poster
      /\ UNCHANGED <<q, head, tail, used, sem_empty, sem_full, msg>>
  BY MboxAssumption DEF fetch, At, User, ring
<1>2. /\ SleepersQueued'
      /\ pc' \in [User -> PosterPc \union FetcherPc]
      /\ \A u \in Poster : pc'[u] \in PosterPc
      /\ \A u \in Fetcher : pc'[u] \in FetcherPc
  BY <1>1, MovesOn DEF FetcherPc
<1>3. MboxTypeOK'
  BY <1>1, <1>2 DEF MboxIInv, TokensExact, MboxTypeOK
<1>4. TokenPerMessage'
  <2>1. /\ Count(Fetcher, Holding)' = Count(Fetcher, Holding)
        /\ Count(Poster, Announcing)' = Count(Poster, Announcing)
    BY <1>1, MovesCount DEF Holding, Announcing
  <2> QED BY <1>1, <2>1 DEF MboxIInv, TokensExact, TokenPerMessage, Holding, Announcing
<1>5. RingOK'
  BY <1>1, RingStays DEF ring
<1> QED BY <1>2, <1>3, <1>4, <1>5 DEF MboxIInv, TokensExact

(* wai_sem or pol_sem with a token: it is with the fetcher from here on.   *)
LEMMA TakesToken ==
  ASSUME MboxIInv, NEW t \in Fetcher, NEW l \in Holding,
         pc[t] \in {"idle", "wai_empty"}, Enters(t, l), sem_empty.cnt > 0,
         sem_empty' = taken(sem_empty), UNCHANGED <<q, head, tail, used, sem_full, msg>>
  PROVE  MboxIInv'
<1>0. t \in User /\ t \notin Poster /\ sem_empty \in Sem /\ sem_empty.cnt \in Nat
  BY MboxAssumption DEF User, MboxIInv, TokensExact, MboxTypeOK, Sem
<1>1. RingOK'
  BY RingStays DEF ring
<1>2. /\ sem_empty' \in Sem /\ sem_empty'.waitq = sem_empty.waitq
      /\ sem_empty'.cnt = sem_empty.cnt - 1
  BY <1>0, TokenTaken
<1>3. /\ SleepersQueued'
      /\ pc' \in [User -> PosterPc \union FetcherPc]
      /\ \A u \in Poster : pc'[u] \in PosterPc
      /\ \A u \in Fetcher : pc'[u] \in FetcherPc
  BY <1>0, <1>2, MovesOn DEF FetcherPc, Holding
<1>4. MboxTypeOK'
  BY <1>2, <1>3 DEF MboxIInv, TokensExact, MboxTypeOK
<1>5. pc[t] \notin Holding
  BY DEF Holding
<1>6. /\ Count(Fetcher, Holding)' = Count(Fetcher, Holding) + 1
      /\ Count(Poster, Announcing)' = Count(Poster, Announcing)
  BY <1>0, <1>5, MovesCount
<1>7. TokenPerMessage'
  BY <1>0, <1>2, <1>6, Typed DEF MboxIInv, TokensExact, TokenPerMessage, Holding, Announcing
<1> QED BY <1>1, <1>3, <1>4, <1>7 DEF MboxIInv, TokensExact

LEMMA TryfetchStep ==
  ASSUME MboxIInv, NEW t \in Fetcher, tryfetch(t)
  PROVE  MboxIInv'
BY TakesToken DEF tryfetch, At, ring, Holding

LEMMA WaiEmptyStep ==
  ASSUME MboxIInv, NEW t \in Fetcher, fetch_wai_empty(t)
  PROVE  MboxIInv'
<1>0. /\ t \in User /\ pc[t] = "wai_empty" /\ t \notin Poster
      /\ UNCHANGED <<q, head, tail, used, sem_full, msg>>
      /\ sem_empty \in Sem
  BY MboxAssumption DEF fetch_wai_empty, At, User, ring, MboxIInv, TokensExact, MboxTypeOK
<1>1. RingOK'
  BY <1>0, RingStays DEF ring
<1>2. CASE sem_empty.cnt > 0 /\ sem_empty' = taken(sem_empty) /\ Enters(t, "dequeue")
  BY <1>0, <1>2, TakesToken DEF Holding
<1>3. CASE sem_empty' = waits(sem_empty, t) /\ Enters(t, "asleep")
  <2>1. /\ sem_empty' \in Sem /\ sem_empty'.waitq = Append(sem_empty.waitq, t)
        /\ sem_empty'.cnt = sem_empty.cnt
    BY <1>0, <1>3, SemWaits
  <2>2. /\ Append(sem_empty.waitq, t) \in Seq(Fetcher) /\ IsInjective(Append(sem_empty.waitq, t))
        /\ \A u \in Fetcher : pc'[u] = "asleep" <=> u \in ToSet(Append(sem_empty.waitq, t))
        /\ \A u \in User \ Fetcher : pc'[u] = pc[u]
        /\ pc' \in [User -> PosterPc \union FetcherPc]
        /\ \A u \in Poster : pc'[u] \in PosterPc
        /\ \A u \in Fetcher : pc'[u] \in FetcherPc
    BY <1>0, <1>3, FallsAsleep
  <2>3. SleepersQueued'
    BY <1>0, <2>1, <2>2, MboxAssumption DEF MboxIInv, TokensExact, SleepersQueued, At, User
  <2>4. MboxTypeOK'
    BY <1>0, <2>1, <2>2 DEF MboxIInv, TokensExact, MboxTypeOK
  <2>5. /\ Count(Fetcher, Holding)' = Count(Fetcher, Holding)
        /\ Count(Poster, Announcing)' = Count(Poster, Announcing)
    BY <1>0, <1>3, MovesCount DEF Holding, Announcing
  <2>6. TokenPerMessage'
    BY <1>0, <2>1, <2>5 DEF MboxIInv, TokensExact, TokenPerMessage, Holding, Announcing
  <2> QED BY <1>1, <2>2, <2>3, <2>4, <2>6 DEF MboxIInv, TokensExact
<1> QED BY <1>2, <1>3 DEF fetch_wai_empty

(* The wait times out: nobody signals this fetcher any more.               *)
LEMMA TimeoutStep ==
  ASSUME MboxIInv, NEW t \in Fetcher, fetch_timeout(t)
  PROVE  MboxIInv'
<1>0. /\ t \in User /\ pc[t] = "asleep" /\ t \notin Poster /\ Enters(t, "idle")
      /\ UNCHANGED <<q, head, tail, used, sem_full, msg>>
      /\ sem_empty \in Sem /\ sem_empty.waitq \in Seq(Fetcher)
      /\ IsInjective(sem_empty.waitq)
  BY MboxAssumption
     DEF fetch_timeout, At, User, ring, MboxIInv, TokensExact, MboxTypeOK, SleepersQueued
<1>1. RingOK'
  BY <1>0, RingStays DEF ring
<1>2. PICK i \in DOMAIN sem_empty.waitq :
        /\ sem_empty.waitq[i] = t
        /\ sem_empty' = [sem_empty EXCEPT !.waitq = RemoveAt(@, i)]
  BY DEF fetch_timeout, withdrawn
<1> DEFINE w == RemoveAt(sem_empty.waitq, i)
<1>3. w \in Seq(Fetcher) /\ IsInjective(w) /\ ToSet(w) = ToSet(sem_empty.waitq) \ {t}
  BY <1>0, <1>2, QueueRemoveAt
<1> HIDE DEF w
<1>4. sem_empty' = [sem_empty EXCEPT !.waitq = w]
  BY <1>2 DEF w
<1>5. w \in Seq(Poster \union Fetcher)
  BY <1>3, SeqMonotonic
<1>6. sem_empty' \in Sem /\ sem_empty'.waitq = w /\ sem_empty'.cnt = sem_empty.cnt
  BY <1>0, <1>4, <1>5 DEF Sem
<1>7. /\ pc'[t] = "idle" /\ \A u \in User \ {t} : pc'[u] = pc[u]
      /\ pc' \in [User -> PosterPc \union FetcherPc]
  BY <1>0 DEF MboxIInv, Enters, PosterPc
<1>8. SleepersQueued'
  BY <1>0, <1>3, <1>6, <1>7 DEF MboxIInv, TokensExact, SleepersQueued, At, User
<1>9. MboxTypeOK'
  BY <1>0, <1>6, <1>7 DEF MboxIInv, TokensExact, MboxTypeOK, FetcherPc, User
<1>10. /\ Count(Fetcher, Holding)' = Count(Fetcher, Holding)
       /\ Count(Poster, Announcing)' = Count(Poster, Announcing)
  BY <1>0, MovesCount DEF Holding, Announcing
<1>11. TokenPerMessage'
  BY <1>0, <1>6, <1>10 DEF MboxIInv, TokensExact, TokenPerMessage, Holding, Announcing
<1> QED BY <1>1, <1>7, <1>8, <1>9, <1>11 DEF MboxIInv, TokensExact

(* The slot at tail is emptied, and the ones behind it keep their messages.*)
LEMMA DequeueRing ==
  ASSUME MboxIInv, used > 0, q' = [q EXCEPT ![tail] = NULL],
         tail' = IF tail + 1 >= Size THEN 0 ELSE tail + 1,
         used' = used - 1, UNCHANGED head
  PROVE  /\ RingOK' /\ q[tail] \in Msg
         /\ q' \in [Cell -> Msg \union {NULL}] /\ tail' \in Cell
         /\ q[tail] = q[(tail + 0) % Size]
         /\ \A i \in 0..(used - 2) :
              q'[(tail' + i) % Size] = q[(tail + (i + 1)) % Size]
<1>1. /\ Size \in Nat \ {0} /\ tail \in 0..(Size - 1)
      /\ used \in 1..Size /\ used - 1 \in 0..(Size - 1)
  BY Typed
<1>2. /\ head = (tail + used) % Size
      /\ \A i \in 0..(used - 1) : q[(tail + i) % Size] \in Msg
      /\ q \in [Cell -> Msg \union {NULL}]
  BY DEF MboxIInv, RingOK, TokensExact, MboxTypeOK
<1>3. ASSUME NEW i \in 0..(Size - 1)
      PROVE  tail' \in 0..(Size - 1) /\ (tail' + i) % Size = (tail + (i + 1)) % Size
  BY <1>1, StepOn
<1>4. tail = (tail + 0) % Size
  <2>1. 0 \in 0..Size
    BY <1>1
  <2>2. (tail + 0) % Size = IF tail + 0 < Size THEN tail + 0 ELSE tail + 0 - Size
    BY <1>1, <2>1, Wrap, Zenon
  <2> QED BY <1>1, <2>2
<1>5. ASSUME NEW i \in 0..(used - 2)
      PROVE  /\ (tail + (i + 1)) % Size # tail
             /\ (tail + (i + 1)) % Size \in 0..(Size - 1)
             /\ i \in 0..(Size - 1) /\ i + 1 \in 0..(used - 1)
  <2>1. /\ i + 1 \in 0..Size /\ 0 < i + 1 /\ (i + 1) - 0 < Size /\ 0 \in 0..Size
        /\ i \in 0..(Size - 1) /\ i + 1 \in 0..(used - 1)
    BY <1>1
  <2>2. (tail + 0) % Size # (tail + (i + 1)) % Size
    BY <1>1, <2>1, PcApart
  <2>3. (tail + (i + 1)) % Size \in 0..(Size - 1)
    BY <1>1, <2>1, Wrap
  <2> QED BY <1>4, <2>1, <2>2, <2>3
<1>6. ASSUME NEW i \in 0..(used - 2)
      PROVE  /\ q'[(tail' + i) % Size] = q[(tail + (i + 1)) % Size]
             /\ q'[(tail' + i) % Size] \in Msg
  <2>1. (tail' + i) % Size = (tail + (i + 1)) % Size
    BY <1>3, <1>5
  <2>2. q'[(tail + (i + 1)) % Size] = q[(tail + (i + 1)) % Size]
    BY <1>2, <1>5 DEF Cell
  <2>3. q[(tail + (i + 1)) % Size] \in Msg
    BY <1>2, <1>5
  <2> QED BY <2>1, <2>2, <2>3
<1>7. head' = (tail' + used') % Size
  <2>1. (tail' + (used - 1)) % Size = (tail + ((used - 1) + 1)) % Size
    BY <1>1, <1>3
  <2>2. (used - 1) + 1 = used
    BY <1>1
  <2> QED BY <1>2, <2>1, <2>2
<1>8. RingOK'
  <2>1. used' - 1 = used - 2
    BY <1>1
  <2> QED BY <1>6, <1>7, <2>1 DEF RingOK
<1>9. 0 \in 0..(used - 1) /\ 0 \in 0..(Size - 1)
  BY <1>1
<1>10. q[tail] \in Msg
  BY <1>2, <1>4, <1>9
<1>11. q' \in [Cell -> Msg \union {NULL}]
  BY <1>2
<1> QED BY <1>3, <1>4, <1>6, <1>8, <1>9, <1>10, <1>11 DEF Cell

(* The token it holds says that there is a message.                        *)
LEMMA DequeueStep ==
  ASSUME MboxIInv, NEW t \in Fetcher, fetch_dequeue(t)
  PROVE  MboxIInv' /\ used > 0
<1>0. /\ t \in User /\ pc[t] \in Holding /\ t \notin Poster
      /\ UNCHANGED <<sem_empty, sem_full>> /\ used \in Nat
  BY MboxAssumption, Typed DEF fetch_dequeue, User, Holding
<1>1. used > 0
  <2>1. Count(Fetcher, Holding) >= 1
    BY <1>0, CountNat, MboxAssumption DEF Count
  <2> QED BY <2>1, Typed DEF MboxIInv, TokensExact, TokenPerMessage, Holding, Announcing
<1>2. PICK l \in {"sig_full", "idle"} :
        /\ msg' = [msg EXCEPT ![t] = q[tail]]
        /\ q' = [q EXCEPT ![tail] = NULL]
        /\ tail' = IF tail + 1 >= Size THEN 0 ELSE tail + 1
        /\ used' = used - 1
        /\ Enters(t, l)
        /\ UNCHANGED head
  BY <1>1 DEF fetch_dequeue
<1>3. /\ RingOK' /\ q[tail] \in Msg
      /\ q' \in [Cell -> Msg \union {NULL}] /\ tail' \in Cell
  BY <1>1, <1>2, DequeueRing
<1>4. /\ SleepersQueued'
      /\ pc' \in [User -> PosterPc \union FetcherPc]
      /\ \A u \in Poster : pc'[u] \in PosterPc
      /\ \A u \in Fetcher : pc'[u] \in FetcherPc
  BY <1>0, <1>2, MovesOn DEF FetcherPc, Holding
<1>5. used' \in 0..Size
  BY <1>1, <1>2, Typed
<1>6. MboxTypeOK'
  BY <1>0, <1>2, <1>3, <1>4, <1>5 DEF MboxIInv, TokensExact, MboxTypeOK, User
<1>7. l \notin Holding
  BY <1>2 DEF Holding
<1>8. /\ Count(Fetcher, Holding) = Count(Fetcher, Holding)' + 1
      /\ Count(Poster, Announcing)' = Count(Poster, Announcing)
  BY <1>0, <1>2, <1>7, MovesCount
<1>9. Count(Fetcher, Holding)' \in Nat
  BY CountNat, MboxAssumption DEF Count
<1>10. TokenPerMessage'
  BY <1>0, <1>2, <1>8, <1>9, Typed
     DEF MboxIInv, TokensExact, TokenPerMessage, Holding, Announcing
<1> QED BY <1>1, <1>3, <1>4, <1>6, <1>10 DEF MboxIInv, TokensExact

LEMMA SigFullStep ==
  ASSUME MboxIInv, NEW t \in Fetcher, fetch_sig_full(t)
  PROVE  MboxIInv'
<1>0. /\ t \in User /\ t \notin Poster /\ pc[t] = "sig_full"
      /\ UNCHANGED <<q, head, tail, used, sem_empty, msg>>
      /\ sem_full' = signalled(sem_full) /\ pc' = woken(sem_full, "enqueue", t)
      /\ sem_full \in Sem
  BY MboxAssumption
     DEF fetch_sig_full, At, User, ring, MboxIInv, TokensExact, MboxTypeOK
<1>1. RingOK'
  BY <1>0, RingStays DEF ring
<1>2. sem_full' \in Sem
  BY <1>0, SemSignalled
<1>3. CASE sem_full.waitq # <<>>
  <2> DEFINE h == Head(sem_full.waitq)
  <2>1. /\ h \in Poster /\ pc[h] = "asleep"
        /\ pc'[t] = "idle" /\ pc'[h] = "enqueue"
        /\ \A u \in User \ {t, h} : pc'[u] = pc[u]
        /\ pc' \in [User -> PosterPc \union FetcherPc]
        /\ Tail(sem_full.waitq) \in Seq(Poster) /\ IsInjective(Tail(sem_full.waitq))
        /\ \A u \in Poster : pc'[u] = "asleep" <=> u \in ToSet(Tail(sem_full.waitq))
    BY <1>0, <1>3, Wakes DEF PosterPc
  <2> HIDE DEF h
  <2>2. sem_full'.waitq = Tail(sem_full.waitq)
    BY <1>0, <1>3, SemSignalled
  <2>3. \A u \in Fetcher \ {t} : pc'[u] = pc[u]
    BY <2>1, MboxAssumption DEF User
  <2>4. \A u \in Poster \ {h} : pc'[u] = pc[u]
    BY <1>0, <2>1 DEF User
  <2>5. SleepersQueued'
    BY <1>0, <2>1, <2>2, <2>3 DEF MboxIInv, TokensExact, SleepersQueued, At
  <2>6. MboxTypeOK'
    BY <1>0, <1>2, <2>1, <2>3, <2>4 DEF MboxIInv, TokensExact, MboxTypeOK, PosterPc, FetcherPc
  <2>7. Count(Poster, Announcing)' = Count(Poster, Announcing)
    <3>1. \A u \in Poster : pc[u] \in Announcing <=> pc'[u] \in Announcing
      BY <2>1, <2>4 DEF Announcing
    <3> QED BY <3>1, CountSame DEF Count
  <2>8. Count(Fetcher, Holding)' = Count(Fetcher, Holding)
    <3>1. \A u \in Fetcher : pc[u] \in Holding <=> pc'[u] \in Holding
      BY <1>0, <2>1, <2>3 DEF Holding
    <3> QED BY <3>1, CountSame DEF Count
  <2>9. TokenPerMessage'
    BY <1>0, <2>7, <2>8 DEF MboxIInv, TokensExact, TokenPerMessage, Holding, Announcing
  <2> QED BY <1>1, <2>1, <2>5, <2>6, <2>9 DEF MboxIInv, TokensExact
<1>4. CASE sem_full.waitq = <<>>
  <2>1. Enters(t, "idle")
    BY <1>0, <1>4 DEF woken, Enters
  <2>2. sem_full'.waitq = sem_full.waitq
    BY <1>0, <1>4, SemSignalled
  <2>3. /\ SleepersQueued'
        /\ pc' \in [User -> PosterPc \union FetcherPc]
        /\ \A u \in Poster : pc'[u] \in PosterPc
        /\ \A u \in Fetcher : pc'[u] \in FetcherPc
    BY <1>0, <2>1, <2>2, MovesOn DEF FetcherPc
  <2>4. MboxTypeOK'
    BY <1>0, <1>2, <2>3 DEF MboxIInv, TokensExact, MboxTypeOK
  <2>5. /\ Count(Fetcher, Holding)' = Count(Fetcher, Holding)
        /\ Count(Poster, Announcing)' = Count(Poster, Announcing)
    BY <1>0, <2>1, MovesCount DEF Holding, Announcing
  <2>6. TokenPerMessage'
    BY <1>0, <2>5 DEF MboxIInv, TokensExact, TokenPerMessage, Holding, Announcing
  <2> QED BY <1>1, <2>3, <2>4, <2>6 DEF MboxIInv, TokensExact
<1> QED BY <1>3, <1>4

-----------------------------------------------------------------------------
(* The invariant                                                           *)

LEMMA MboxInitIInv == MboxInit => MboxIInv
<1> SUFFICES ASSUME MboxInit PROVE MboxIInv
  OBVIOUS
<1>1. /\ Size \in Nat \ {0} /\ TMAX_MAXSEM \in Nat /\ <<>> \in Seq(User)
      /\ <<>> \in Seq(Fetcher) /\ <<>> \in Seq(Poster) /\ 0 \in 0..(Size - 1)
  BY MboxAssumption
<1>2. /\ pc = [t \in User |-> "idle"]
      /\ sem_empty = [cnt |-> 0, waitq |-> <<>>] /\ sem_full = [cnt |-> 0, waitq |-> <<>>]
      /\ head = 0 /\ tail = 0 /\ used = 0
  BY DEF MboxInit, User
<1>3. MboxTypeOK
  BY <1>1 DEF MboxInit, MboxTypeOK, PosterPc, FetcherPc, Sem, Cell, User
<1>4. SleepersQueued
  BY <1>1, <1>2 DEF SleepersQueued, At, IsInjective, ToSet, User
<1>5. TokenPerMessage
  <2>1. /\ {t \in Fetcher : pc[t] \in {"dequeue", "try_dequeue"}} = {}
        /\ {t \in Poster : pc[t] \in {"sig_empty"}} = {}
    BY <1>2 DEF User
  <2>2. /\ Count(Fetcher, {"dequeue", "try_dequeue"}) = 0
        /\ Count(Poster, {"sig_empty"}) = 0
    BY <2>1, FS_EmptySet, Zenon DEF Count
  <2> QED BY <1>2, <2>2 DEF TokenPerMessage
<1>6. RingOK
  <2>1. (0 + 0) % Size = 0
    BY <1>1, Wrap
  <2> QED BY <1>2, <2>1 DEF RingOK
<1>7. pc \in [User -> PosterPc \union FetcherPc]
  BY <1>2 DEF PosterPc
<1> QED BY <1>3, <1>4, <1>5, <1>6, <1>7 DEF MboxIInv, TokensExact

LEMMA MboxStepIInv == MboxIInv /\ [MboxNext]_mboxvars => MboxIInv'
<1> SUFFICES ASSUME MboxIInv, [MboxNext]_mboxvars PROVE MboxIInv'
  OBVIOUS
<1>1. ASSUME NEW t \in Poster, NEW m \in Msg, post(t, m) PROVE MboxIInv'
  BY <1>1, PostStep
<1>2. ASSUME NEW t \in Fetcher, fetch(t) \/ tryfetch(t) \/ fetch_timeout(t) PROVE MboxIInv'
  BY <1>2, FetchStep, TryfetchStep, TimeoutStep
<1>3. ASSUME NEW t \in User, Runs(t) PROVE MboxIInv'
  <2>1. CASE t \in Poster /\ (mbox_try_enqueue(t) \/ post_sig_empty(t) \/ post_wai_full(t))
    BY <2>1, EnqueueStep, SigEmptyStep, WaiFullStep
  <2>2. CASE t \in Fetcher /\ (fetch_wai_empty(t) \/ fetch_dequeue(t) \/ fetch_sig_full(t))
    BY <2>2, WaiEmptyStep, DequeueStep, SigFullStep
  <2> QED BY <1>3, <2>1, <2>2 DEF Runs
<1>4. CASE UNCHANGED mboxvars
  <2>1. Count(Fetcher, Holding)' = Count(Fetcher, Holding)
    BY <1>4 DEF mboxvars, Count
  <2> QED BY <1>4 DEF mboxvars, MboxIInv, TokensExact, MboxTypeOK, TokenPerMessage, SleepersQueued,
                      RingOK, Count, At
<1> QED BY <1>1, <1>2, <1>3, <1>4 DEF MboxNext, User

(* Tokens in the count, tokens with fetchers and messages not announced    *)
(* yet are as many as the messages in the ring, head and tail stay in it,  *)
(* and whoever sleeps is in the one queue that can wake him, for any       *)
(* number of tasks and any size up to the semaphores' limit.               *)
THEOREM MboxTokensExact == MboxSpec => []TokensExact
<1>1. MboxIInv => TokensExact
  BY DEF MboxIInv
<1> QED BY MboxInitIInv, MboxStepIInv, <1>1, PTL DEF MboxSpec

-----------------------------------------------------------------------------
(* The ring and its two semaphores implement the bounded channel: filling  *)
(* a slot is Put, emptying one is Get, and every other step stutters.      *)

chan == [i \in 1..used |-> q[(tail + i - 1) % Size]]
fetched == [t \in Fetcher |-> msg[t]]

LEMMA ChanSeq ==
  ASSUME MboxIInv
  PROVE  /\ chan \in Seq(Msg) /\ Len(chan) = used
         /\ \A i \in 1..used : chan[i] = q[(tail + i - 1) % Size]
<1>1. used \in Nat /\ tail \in Nat
  BY Typed
<1>2. ASSUME NEW i \in 1..used PROVE q[(tail + i - 1) % Size] \in Msg
  <2>1. i - 1 \in 0..(used - 1) /\ tail + (i - 1) = tail + i - 1
    BY <1>1
  <2>2. \A j \in 0..(used - 1) : q[(tail + j) % Size] \in Msg
    BY DEF MboxIInv, RingOK
  <2>3. q[(tail + (i - 1)) % Size] \in Msg
    BY <2>1, <2>2
  <2> QED BY <2>1, <2>3
<1>3. chan \in Seq(Msg) /\ Len(chan) = used
  BY <1>1, <1>2 DEF chan
<1> QED BY <1>3 DEF chan

LEMMA ChanSeqNext ==
  ASSUME MboxIInv'
  PROVE  /\ chan' \in Seq(Msg) /\ Len(chan') = used'
         /\ \A i \in 1..used' : chan'[i] = q'[(tail' + i - 1) % Size]
<1>1. used' \in Nat /\ tail' \in Nat
  BY MboxAssumption DEF MboxIInv, TokensExact, MboxTypeOK, Cell
<1>2. ASSUME NEW i \in 1..used' PROVE q'[(tail' + i - 1) % Size] \in Msg
  <2>1. i - 1 \in 0..(used' - 1) /\ tail' + (i - 1) = tail' + i - 1
    <3> DEFINE n == used'
               a == tail'
    <3>1. n \in Nat /\ a \in Nat /\ i \in 1..n
      BY <1>1
    <3> HIDE DEF n, a
    <3>2. i - 1 \in 0..(n - 1) /\ a + (i - 1) = a + i - 1
      BY <3>1
    <3> QED BY <3>2 DEF n, a
  <2>2. \A j \in 0..(used' - 1) : q'[(tail' + j) % Size] \in Msg
    BY DEF MboxIInv, RingOK
  <2>3. q'[(tail' + (i - 1)) % Size] \in Msg
    BY <2>1, <2>2
  <2> QED BY <2>1, <2>3
<1>3. chan' \in Seq(Msg) /\ Len(chan') = used'
  BY <1>1, <1>2 DEF chan
<1> QED BY <1>3 DEF chan

LEMMA ChanInit == MboxInit => Chan!Init
<1> SUFFICES ASSUME MboxInit PROVE Chan!Init
  OBVIOUS
<1>1. used = 0 /\ msg \in [User -> Msg]
  BY DEF MboxInit, User
<1>2. [i \in 1..used |-> q[(tail + i - 1) % Size]] = <<>>
  <2>1. 1..used = {}
    BY <1>1
  <2> QED BY <2>1
<1> QED BY <1>1, <1>2 DEF Chan!Init, User

LEMMA ChanPut ==
  ASSUME MboxIInv, MboxIInv', NEW m \in Msg, used < Size,
         q' = [q EXCEPT ![head] = m],
         head' = IF head + 1 >= Size THEN 0 ELSE head + 1,
         used' = used + 1, UNCHANGED <<tail, msg>>
  PROVE  Chan!Put(m)
<1>2. used \in Nat /\ tail \in Nat
  BY Typed
<1>3. /\ \A i \in 0..(used - 1) : q'[(tail + i) % Size] = q[(tail + i) % Size]
      /\ q'[(tail + used) % Size] = m
  BY EnqueueRing
<1>4. /\ chan \in Seq(Msg) /\ Len(chan) = used
      /\ \A i \in 1..used : chan[i] = q[(tail + i - 1) % Size]
  BY ChanSeq
<1>5. /\ chan' \in Seq(Msg) /\ Len(chan') = used + 1
      /\ \A i \in 1..(used + 1) : chan'[i] = q'[(tail + i - 1) % Size]
  BY ChanSeqNext
<1>6. /\ Append(chan, m) \in Seq(Msg) /\ Len(Append(chan, m)) = used + 1
      /\ \A i \in 1..used : Append(chan, m)[i] = chan[i]
      /\ Append(chan, m)[used + 1] = m
  BY <1>4, AppendProperties
<1>7. ASSUME NEW i \in 1..(used + 1) PROVE chan'[i] = Append(chan, m)[i]
  <2>0. tail + (i - 1) = tail + i - 1 /\ i - 1 \in 0..used
    BY <1>2
  <2>1. CASE i = used + 1
    <3>1. i - 1 = used
      BY <2>1, <1>2
    <3>2. chan'[i] = q'[(tail + used) % Size]
      BY <1>5, <2>0, <3>1
    <3> QED BY <1>3, <1>6, <2>1, <3>2
  <2>2. CASE i # used + 1
    <3>1. i \in 1..used /\ i - 1 \in 0..(used - 1)
      BY <2>2, <1>2
    <3>2. q'[(tail + (i - 1)) % Size] = q[(tail + (i - 1)) % Size]
      BY <1>3, <3>1
    <3> QED BY <1>4, <1>5, <1>6, <2>0, <3>1, <3>2
  <2> QED BY <2>1, <2>2
<1>8. chan' = Append(chan, m)
  <2> DEFINE c == chan'
             a == Append(chan, m)
  <2>1. c \in Seq(Msg) /\ a \in Seq(Msg) /\ Len(c) = Len(a)
        /\ \A i \in 1..Len(c) : c[i] = a[i]
    BY <1>5, <1>6, <1>7
  <2> HIDE DEF c, a
  <2>2. c = a
    BY <2>1, SeqEqual
  <2> QED BY <2>2 DEF c, a
<1>9. fetched' = fetched
  BY DEF fetched
<1> QED BY <1>4, <1>8, <1>9 DEF Chan!Put, chan, fetched

LEMMA ChanGet ==
  ASSUME MboxIInv, MboxIInv', NEW t \in Fetcher, used > 0,
         msg' = [msg EXCEPT ![t] = q[tail]],
         q' = [q EXCEPT ![tail] = NULL],
         tail' = IF tail + 1 >= Size THEN 0 ELSE tail + 1,
         used' = used - 1, UNCHANGED head
  PROVE  Chan!Get(t)
<1>1. used \in Nat /\ tail \in Nat /\ used - 1 \in Nat
  BY Typed
<1>2. /\ q[tail] = q[(tail + 0) % Size]
      /\ \A i \in 0..(used - 2) : q'[(tail' + i) % Size] = q[(tail + (i + 1)) % Size]
  BY DequeueRing
<1>3. /\ chan \in Seq(Msg) /\ Len(chan) = used
      /\ \A i \in 1..used : chan[i] = q[(tail + i - 1) % Size]
  BY ChanSeq
<1>4. /\ chan' \in Seq(Msg) /\ Len(chan') = used - 1
      /\ \A i \in 1..(used - 1) : chan'[i] = q'[(tail' + i - 1) % Size]
  BY ChanSeqNext
<1>5. chan # <<>> /\ Head(chan) = q[tail]
  <2>1. chan # <<>> /\ Head(chan) = chan[1] /\ 1 \in 1..used
    BY <1>1, <1>3
  <2>2. tail + 1 - 1 = tail + 0
    BY <1>1
  <2>3. chan[1] = q[(tail + 0) % Size]
    BY <1>3, <2>1, <2>2
  <2> QED BY <1>2, <2>1, <2>3
<1>6. /\ Tail(chan) \in Seq(Msg) /\ Len(Tail(chan)) = used - 1
      /\ \A i \in 1..(used - 1) : Tail(chan)[i] = chan[i + 1]
  BY <1>3, <1>5, HeadTailProperties
<1>7. ASSUME NEW i \in 1..(used - 1) PROVE chan'[i] = Tail(chan)[i]
  <2>1. /\ i - 1 \in 0..(used - 2) /\ (i - 1) + 1 = i /\ i + 1 \in 1..used
        /\ tail + (i + 1) - 1 = tail + i
    BY <1>1
  <2>2. q'[(tail' + (i - 1)) % Size] = q[(tail + i) % Size]
    BY <1>2, <2>1
  <2>3. chan[i + 1] = q[(tail + i) % Size]
    BY <1>3, <2>1
  <2>4. tail' + i - 1 = tail' + (i - 1)
    <3>1. tail' \in Nat
      BY <1>1, Typed
    <3> QED BY <3>1
  <2> QED BY <1>4, <1>6, <2>2, <2>3, <2>4
<1>8. chan' = Tail(chan)
  <2> DEFINE c == chan'
             a == Tail(chan)
  <2>1. c \in Seq(Msg) /\ a \in Seq(Msg) /\ Len(c) = Len(a)
        /\ \A i \in 1..Len(c) : c[i] = a[i]
    BY <1>4, <1>6, <1>7
  <2> HIDE DEF c, a
  <2>2. c = a
    BY <2>1, SeqEqual
  <2> QED BY <2>2 DEF c, a
<1>9. fetched' = [fetched EXCEPT ![t] = Head(chan)]
  <2>1. msg \in [User -> Msg]
    BY DEF MboxIInv, TokensExact, MboxTypeOK, User
  <2> QED BY <1>5, <2>1 DEF fetched, User
<1> QED BY <1>5, <1>8, <1>9 DEF Chan!Get, chan, fetched

LEMMA ChanStutter ==
  ASSUME UNCHANGED ring, \A t \in Fetcher : msg'[t] = msg[t]
  PROVE  UNCHANGED Chan!vars
BY DEF ring, Chan!vars

LEMMA ChanStep == MboxIInv /\ MboxIInv' /\ [MboxNext]_mboxvars => [Chan!Next]_(Chan!vars)
<1> SUFFICES ASSUME MboxIInv, MboxIInv', [MboxNext]_mboxvars PROVE [Chan!Next]_(Chan!vars)
  OBVIOUS
<1>1. ASSUME NEW t \in Poster, NEW m \in Msg, post(t, m) PROVE UNCHANGED Chan!vars
  <2>1. \A u \in Fetcher : msg'[u] = msg[u]
    BY <1>1, MboxAssumption DEF post, MboxIInv, TokensExact, MboxTypeOK
  <2> QED BY <1>1, <2>1, ChanStutter DEF post
<1>2. ASSUME NEW t \in Fetcher, fetch(t) \/ tryfetch(t) \/ fetch_timeout(t)
      PROVE  UNCHANGED Chan!vars
  BY <1>2, ChanStutter DEF fetch, tryfetch, fetch_timeout
<1>3. ASSUME NEW t \in Poster, mbox_try_enqueue(t) PROVE [Chan!Next]_(Chan!vars)
  <2>1. CASE /\ used < Size /\ UNCHANGED tail
             /\ q' = [q EXCEPT ![head] = msg[t]]
             /\ head' = IF head + 1 >= Size THEN 0 ELSE head + 1
             /\ used' = used + 1
    <3>1. PICK m \in Msg : m = msg[t]
      BY DEF MboxIInv, TokensExact, MboxTypeOK
    <3>2. Chan!Put(m)
      BY <1>3, <2>1, <3>1, ChanPut DEF mbox_try_enqueue
    <3> QED BY <3>2 DEF Chan!Next
  <2>2. CASE UNCHANGED ring
    BY <1>3, <2>2, ChanStutter DEF mbox_try_enqueue
  <2> QED BY <1>3, <2>1, <2>2 DEF mbox_try_enqueue
<1>4. ASSUME NEW t \in Poster, post_sig_empty(t) \/ post_wai_full(t) PROVE UNCHANGED Chan!vars
  BY <1>4, ChanStutter DEF post_sig_empty, post_wai_full
<1>5. ASSUME NEW t \in Fetcher, fetch_wai_empty(t) \/ fetch_sig_full(t) PROVE UNCHANGED Chan!vars
  BY <1>5, ChanStutter DEF fetch_wai_empty, fetch_sig_full
<1>6. ASSUME NEW t \in Fetcher, fetch_dequeue(t) PROVE [Chan!Next]_(Chan!vars)
  <2>1. used > 0
    BY <1>6, DequeueStep
  <2>2. Chan!Get(t)
    BY <1>6, <2>1, ChanGet DEF fetch_dequeue
  <2> QED BY <2>2 DEF Chan!Next
<1>7. CASE UNCHANGED mboxvars
  BY <1>7, ChanStutter DEF mboxvars, ring
<1> QED BY <1>1, <1>2, <1>3, <1>4, <1>5, <1>6, <1>7 DEF MboxNext, Runs

(* What is posted comes out once and in order, to whichever fetcher, and   *)
(* never more than the mailbox holds is in it (sys_arch.c): the mailbox    *)
(* implements module Channel, for any tasks and any size.                  *)
THEOREM MboxImplementsChannel == MboxSpec => ChannelSpec
<1> QED BY MboxInitIInv, MboxStepIInv, ChanInit, ChanStep, PTL DEF MboxSpec, ChannelSpec, Chan!Spec
=============================================================================
