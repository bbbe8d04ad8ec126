------------------------------- MODULE Channel -------------------------------
(***************************************************************************)
(* What a mailbox of sys_arch promises lwIP: a bounded channel.  Messages  *)
(* come out in the order they went in, each once.                          *)
(***************************************************************************)
EXTENDS Integers, Sequences

CONSTANTS Fetcher, Msg, Size

VARIABLES chan,   \* the messages in the mailbox, oldest first
          got     \* the message each fetcher took out last

vars == <<chan, got>>

Init == chan = <<>> /\ got \in [Fetcher -> Msg]

Put(m) ==
  /\ Len(chan) < Size
  /\ chan' = Append(chan, m)
  /\ UNCHANGED got

Get(f) ==
  /\ chan # <<>>
  /\ got' = [got EXCEPT ![f] = Head(chan)]
  /\ chan' = Tail(chan)

Next == (\E m \in Msg : Put(m)) \/ (\E f \in Fetcher : Get(f))

Spec == Init /\ [][Next]_vars
=============================================================================
