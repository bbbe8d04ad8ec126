----------------------------- MODULE DuplexLine ------------------------------
(***************************************************************************)
(* What the driver of a serial line or of a network device promises: what  *)
(* a writer offers is taken whole or refused; what is taken goes out once, *)
(* in order; what arrives is read in order, and is lost only when there is *)
(* no room for it.                                                         *)
(***************************************************************************)
EXTENDS SequencesExt, Integers

CONSTANTS Writer, OutData, InData, MayRefuse

VARIABLES
  offered,    \* writer -> what it has still to write
  out, in,    \* written and not yet sent; arrived and not yet read
  room        \* how many of those that arrived may wait at least; constant

Init ==
  /\ offered = [w \in Writer |-> <<>>]
  /\ out = <<>> /\ in = <<>> /\ room \in Nat \ {0}

Offer(w) ==
  /\ offered[w] = <<>> /\ offered'[w] \in Seq(OutData)
  /\ \A v \in Writer \ {w} : offered'[v] = offered[v]
  /\ UNCHANGED <<out, in>>
Write(w) ==
  /\ offered[w] /= <<>>
  /\ out' = Append(out, Head(offered[w]))
  /\ offered' = [offered EXCEPT ![w] = Tail(@)]
  /\ UNCHANGED in
Refuse(w) ==
  /\ MayRefuse /\ offered' = [offered EXCEPT ![w] = <<>>]
  /\ UNCHANGED <<out, in>>
Send   == out /= <<>> /\ out' = Tail(out) /\ UNCHANGED <<offered, in>>
Arrive ==
  /\ Len(in') > Len(in) /\ SubSeq(in', 1, Len(in)) = in /\ in' \in Seq(InData)
  /\ UNCHANGED <<offered, out>>
Read   == in /= <<>> /\ in' = Tail(in) /\ UNCHANGED <<offered, out>>
Lose   ==
  /\ \E kept \in SUBSET ((room + 1)..Len(in)) :
       LET n == SetToSortSeq(1..room \union kept, <)
       IN  Len(in) > room /\ in' = [i \in DOMAIN n |-> in[n[i]]]
  /\ UNCHANGED <<offered, out>>

Next ==
  /\ \/ \E w \in Writer : Offer(w) \/ Write(w) \/ Refuse(w)
     \/ Send \/ Arrive \/ Read \/ Lose
  /\ room' = room
Spec == Init /\ [][Next]_<<offered, out, in, room>>
=============================================================================
