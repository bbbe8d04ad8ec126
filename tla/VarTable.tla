------------------------------- MODULE VarTable -------------------------------
(***************************************************************************)
(* What a table of shell variables promises: a partial function from names *)
(* to values with a limit on its size.  A name has one value, setting one  *)
(* variable leaves the others, and an update needs no room.                *)
(***************************************************************************)
EXTENDS FiniteSets, Integers

CONSTANTS Name, Val, Limit

VARIABLE map

Init ==
  /\ DOMAIN map \subseteq Name /\ Cardinality(DOMAIN map) <= Limit
  /\ \A n \in DOMAIN map : map[n] \in Val

Set(n) ==
  /\ n \in DOMAIN map \/ Cardinality(DOMAIN map) < Limit
  /\ DOMAIN map' = DOMAIN map \union {n} /\ map'[n] \in Val
  /\ \A m \in DOMAIN map \ {n} : map'[m] = map[m]

Unset(n) ==
  /\ n \in DOMAIN map
  /\ map' = [m \in DOMAIN map \ {n} |-> map[m]]

Next == \E n \in Name : Set(n) \/ Unset(n)
Spec == Init /\ [][Next]_map
=============================================================================
