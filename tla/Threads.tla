------------------------------- MODULE Threads --------------------------------
(***************************************************************************)
(* What a port promises the kernel: tasks are threads.  Each goes through  *)
(* its service calls in program order, whatever interrupts and switches    *)
(* come between, nothing happens in the middle of a critical section, and  *)
(* a call that made its task wait does not return before the task is       *)
(* released.  pc[t] is where thread t is:                                  *)
(*   "user"  in its own code        "cs"    in a critical section          *)
(*   "in"    at a dispatch() inside the section, "back" returned from it   *)
(*   "out"   at the dispatch() behind the section                          *)
(*   "ret"   about to return from the service call                         *)
(***************************************************************************)
CONSTANTS Thread

VARIABLES
  pc,
  state    \* "none" (it does not run), "ready", "wait"

vars == <<pc, state>>

Init ==
  \E t \in Thread :
    /\ state = [x \in Thread |-> IF x = t THEN "ready" ELSE "none"]
    /\ pc = [x \in Thread |-> IF x = t THEN "user" ELSE "none"]

NoSection == \A t \in Thread : pc[t] /= "cs"

(* s: pc after what the caller did itself.                                 *)
Released(s, x) ==
  /\ state[x] \in {"wait", "none"}
  /\ state' = [state EXCEPT ![x] = "ready"]
  /\ pc' = IF state[x] = "none" THEN [s EXCEPT ![x] = "user"] ELSE s

Interrupt == NoSection /\ \E x \in Thread : Released(pc, x)

Enter(t) ==
  /\ NoSection /\ pc[t] = "user" /\ state[t] = "ready"
  /\ pc' = [pc EXCEPT ![t] = "cs"] /\ UNCHANGED state

Work(t) ==
  /\ pc[t] = "cs"
  /\ \/ /\ \E at \in {"in", "out"} : pc' = [pc EXCEPT ![t] = at]
        /\ state' = [state EXCEPT ![t] = "wait"]
     \/ \E x \in Thread : Released([pc EXCEPT ![t] = "out"], x)
     \/ pc' = [pc EXCEPT ![t] = "out"] /\ UNCHANGED state
     \/ /\ pc' = [pc EXCEPT ![t] = "none"]
        /\ state' = [state EXCEPT ![t] = "none"]

Advance(t) ==
  /\ NoSection
  /\ \/ pc[t] = "in"   /\ pc' = [pc EXCEPT ![t] = "back"]
     \/ pc[t] = "out"  /\ pc' = [pc EXCEPT ![t] = "ret"]
     \/ pc[t] = "back" /\ pc' = [pc EXCEPT ![t] = "ret"]
     \/ pc[t] = "ret"  /\ pc' = [pc EXCEPT ![t] = "user"] /\ state[t] = "ready"
  /\ UNCHANGED state

Next == Interrupt \/ \E t \in Thread : Enter(t) \/ Work(t) \/ Advance(t)
Spec == Init /\ [][Next]_vars
=============================================================================
