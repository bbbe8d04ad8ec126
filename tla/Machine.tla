------------------------------- MODULE Machine --------------------------------
(***************************************************************************)
(* What is below the kernel's services on a machine: the port that         *)
(* switches tasks and takes interrupts (module Port), or the uart that     *)
(* tasks and its interrupt handler share (module Uart).  A behaviour is    *)
(* about one of them.                                                      *)
(***************************************************************************)
EXTENDS Uart, Port, TLC

vars == <<uartvars, portvars>>

AnyOf(S) == CHOOSE x \in S : TRUE
Init ==
  /\ UartInit /\ PortInit
  /\ IF port = NoPort THEN state[AnyOf(Task)] = "ready"
     ELSE board = AnyOf(Board) /\ uses = AnyOf(Uses)

OfUart(A) == port = NoPort /\ A /\ UNCHANGED portvars
OfPort(A) == port /= NoPort /\ A /\ UNCHANGED uartvars
Next == OfUart(UartNext) \/ OfPort(PortNext)

(* The line sends what it has, the interrupt is taken, each user runs on.  *)
UartFair ==
  /\ WF_vars(OfUart(uart_init)) /\ WF_vars(OfUart(hw_send)) /\ WF_vars(OfUart(uart_irq))
  /\ \A u \in User : WF_vars(OfUart(UserStep(u)))

(* The timer ticks on, handlers end, and between interrupts the processor  *)
(* gets on with a service call, a switch or the idle loop.  Nothing is     *)
(* assumed of a task in its own code.                                      *)
PortFair ==
  /\ SF_vars(OfPort(irq_entry("tick")))
  /\ WF_vars(OfPort(Handler)) /\ SF_vars(OfPort(Handler /\ Len(irq) = 1))
  /\ SF_vars(OfPort(Progress))

Spec == Init /\ [][Next]_vars /\ UartFair /\ PortFair

(* Rings and flags of the uart agree with who waits; below the tasks, what *)
(* a handler ends is a wait, and what was left for good is not returned to.*)
MachineOK == TypeOK /\ GetcAwake /\ NeverReturns /\ DueIsWaiting

-----------------------------------------------------------------------------
(* Instances for TLC: the shell alone reads and writes, or two tasks       *)
(* write.  The rings hold more than the FIFOs, as on the boards.           *)
CONSTANTS shell, other

ShellAlone == (shell :> {"put", "get"}) @@ (other :> {})
TwoWriters == (shell :> {"put"}) @@ (other :> {"put"})
Listed == {ShellAlone, TwoWriters}
Writers == {TwoWriters}
MaskedAlone == {<<"uart", "tick">>}
UartAbove == {<<"tick", "uart">>}
Fifos == [pl011 |-> 1, cadence |-> 1, usart |-> 1, stdin |-> 1]
=============================================================================
