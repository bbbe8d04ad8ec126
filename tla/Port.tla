--------------------------------- MODULE Port ---------------------------------
(***************************************************************************)
(* How the ports (cpu_support.c of config) switch between tasks, interrupt *)
(* handlers and the idle loop, and the timer handler of kernel/timer.c on  *)
(* its linked list, at the grain of what an interrupt can come between.    *)
(*   cortex-a53, cortex-m3   handlers run masked, the end of one switches  *)
(*                           (cortex-m3: through PendSV)                   *)
(*   linux-user              signals; the end of a handler never switches  *)
(*   m16c62, tms320c54x      handlers run with interrupts on and nest      *)
(* Of the kernel there is what it asks of a port: critical sections, in    *)
(* which a task waits, releases another or ends, and dispatch().           *)
(***************************************************************************)
EXTENDS SequencesExt, Integers

CONSTANTS
  Task,          \* the task's number is its priority, 1 the highest
  NoTask,
  IdleLoop, Nobody,  \* who executes: the idle loop; main(), or a task that ended
  Ports, NoPort, \* the ports looked at
  Nest,          \* <<v, w>>: interrupt w has a higher priority than v
  Tmo,           \* timeouts of timed waits
  COUNTS,        \* the number of values of a timer event's count
  LoneExit       \* linux-user, tms320c54x: may a task end when no other is ready?

Vec == {"tick", "uart"}

ASSUME PortAssumption ==
  /\ Task \subseteq Nat \ {0} /\ NoTask \notin Task
  /\ IdleLoop \notin Task /\ Nobody \notin Task \union {IdleLoop}
  /\ NoPort \notin Ports /\ COUNTS \in Nat
  /\ Ports \subseteq {"cortex-a53", "cortex-m3", "linux-user", "m16c62", "tms320c54x"}
  /\ Nest \subseteq Vec \X Vec /\ Tmo \subseteq 1..(COUNTS - 1) /\ LoneExit \in BOOLEAN

VARIABLES
  port,
  state,         \* of each task: "none", "ready", "wait"
  runtsk,
  ctx,           \* the context saved for each task: where it is, masked or not
  run,           \* what is on the processor below the handlers: [who, at]
  mask,          \* are interrupts masked?
  irq,           \* the handlers in progress, the innermost last
  pendsv,        \* cortex-m3: PendSV is pending
  int_nesting,
  timer_nesting,
  queue,         \* timer_queue: [next, prev] of its head, 0, and of each wtmeb
  count          \* of each wtmeb

portvars == <<port, state, runtsk, ctx, run, mask, irq, pendsv, int_nesting,
              timer_nesting, queue, count>>

Ready == {t \in Task : state[t] = "ready"}
schedtsk == IF Ready = {} THEN NoTask ELSE CHOOSE t \in Ready : \A u \in Ready : t <= u
Is(p) == port = p
Nests == port \in {"m16c62", "tms320c54x"}

------------------------------------------------------------------------------
(* kqueue.h on the timer's nodes.  A node that is taken out keeps its      *)
(* links, and one that was never in has itself for neighbour.              *)
QHead == 0
kqueue_insert(q, e) ==
  LET last == q.prev[QHead]
  IN  [next |-> [q.next EXCEPT ![e] = QHead, ![last] = e],
       prev |-> [q.prev EXCEPT ![e] = last, ![QHead] = e]]
kqueue_remove(q, e) ==
  IF q.next[e] = e THEN q
  ELSE [next |-> [q.next EXCEPT ![q.prev[e]] = q.next[e]],
        prev |-> [q.prev EXCEPT ![q.next[e]] = q.prev[e]]]

(* wait_release, or _act_tsk of a dormant task (make_task_context).        *)
Fresh == [at |-> "user", mask |-> FALSE]
Popped == [at |-> "popped", mask |-> FALSE]    \* resumed: of no more use
(* Faulty: the timer event of the wait is left in the queue. *)
release_KeepsTimer(x) ==
  /\ state[x] \in {"wait", "none"}
  /\ state' = [state EXCEPT ![x] = "ready"]
  /\ ctx' = IF state[x] = "none" THEN [ctx EXCEPT ![x] = Fresh] ELSE ctx
  /\ UNCHANGED <<queue, count>>
release(x) ==
  /\ state[x] \in {"wait", "none"}
  /\ state' = [state EXCEPT ![x] = "ready"]
  /\ ctx' = IF state[x] = "none" THEN [ctx EXCEPT ![x] = Fresh] ELSE ctx
  /\ queue' = IF state[x] = "wait" THEN kqueue_remove(queue, x) ELSE queue
  /\ UNCHANGED count

------------------------------------------------------------------------------
(* Going on with the context saved for schedtsk, or with the idle loop.    *)
(* saved is ctx with what this switch saved.  tms320c54x calls idling an   *)
(* interrupt, and leaves the count so when it goes on with a task.         *)
IdleStart == CASE Is("linux-user") -> "test"
               [] Is("m16c62")     -> "spin"
               [] OTHER            -> "loop"
switch(saved, nesting) ==
  /\ runtsk' = schedtsk
  /\ IF schedtsk = NoTask
     THEN run' = [who |-> IdleLoop, at |-> IdleStart] /\ mask' = FALSE /\ ctx' = saved
     ELSE /\ run' = [who |-> schedtsk, at |-> saved[schedtsk].at]
          /\ mask' = saved[schedtsk].mask
          /\ ctx' = [saved EXCEPT ![schedtsk] = Popped]
  /\ int_nesting' = IF schedtsk = NoTask /\ Is("tms320c54x") THEN 1 ELSE nesting

Save(at, m) ==
  IF runtsk = NoTask THEN ctx ELSE [ctx EXCEPT ![runtsk] = [at |-> at, mask |-> m]]

(* port is NoPort in behaviours that are about the uart alone.             *)
PortInit ==
  /\ port \in Ports \union {NoPort}
  /\ \E t \in Task : state = [x \in Task |-> IF x = t THEN "ready" ELSE "none"]
  /\ runtsk = NoTask
  /\ ctx = [t \in Task |-> IF state[t] = "ready" THEN Fresh ELSE Popped]
  /\ run = [who |-> Nobody, at |-> "out"] /\ mask = (port = "linux-user")
  /\ irq = <<>> /\ pendsv = FALSE
  /\ int_nesting = 0 /\ timer_nesting = 0
  /\ queue = [next |-> [n \in Task \union {QHead} |-> n], prev |-> [n \in Task \union {QHead} |-> n]]
  /\ count = [t \in Task |-> 0]

------------------------------------------------------------------------------
(* The tasks.  A pending PendSV goes first as soon as it is not masked.    *)
Executes(t, at) ==
  irq = <<>> /\ run.who = t /\ run.at = at /\ ~(pendsv /\ ~mask)
hardware == <<port, irq>>
timer == <<timer_nesting, queue, count>>

call(t) ==
  /\ Executes(t, "user")
  /\ run' = [run EXCEPT !.at = "cs"] /\ mask' = TRUE
  /\ UNCHANGED <<hardware, timer, state, runtsk, ctx, pendsv, int_nesting>>

(* make_wait of runtsk.  The calls of eventflags.c and mailbox.c dispatch  *)
(* inside the critical section, the others behind it.                      *)
waits(t) ==
  /\ Executes(t, "cs")
  /\ state' = [state EXCEPT ![runtsk] = "wait"]
  /\ \/ \E tmo \in Tmo : /\ queue' = kqueue_insert(queue, runtsk)
                         /\ count' = [count EXCEPT ![runtsk] = tmo]
     \/ /\ queue' = [next |-> [queue.next EXCEPT ![runtsk] = runtsk],
                     prev |-> [queue.prev EXCEPT ![runtsk] = runtsk]]
        /\ UNCHANGED count
  /\ \E at \in {"in", "out"} : run' = [run EXCEPT !.at = at] /\ mask' = (at = "in")
  /\ UNCHANGED <<hardware, runtsk, ctx, pendsv, int_nesting, timer_nesting>>

releases(t) ==
  /\ Executes(t, "cs")
  /\ \E x \in Task : release(x)
  /\ run' = [run EXCEPT !.at = "out"] /\ mask' = FALSE
  /\ UNCHANGED <<hardware, runtsk, pendsv, int_nesting, timer_nesting>>

changes_nothing(t) ==
  /\ Executes(t, "cs")
  /\ run' = [run EXCEPT !.at = "out"] /\ mask' = FALSE
  /\ UNCHANGED <<hardware, timer, state, runtsk, ctx, pendsv, int_nesting>>

ext_tsk(t) ==
  /\ Executes(t, "cs")
  /\ port \in {"linux-user", "tms320c54x"} => LoneExit \/ Ready /= {runtsk}
  /\ state' = [state EXCEPT ![runtsk] = "none"]
  /\ runtsk' = NoTask
  /\ run' = [who |-> Nobody, at |-> "out"] /\ mask' = FALSE
  /\ UNCHANGED <<hardware, timer, ctx, pendsv, int_nesting>>

(* Where the task is behind its dispatch().  ext_tsk has nothing there.    *)
After == IF run.who = Nobody THEN "returned" ELSE IF run.at = "in" THEN "back" ELSE "ret"

(* Faulty: a task that ended is not told from one that goes on. *)
dispatch_a53_Same ==
  IF runtsk = schedtsk
  THEN run' = [run EXCEPT !.at = After] /\ UNCHANGED <<ctx, runtsk, mask, int_nesting>>
  ELSE switch(Save(After, FALSE), int_nesting)

(* The saved SPSR has interrupts enabled, though the caller may be in a    *)
(* critical section.                                                       *)
dispatch_a53 == switch(Save(After, FALSE), int_nesting)
(* RETE enables interrupts as well, whether it switched or not.            *)
dispatch_c54 ==
  IF runtsk = schedtsk
  THEN run' = [run EXCEPT !.at = After] /\ mask' = FALSE /\ UNCHANGED <<ctx, runtsk, int_nesting>>
  ELSE switch(Save(After, FALSE), int_nesting)
dispatch_m16c62 == switch(Save(After, mask), int_nesting)

(* swapcontext keeps the mask; nothing is done when nothing changes, and   *)
(* that is so as well when the last task has just ended.                   *)
dispatch_linux ==
  IF int_nesting /= 0 \/ runtsk = schedtsk
  THEN run' = [run EXCEPT !.at = After] /\ UNCHANGED <<ctx, runtsk, mask, int_nesting>>
  ELSE switch(Save(After, mask), int_nesting)

dispatch_m3 ==
  run' = [run EXCEPT !.at = After] /\ UNCHANGED <<ctx, runtsk, mask, int_nesting>>

dispatch(t) ==
  /\ Executes(t, "in") \/ Executes(t, "out")
  /\ CASE Is("linux-user") -> dispatch_linux
       [] Is("cortex-m3")  -> dispatch_m3
       [] Is("m16c62")     -> dispatch_m16c62
       [] Is("tms320c54x") -> dispatch_c54
       [] OTHER            -> dispatch_a53
  /\ pendsv' = Is("cortex-m3")
  /\ UNCHANGED <<hardware, timer, state>>

(* PendSV_Handler, the last of all exceptions.                             *)
PendSV_Handler ==
  /\ pendsv /\ ~mask /\ irq = <<>>
  /\ pendsv' = FALSE
  /\ switch(Save(run.at, FALSE), int_nesting)
  /\ UNCHANGED <<hardware, timer, state>>

end_section(t) ==
  /\ Executes(t, "back")
  /\ run' = [run EXCEPT !.at = "ret"] /\ mask' = FALSE
  /\ UNCHANGED <<hardware, timer, state, runtsk, ctx, pendsv, int_nesting>>

returns(t) ==
  /\ Executes(t, "ret")
  /\ run' = [run EXCEPT !.at = "user"]
  /\ UNCHANGED <<hardware, timer, state, runtsk, ctx, mask, pendsv, int_nesting>>

------------------------------------------------------------------------------
(* The idle loop: it sleeps, is woken by an interrupt, and looks again.    *)
idle_test ==
  /\ Executes(IdleLoop, "test")
  /\ IF schedtsk = NoTask THEN run' = [run EXCEPT !.at = "loop"] /\ UNCHANGED mask
     ELSE run' = [run EXCEPT !.at = "lock"] /\ mask' = TRUE
  /\ UNCHANGED <<hardware, timer, state, runtsk, ctx, pendsv, int_nesting>>
(* wfi, or pause(), which a signal that has just been does not end.        *)
idle_sleep ==
  /\ Executes(IdleLoop, "loop")
  /\ run' = [run EXCEPT !.at = "sleep"]
  /\ UNCHANGED <<hardware, timer, state, runtsk, ctx, mask, pendsv, int_nesting>>
idle_lock ==
  /\ Executes(IdleLoop, "lock")
  /\ switch(ctx, int_nesting)
  /\ UNCHANGED <<hardware, timer, state, pendsv>>
Woken == IF run = [who |-> IdleLoop, at |-> "sleep"]
         THEN [run EXCEPT !.at = IF Is("cortex-m3") THEN "loop" ELSE "test"] ELSE run

------------------------------------------------------------------------------
(* Interrupts: one comes, or has been held back, whenever none is masked.   *)
Interrupted == IF irq = <<>> THEN run.at ELSE "handler"
Frame(v) == [vec |-> v, at |-> IF v = "tick" THEN "read" ELSE "run", event |-> QHead]
(* Faulty: a nested handler's entry saves over the task's context. *)
irq_entry_Always(v) ==
  /\ ~mask
  /\ irq /= <<>> => <<Last(irq).vec, v>> \in Nest
  /\ ctx' = IF port \in {"cortex-a53"} \/ Nests THEN Save(Interrupted, FALSE) ELSE ctx
  /\ int_nesting' = int_nesting + 1
  /\ irq' = Append(irq, Frame(v))
  /\ mask' = ~Nests
  /\ run' = Woken
  /\ UNCHANGED <<port, state, runtsk, pendsv, timer>>

(* The context is saved for runtsk unless a handler was interrupted.       *)
irq_entry(v) ==
  /\ ~mask
  /\ irq /= <<>> => <<Last(irq).vec, v>> \in Nest
  /\ ctx' = IF (Is("cortex-a53") \/ Nests) /\ int_nesting = 0 THEN Save(Interrupted, FALSE) ELSE ctx
  /\ int_nesting' = int_nesting + 1
  /\ irq' = Append(irq, Frame(v))
  /\ mask' = ~Nests
  /\ run' = Woken
  /\ UNCHANGED <<port, state, runtsk, pendsv, timer>>

Handles(at) == irq /= <<>> /\ Last(irq).at = at
Event == Last(irq).event
Goes(f) == irq' = Append(Front(irq), f)
GoesTo(at) == Goes([Last(irq) EXCEPT !.at = at])
Rest == <<port, runtsk, run, pendsv, int_nesting>>

(* A handler that releases or activates a task, or does neither.           *)
uart_handler ==
  /\ Handles("run")
  /\ GoesTo("done")
  /\ \/ \E x \in Task : release(x)
     \/ UNCHANGED <<state, ctx, queue, count>>
  /\ UNCHANGED <<Rest, mask, timer_nesting>>

(* timer_handler: the first event is read before the nesting test.         *)
timer_read ==
  /\ Handles("read")
  /\ Goes([Last(irq) EXCEPT !.at = "enter", !.event = queue.next[QHead]])
  /\ UNCHANGED <<Rest, mask, state, ctx, timer>>
timer_hw_enter ==
  /\ Handles("enter")
  /\ IF timer_nesting /= 0 THEN GoesTo("done") /\ UNCHANGED mask
     ELSE GoesTo("walk") /\ mask' = TRUE
  /\ timer_nesting' = CASE Is("tms320c54x") -> 0
                        [] Is("m16c62")     -> 1
                        [] OTHER            -> timer_nesting + 1
  /\ UNCHANGED <<Rest, state, ctx, queue, count>>

(* One turn of the loop, in the critical section: wait_release_tmout.      *)
Due == Event /= QHead /\ count[Event] = 1
timer_walk ==
  /\ Handles("walk") /\ Event /= QHead
  /\ count' = [count EXCEPT ![Event] = (@ + COUNTS - 1) % COUNTS]
  /\ IF Due
     THEN /\ queue' = kqueue_remove(queue, Event)
          /\ state' = [state EXCEPT ![Event] = "ready"]
     ELSE UNCHANGED <<queue, state>>
  /\ Goes([Last(irq) EXCEPT !.event = queue.next[Event]])
  /\ UNCHANGED <<Rest, mask, ctx, timer_nesting>>

(* timer_hw_exit.  On linux-user the uart is polled after every tick.      *)
timer_exit ==
  /\ Handles("walk") /\ Event = QHead
  /\ timer_nesting' = IF timer_nesting = 0 THEN 0 ELSE timer_nesting - 1
  /\ mask' = ~Nests
  /\ GoesTo(IF Is("linux-user") THEN "run" ELSE "done")
  /\ UNCHANGED <<Rest, state, ctx, queue, count>>

(* Faulty: the end of a handler does not ask for the switch. *)
irq_return_m3_NoSwitch ==
  pendsv' = pendsv /\ mask' = FALSE /\ UNCHANGED <<ctx, run, runtsk>> /\ int_nesting' = int_nesting - 1
irq_return_m3 ==
  /\ pendsv' = (pendsv \/ schedtsk /= runtsk) /\ mask' = FALSE
  /\ int_nesting' = int_nesting - 1
  /\ UNCHANGED <<ctx, run, runtsk>>

(* A handler that interrupted a handler returns to it.                     *)
irq_return_nested ==
  /\ mask' = FALSE /\ int_nesting' = int_nesting - 1
  /\ UNCHANGED <<ctx, run, runtsk, pendsv>>

(* Faulty: the interrupted task goes on. *)
irq_return_a53_NoSwitch ==
  mask' = FALSE /\ UNCHANGED <<ctx, run, runtsk, pendsv>> /\ int_nesting' = int_nesting - 1
irq_return_a53 ==
  /\ UNCHANGED pendsv
  /\ IF schedtsk /= runtsk THEN switch(ctx, int_nesting - 1)
     ELSE /\ ctx' = IF runtsk = NoTask THEN ctx ELSE [ctx EXCEPT ![runtsk] = Popped]
          /\ mask' = FALSE /\ int_nesting' = int_nesting - 1 /\ UNCHANGED <<run, runtsk>>

irq_exit ==
  /\ Handles("done")
  /\ irq' = Front(irq)
  /\ CASE Is("cortex-m3")  -> irq_return_m3
       [] Is("linux-user") -> irq_return_nested
       [] Is("cortex-a53") -> irq_return_a53
       [] OTHER            -> IF int_nesting > 1 THEN irq_return_nested
                              ELSE switch(ctx, int_nesting - 1) /\ UNCHANGED pendsv
  /\ UNCHANGED <<port, state, timer>>

------------------------------------------------------------------------------
InCall(t) ==
  \/ waits(t) \/ releases(t) \/ changes_nothing(t) \/ ext_tsk(t)
  \/ dispatch(t) \/ end_section(t) \/ returns(t)
Idles == idle_test \/ idle_sleep \/ idle_lock
Handler ==
  uart_handler \/ timer_read \/ timer_hw_enter \/ timer_walk \/ timer_exit \/ irq_exit

Progress == PendSV_Handler \/ Idles \/ \E t \in Task \union {Nobody} : InCall(t)

PortNext ==
  \/ \E v \in Vec : irq_entry(v)
  \/ Handler \/ Progress
  \/ \E t \in Task : call(t)

------------------------------------------------------------------------------
(* Whatever switches and interrupts come between, each task goes on where  *)
(* it was, undisturbed in critical sections, and returns from a wait only  *)
(* after its release: the port implements threads.                         *)
Promise == INSTANCE Threads WITH
  Thread <- Task,
  pc <- [t \in Task |-> IF run.who = t THEN run.at
                        ELSE IF state[t] = "none" THEN "none" ELSE ctx[t].at]
ThreadsSpec == Promise!Spec

(* "We never arrive here": neither main() nor ext_tsk gets back from its   *)
(* dispatch().                                                             *)
NeverReturns == ~Executes(Nobody, "returned")

(* The timer handler ends a wait only of a task that is waiting: the event *)
(* it walks to has not been taken out of the queue since it was read.      *)
DueIsWaiting == irq /= <<>> /\ Last(irq).at = "walk" /\ Due => state[Event] = "wait"

(* The idle loop ends once a task is ready, though on linux-user the       *)
(* signal that made it so may come between the test and pause().           *)
IdleWakes == []<>(run.who /= IdleLoop \/ schedtsk = NoTask)

(* Where the end of a handler switches, the highest of the ready tasks     *)
(* gets the processor, without the help of the task that has it.           *)
ChosenResumes == []<>(port \in {"linux-user", NoPort} \/ runtsk = schedtsk)

(* A ready task gets the processor, from the idle loop and from an interrupt.*)
SwitchesMade == IdleWakes /\ ChosenResumes
=============================================================================
