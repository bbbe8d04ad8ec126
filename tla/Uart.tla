-------------------------------- MODULE Uart ---------------------------------
(***************************************************************************)
(* The uart.c of the boards: soft rings between tasks and the interrupt    *)
(* handler, and the event flag both sides wait on.  The boards differ in   *)
(* what their hardware latches: "pl011" (qemu-a53, qemu-m3), "cadence"     *)
(* (kria-k26), "usart" (stm32l100); "stdin" is linux-user, which has no    *)
(* ring for output.  An interrupt is one step, and so is a critical        *)
(* section; tasks interleave between them in any way.                      *)
(***************************************************************************)
EXTENDS SequencesExt, Integers, FiniteSets

CONSTANTS
  User,              \* the tasks that use the line
  Uses,              \* functions from User to what each may call, "put", "get"
  Board,
  UART_FIFO_SIZE,    \* of the soft rings
  HW_FIFO,           \* board -> size of the hardware's FIFOs
  NoByte,            \* what a slot of a ring has at first
  MaxOut, MaxIn      \* bound: characters written, bytes that arrive (one if none is read)

ASSUME UartAssumption ==
  /\ UART_FIFO_SIZE \in Nat \ {0} /\ MaxOut \in Nat /\ MaxIn \in Nat
  /\ Board \subseteq {"pl011", "cadence", "usart", "stdin"}
  /\ \A b \in Board : HW_FIFO[b] \in 1..UART_FIFO_SIZE
  /\ Uses \subseteq [User -> SUBSET {"put", "get"}]

VARIABLES
  board, uses,       \* chosen at first
  rx, tx,            \* the rings
  hw,                \* [rx, tx: the FIFOs, stat: "transmit" is latched, ie: it interrupts]
  ready,             \* uart_ready
  flg,               \* UART_FLG_ID: [ptn, wait], wait: who waits for what
  io,                \* user -> its call: [at, todo]
  wrote, came        \* counters

uartvars == <<board, uses, rx, tx, hw, ready, flg, io, wrote, came>>

RX == "RX"
TX == "TX"
Empty == [buf |-> [i \in 0..(UART_FIFO_SIZE - 1) |-> NoByte], head |-> 0, tail |-> 0, count |-> 0]
Full(r) == r.count >= UART_FIFO_SIZE

(* The bytes of s, one after the other, as far as there is room.           *)
push(r, s) ==
  LET room == UART_FIFO_SIZE - r.count
      n == IF Len(s) < room THEN Len(s) ELSE room
      nth(i) == ((i + UART_FIFO_SIZE - r.head) % UART_FIFO_SIZE) + 1
  IN  [buf |-> [i \in DOMAIN r.buf |-> IF nth(i) <= n THEN s[nth(i)] ELSE r.buf[i]],
       head |-> (r.head + n) % UART_FIFO_SIZE, tail |-> r.tail, count |-> r.count + n]
pop(r, n) == [r EXCEPT !.tail = (@ + n) % UART_FIFO_SIZE, !.count = @ - n]
rx_push(s) == push(rx, s)
rx_pop == pop(rx, 1)
tx_push(b) == push(tx, <<b>>)
tx_pop(r, n) == pop(r, n)
Content(r) == [i \in 1..r.count |-> r.buf[(r.tail + i - 1) % UART_FIFO_SIZE]]

Depth == HW_FIFO[board]
TxRoom == Depth - Len(hw.tx)

(* Faulty: a byte is taken from the ring before there is room for it. *)
uart_tx_kick_PopsFirst(ring, h) ==
  LET n == IF ring.count < TxRoom THEN ring.count ELSE TxRoom
      popped == IF ring.count > n THEN n + 1 ELSE n
  IN  [ring |-> tx_pop(ring, popped),
       hw   |-> [h EXCEPT !.tx = @ \o SubSeq(Content(ring), 1, n), !.ie = ring.count > popped]]

(* The ring goes into the FIFO as far as there is room; the transmit       *)
(* interrupt is on while the ring has more.                                *)
uart_tx_kick(ring, h) ==
  LET n == IF ring.count < TxRoom THEN ring.count ELSE TxRoom
  IN  [ring |-> tx_pop(ring, n),
       hw   |-> [h EXCEPT !.tx = @ \o SubSeq(Content(ring), 1, n), !.ie = ring.count > n]]

(* iset_flg and twai_flg for a flag with TA_CLR | TA_WMUL: the first user  *)
(* in the queue whose bit is there is released and takes all bits with it. *)
iset_flg(set) ==
  LET ptn == flg.ptn \union set
      woken == {n \in DOMAIN flg.wait : flg.wait[n].bit \in ptn}
      first == CHOOSE n \in woken : \A m \in woken : n <= m
  IN  IF woken = {} THEN flg' = [flg EXCEPT !.ptn = ptn] /\ UNCHANGED io
      ELSE /\ flg' = [ptn |-> {}, wait |-> RemoveAt(flg.wait, first)]
           /\ io' = [io EXCEPT ![flg.wait[first].user].at = "try"]

(* Faulty: the wait begins though the bit is already there. *)
twai_flg_NoTest(u, bit) ==
  /\ flg' = [flg EXCEPT !.wait = Append(@, [user |-> u, bit |-> bit])]
  /\ io' = [io EXCEPT ![u].at = "blocked"]

twai_flg(u, bit) ==
  IF bit \in flg.ptn
  THEN flg' = [flg EXCEPT !.ptn = {}] /\ io' = [io EXCEPT ![u].at = "try"]
  ELSE /\ flg' = [flg EXCEPT !.wait = Append(@, [user |-> u, bit |-> bit])]
       /\ io' = [io EXCEPT ![u].at = "blocked"]

Idle == [at |-> "idle", todo |-> <<>>]
UartInit ==
  /\ board \in Board /\ uses \in Uses
  /\ rx = Empty /\ tx = Empty
  /\ hw = [rx |-> <<>>, tx |-> <<>>, stat |-> FALSE, ie |-> FALSE]
  /\ ready = FALSE
  /\ flg = [ptn |-> {}, wait |-> <<>>]
  /\ io = [u \in User |-> Idle]
  /\ wrote = 0 /\ came = 0

(* Before uart_init only the boards that set up the registers on demand    *)
(* print, and receive.                                                     *)
SetUp == ready \/ board \in {"pl011", "usart"}

(* uart_init empties the rings, creates the flag with TX set, turns the    *)
(* receive interrupt on.  "cadence" resets its FIFOs.                      *)
uart_init ==
  /\ ~ready /\ ready' = TRUE
  /\ \A u \in User : io[u] = Idle
  /\ rx' = Empty /\ tx' = Empty
  /\ flg' = [ptn |-> {TX}, wait |-> <<>>]
  /\ hw' = IF board = "cadence" THEN [hw EXCEPT !.rx = <<>>, !.tx = <<>>, !.stat = FALSE] ELSE hw
  /\ UNCHANGED <<board, uses, io, wrote, came>>

------------------------------------------------------------------------------
(* uart_putc: a newline is preceded by a carriage return.                  *)
uart_putc(u) ==
  /\ io[u].at = "idle" /\ "put" \in uses[u] /\ wrote < MaxOut
  /\ SetUp
  /\ \E todo \in {<<"x">>, <<"cr", "nl">>} : io' = [io EXCEPT ![u] = [at |-> "try", todo |-> todo]]
  /\ wrote' = wrote + 1
  /\ UNCHANGED <<board, uses, rx, tx, hw, ready, flg, came>>

Byte(u) == <<u, Head(io[u].todo)>>
Putting(u) == io[u].at = "try" /\ io[u].todo /= <<>>
ByteDone(u) ==
  LET left == Tail(io[u].todo)
  IN  io' = [io EXCEPT ![u] = IF left = <<>> THEN Idle ELSE [at |-> "try", todo |-> left]]

(* Not ready: polled.                                                      *)
putc_polled(u) ==
  /\ Putting(u) /\ ~ready /\ TxRoom > 0
  /\ hw' = [hw EXCEPT !.tx = Append(@, Byte(u))]
  /\ ByteDone(u)
  /\ UNCHANGED <<board, uses, rx, tx, ready, flg, wrote, came>>

(* linux-user writes until write() takes the byte.                         *)
putc_write(u) ==
  /\ Putting(u) /\ ready /\ board = "stdin" /\ TxRoom > 0
  /\ hw' = [hw EXCEPT !.tx = Append(@, Byte(u))]
  /\ ByteDone(u)
  /\ UNCHANGED <<board, uses, rx, tx, ready, flg, wrote, came>>

(* Into the ring, in a critical section; else wait for TX.                 *)
putc_ring(u) ==
  /\ Putting(u) /\ ready /\ board /= "stdin"
  /\ IF Full(tx)
     THEN io' = [io EXCEPT ![u].at = "wait"] /\ UNCHANGED <<tx, hw>>
     ELSE LET k == uart_tx_kick(tx_push(Byte(u)), hw)
          IN  tx' = k.ring /\ hw' = k.hw /\ ByteDone(u)
  /\ UNCHANGED <<board, uses, rx, ready, flg, wrote, came>>
putc_wait(u) ==
  /\ io[u].at = "wait" /\ io[u].todo /= <<>>
  /\ twai_flg(u, TX)
  /\ UNCHANGED <<board, uses, rx, tx, hw, ready, wrote, came>>

uart_getc(u) ==
  /\ ready /\ io[u].at = "idle" /\ "get" \in uses[u]
  /\ io' = [io EXCEPT ![u].at = "try"]
  /\ UNCHANGED <<board, uses, rx, tx, hw, ready, flg, wrote, came>>

Getting(u, at) == io[u].at = at /\ io[u].todo = <<>>
getc_ring(u) ==
  /\ Getting(u, "try")
  /\ IF rx.count = 0
     THEN io' = [io EXCEPT ![u].at = "wait"] /\ UNCHANGED rx
     ELSE rx' = rx_pop /\ io' = [io EXCEPT ![u] = Idle]
  /\ UNCHANGED <<board, uses, tx, hw, ready, flg, wrote, came>>
getc_wait(u) ==
  /\ Getting(u, "wait")
  /\ twai_flg(u, RX)
  /\ UNCHANGED <<board, uses, rx, tx, hw, ready, wrote, came>>

------------------------------------------------------------------------------
(* The hardware.  A byte that finds the FIFO full is lost; linux's         *)
(* terminal holds it back instead.                                         *)
hw_arrive ==
  /\ SetUp /\ came' = came + 1
  /\ came < IF \E u \in User : "get" \in uses[u] THEN MaxIn ELSE 1
  /\ board = "stdin" => Len(hw.rx) < Depth
  /\ hw' = IF Len(hw.rx) < Depth THEN [hw EXCEPT !.rx = Append(@, came + 1)] ELSE hw
  /\ UNCHANGED <<board, uses, rx, tx, ready, flg, io, wrote>>

(* pl011 latches when the FIFO falls to half, cadence when it is empty.    *)
hw_send ==
  /\ hw.tx /= <<>>
  /\ LET left == Tail(hw.tx)
         stat == \/ hw.stat
                 \/ board = "pl011" /\ Len(left) = Depth \div 2
                 \/ board = "cadence" /\ left = <<>>
     IN  hw' = [hw EXCEPT !.tx = left, !.stat = stat]
  /\ UNCHANGED <<board, uses, rx, tx, ready, flg, io, wrote, came>>

(* uart_irq, by what the board reads: drain the receive FIFO, then kick.   *)
Drained == rx_push(hw.rx)
Handle(reads, kicks, h) ==
  LET r == IF reads THEN Drained ELSE rx
      k == IF kicks THEN uart_tx_kick(tx, h) ELSE [ring |-> tx, hw |-> h]
      set == (IF reads /\ r.count > 0 THEN {RX} ELSE {})
             \union (IF kicks /\ ~Full(k.ring) THEN {TX} ELSE {})
  IN  /\ rx' = r /\ tx' = k.ring
      /\ hw' = [k.hw EXCEPT !.rx = IF reads THEN <<>> ELSE @]
      /\ IF set = {} THEN UNCHANGED <<flg, io>> ELSE iset_flg(set)
      /\ UNCHANGED <<board, uses, ready, wrote, came>>

HasByte == hw.rx /= <<>>

(* The masked status tells why; both are cleared.                          *)
pl011_irq ==
  /\ ready /\ board = "pl011" /\ (HasByte \/ (hw.stat /\ hw.ie))
  /\ LET kicks == hw.stat /\ hw.ie
     IN  Handle(HasByte, kicks, IF kicks THEN [hw EXCEPT !.stat = FALSE] ELSE hw)

(* The raw status: transmit is served though it does not interrupt.        *)
cadence_irq ==
  /\ ready /\ board = "cadence" /\ (HasByte \/ (hw.stat /\ hw.ie))
  /\ Handle(HasByte, hw.stat, [hw EXCEPT !.stat = FALSE])

(* The status is the data register's: empty or not.                        *)
usart_irq ==
  /\ ready /\ board = "usart" /\ (HasByte \/ (hw.tx = <<>> /\ hw.ie))
  /\ Handle(HasByte, hw.tx = <<>>, hw)

(* uart_poll_rx: the signal comes with input.                              *)
uart_poll_rx ==
  /\ ready /\ board = "stdin" /\ HasByte
  /\ rx' = Drained /\ hw' = [hw EXCEPT !.rx = <<>>]
  /\ iset_flg({RX})
  /\ UNCHANGED <<board, uses, tx, ready, wrote, came>>
uart_irq == pl011_irq \/ cadence_irq \/ usart_irq \/ uart_poll_rx

UserStep(u) ==
  \/ uart_putc(u) \/ putc_polled(u) \/ putc_write(u) \/ putc_ring(u) \/ putc_wait(u)
  \/ uart_getc(u) \/ getc_ring(u) \/ getc_wait(u)
UartNext == uart_init \/ hw_arrive \/ hw_send \/ uart_irq \/ \E u \in User : UserStep(u)

------------------------------------------------------------------------------
RingOK(r) ==
  r.count \in 0..UART_FIFO_SIZE /\ r.head = (r.tail + r.count) % UART_FIFO_SIZE

(* The counts and indices of the rings, which the handler and the tasks    *)
(* both write, stay those of a ring; a user waits at most once.            *)
TypeOK ==
  /\ RingOK(rx) /\ RingOK(tx)
  /\ Len(hw.rx) <= Depth /\ Len(hw.tx) <= Depth
  /\ \A u \in User : Cardinality({n \in DOMAIN flg.wait : flg.wait[n].user = u})
                      = (IF io[u].at = "blocked" THEN 1 ELSE 0)

(* Tasks, handler and hardware pass bytes on in order, through both rings  *)
(* and both FIFOs: nothing is sent twice or overwritten, and input is lost *)
(* only at a full ring or a full FIFO.                                     *)
Line == INSTANCE DuplexLine WITH
  out <- hw.tx \o Content(tx), in <- Content(rx) \o hw.rx, room <- Depth,
  offered <- [u \in User |-> [i \in DOMAIN io[u].todo |-> <<u, io[u].todo[i]>>]],
  Writer <- User, OutData <- User \X {"x", "cr", "nl"}, InData <- 1..MaxIn, MayRefuse <- FALSE
LineSpec == Line!Spec

(* "TX IRQ only while soft TX non-empty": the interrupt that moves the     *)
(* ring on is never off while it has bytes; all of them go out.            *)
OutputDrains == []<>(hw.tx \o Content(tx) = <<>>)

(* One user's reads and writes share a flag whose wait takes every bit.    *)
(* With nobody else on the line each putc returns, and getc does not sleep *)
(* on input that is there.                                                 *)
Alone == \A u, v \in User : uses[u] /= {} /\ uses[v] /= {} => u = v
PutcReturns == []<>~(Alone /\ \E u \in User : io[u].todo /= <<>>)
GetcAwake == Alone => \A u \in User : Getting(u, "blocked") => rx.count = 0

(* The same of two users at once, which does not hold.                     *)
TwoUsersServed == \A u \in User : Putting(u) ~> io[u].at = "idle"

(* The uart carries every byte in order, both ways, and does not keep what *)
(* is to go out; a task alone on it returns from its calls.                *)
LineServed == LineSpec /\ OutputDrains /\ PutcReturns
=============================================================================
