-------------------------------- MODULE ProcFs --------------------------------
(***************************************************************************)
(* services/proc: the files of /proc and /sys, and the tick counts they    *)
(* show.  Tasks read them while the timer interrupt goes on counting.  An  *)
(* open of /proc generates the text into memory of its own (procfs.c); one *)
(* of /sys fills a buffer all opens of that file share (sysfs.c).  A text  *)
(* is a sequence of values; digits are of base 2.                          *)
(***************************************************************************)
EXTENDS Integers, SequencesExt, FiniteSets

CONSTANTS
  Reader,         \* the tasks that read: 1..n, a lower number is a higher priority
  Opened,         \* the files that are opened
  MaxTicks,       \* bound: ticks
  TIC_DENO,       \* ticks to a second
  WRAP,           \* what the tick counters are counted modulo
  MaxOpens,       \* bound: opens of a task
  MALLOCS,        \* blocks there are for handles
  Share           \* may a file of /sys be opened while it is open

ProcFile == {"tasks", "ticks", "mem", "stat", "interrupts", "version"}
SysBuffered == {"cpu/el", "cpu/cntfrq", "cpu/midr", "cpu/mmu", "cpu/load"}
SysFile == SysBuffered \union {"net/loopback"}

ASSUME ProcFsAssumption ==
  /\ Opened \subseteq ProcFile \union SysFile
  /\ IsFiniteSet(Reader) /\ Reader = 1..Cardinality(Reader) /\ MaxTicks \in Nat /\ WRAP \in Nat \ {0}
  /\ TIC_DENO \in Nat \ {0}
  /\ MaxOpens \in Nat /\ MALLOCS \in Nat /\ Share \in BOOLEAN

VARIABLES
  tel,            \* [ticks, wall, idle, run]: telemetry.h, and the ticks there were
  tim,            \* _system_ticks: [st_high, st_low]
  ready,          \* readers that do not wait
  bufs,           \* the shared buffers of sysfs.c
  pheap,          \* blocks allocated for handles
  rd              \* a reader's call: see NewCall

procvars == <<tel, tim, ready, bufs, pheap, rd>>

BUFSZ == 6
LF == -1
NUL == -2

(* at: where in a call; name; seen: values read so far; todo: writes to    *)
(* the buffer still to do; text: of a /proc handle; len, pos: the handle's;*)
(* snap: the text as its open generated it; torn: was another read.        *)
NewCall(at, name, opens) ==
  [at |-> at, name |-> name, seen |-> <<>>, todo |-> <<>>, text |-> <<>>,
   len |-> 0, pos |-> 0, snap |-> <<>>, torn |-> FALSE, opens |-> opens]
Idle == NewCall("closed", "", 0)

ProcInit ==
  /\ tel = [ticks |-> 0, wall |-> 0, idle |-> 0, run |-> [r \in Reader |-> 0]]
  /\ tim = [st_high |-> 0, st_low |-> 0]
  /\ ready = {}
  /\ bufs = [f \in SysBuffered |-> [i \in 1..BUFSZ |-> NUL]]
  /\ pheap = 0
  /\ rd = [r \in Reader |-> Idle]

runtsk == IF ready = {} THEN {} ELSE {CHOOSE r \in ready : \A q \in ready : r <= q}
RunsAt(r, at) == r \in runtsk /\ rd[r].at = at
Sets(r, v) == rd' = [rd EXCEPT ![r] = v]
Back(r) == Sets(r, NewCall("closed", "", rd[r].opens))

------------------------------------------------------------------------------
(* timer_hw_enter: one tick more, and the second is full after TIC_DENO.   *)
timer_hw_enter ==
  LET low == tim.st_low + 1
  IN  tim' = IF low = TIC_DENO THEN [st_high |-> tim.st_high + 1, st_low |-> 0]
             ELSE [tim EXCEPT !.st_low = low]

(* timer_handler counts the tick for the task it interrupts, or as idle.   *)
(* Faulty: a tick of the lowest task counts as idle too. *)
timer_handler_Both ==
  /\ tel.ticks < MaxTicks
  /\ timer_hw_enter
  /\ tel' = [tel EXCEPT !.ticks = @ + 1, !.wall = (@ + 1) % WRAP,
               !.run = [r \in Reader |-> IF r \in runtsk THEN (@[r] + 1) % WRAP ELSE @[r]],
               !.idle = IF 1 \notin runtsk THEN (@ + 2) % WRAP ELSE @]
  /\ UNCHANGED <<ready, bufs, pheap, rd>>
timer_handler ==
  /\ tel.ticks < MaxTicks
  /\ timer_hw_enter
  /\ tel' = [tel EXCEPT !.ticks = @ + 1, !.wall = (@ + 1) % WRAP,
               !.run = [r \in Reader |-> IF r \in runtsk THEN (@[r] + 1) % WRAP ELSE @[r]],
               !.idle = IF runtsk = {} THEN (@ + 1) % WRAP ELSE @]
  /\ UNCHANGED <<ready, bufs, pheap, rd>>

(* A reader wakes at any time and waits between two of its calls.          *)
wakes(r) == r \notin ready /\ ready' = ready \union {r} /\ UNCHANGED <<tel, tim, bufs, pheap, rd>>
waits(r) ==
  /\ RunsAt(r, "closed") \/ RunsAt(r, "open")
  /\ ready' = ready \ {r}
  /\ UNCHANGED <<tel, tim, bufs, pheap, rd>>

------------------------------------------------------------------------------
(* The counters that an open reads, one at a time: gen_stat prints wall    *)
(* and idle, and idle_cpu_pct reads both again; gen_tasks calls            *)
(* task_cpu_pct for each task; fill_file reads wall after idle_cpu_pct.    *)
Reads(name) ==
  CASE name = "stat" -> <<"wall", "idle", "wall", "idle">>
    [] name = "tasks" -> [i \in 1..(2 * Cardinality(Reader)) |-> IF i % 2 = 1 THEN "wall" ELSE "run"]
    [] name = "cpu/load" -> <<"wall", "idle", "wall">>
    [] name = "ticks" -> <<"tim">>
    [] name = "interrupts" -> <<"wall">>
    [] OTHER -> <<>>
get_tim == <<tim.st_high, tim.st_low>>    \* in one critical section
Value(c, n) ==      \* of the counter c, read after n others
  CASE c = "wall" -> tel.wall [] c = "tim" -> get_tim [] c = "idle" -> tel.idle [] c = "run" -> tel.run[(n + 1) \div 2]

(* task_cpu_pct and idle_cpu_pct.                                          *)
cpu_pct(wall, n) == IF wall = 0 THEN 0 ELSE (n * 100 + wall \div 2) \div wall

u64_to_dec(v) ==
  IF v < 2 THEN <<v>> ELSE IF v < 4 THEN <<1, v % 2>> ELSE <<1, (v \div 2) % 2, v % 2>>

(* gen_file: the text made of the values seen.                             *)
Text(name, s) ==
  CASE name = "stat" -> <<s[1], s[2], cpu_pct(s[3], s[4])>>
    [] name = "tasks" -> [i \in 1..Cardinality(Reader) |-> cpu_pct(s[2 * i - 1], s[2 * i])]
    [] name = "ticks" -> s[1]
    [] name = "interrupts" -> s
    [] name = "cpu/load" -> <<cpu_pct(s[1], s[2])>> \o u64_to_dec(s[3]) \o <<LF>>
    [] name \in SysBuffered \ {"cpu/load"} -> <<1, LF>>
    [] OTHER -> <<1>>

(* fill_file: the characters of cpu/load go into load_buf one by one; the  *)
(* others are ended by u64_to_dec and then lengthened by strcat.           *)
Chars(text) == [i \in DOMAIN text |-> [i |-> i, c |-> text[i]]]
EndAt(n) == <<[i |-> n, c |-> NUL]>>
Writes(name, text) ==
  IF name = "cpu/load" THEN Chars(text) \o EndAt(Len(text) + 1)
  ELSE Front(Chars(text)) \o EndAt(Len(text)) \o <<Last(Chars(text))>> \o EndAt(Len(text) + 1)
strlen(b) == (CHOOSE i \in DOMAIN b : b[i] = NUL /\ \A j \in 1..(i - 1) : b[j] /= NUL) - 1

(* A name that is not there fails at once; other names are generated.      *)
Opening(r) == rd[r].at \in {"gen", "fill", "alloc", "open"}
open_starts(r, name) ==
  /\ RunsAt(r, "closed") /\ rd[r].opens < MaxOpens
  /\ Share \/ name \notin SysBuffered \/ \A q \in Reader : Opening(q) => rd[q].name /= name
  /\ Sets(r, NewCall("gen", name, rd[r].opens + 1))
  /\ UNCHANGED <<tel, tim, ready, bufs, pheap>>

counter_read(r) ==
  /\ RunsAt(r, "gen")
  /\ LET f == rd[r]
         want == Reads(f.name)
         seen == IF want = <<>> THEN <<>> ELSE Append(f.seen, Value(want[Len(f.seen) + 1], Len(f.seen)))
         text == Text(f.name, seen)
     IN  Sets(r, IF Len(seen) < Len(want) THEN [f EXCEPT !.seen = seen]
                 ELSE [f EXCEPT !.seen = seen, !.snap = text,
                         !.todo = IF f.name \in SysBuffered THEN Writes(f.name, text) ELSE <<>>,
                         !.at = IF f.name \in SysBuffered THEN "fill" ELSE "alloc"])
  /\ UNCHANGED <<tel, tim, ready, bufs, pheap>>

fill_file(r) ==
  /\ RunsAt(r, "fill")
  /\ LET f == rd[r]
         w == Head(f.todo)
     IN  /\ bufs' = [bufs EXCEPT ![f.name][w.i] = w.c]
         /\ Sets(r, [f EXCEPT !.todo = Tail(@), !.at = IF Len(f.todo) = 1 THEN "alloc" ELSE "fill"])
  /\ UNCHANGED <<tel, tim, ready, pheap>>

(* Faulty: without memory for its text the open keeps the handle. *)
pf_open_Keeps(r) ==
  /\ RunsAt(r, "alloc") /\ rd[r].name \in ProcFile
  /\ IF pheap + 2 <= MALLOCS
     THEN pheap' = pheap + 2 /\ Sets(r, [rd[r] EXCEPT !.at = "open", !.text = rd[r].snap, !.len = Len(rd[r].snap)])
     ELSE pheap' = MALLOCS /\ Back(r)
  /\ UNCHANGED <<tel, tim, ready, bufs>>

(* The handle and its text, both or neither.                               *)
pf_open(r) ==
  /\ RunsAt(r, "alloc") /\ rd[r].name \in ProcFile
  /\ \/ /\ pheap + 2 <= MALLOCS /\ pheap' = pheap + 2
        /\ Sets(r, [rd[r] EXCEPT !.at = "open", !.text = rd[r].snap, !.len = Len(rd[r].snap)])
     \/ /\ pheap + 2 > MALLOCS /\ UNCHANGED pheap
        /\ Back(r)
  /\ UNCHANGED <<tel, tim, ready, bufs>>
sf_open(r) ==
  /\ RunsAt(r, "alloc") /\ rd[r].name \in SysFile
  /\ LET len == IF rd[r].name \in SysBuffered THEN strlen(bufs[rd[r].name]) ELSE Len(rd[r].snap)
     IN  \/ /\ pheap + 1 <= MALLOCS /\ pheap' = pheap + 1
            /\ Sets(r, [rd[r] EXCEPT !.at = "open", !.len = len])
         \/ /\ pheap + 1 > MALLOCS /\ UNCHANGED pheap
            /\ Back(r)
  /\ UNCHANGED <<tel, tim, ready, bufs>>

------------------------------------------------------------------------------
(* What the handle f shows at position i: its own text, or the buffer as   *)
(* it is now.  Faulty: /proc shows what would be generated now.            *)
Shown_Now(f, i) ==
  IF f.name \in SysBuffered THEN bufs[f.name][i]
  ELSE IF f.name = "ticks" THEN get_tim[i]
  ELSE f.snap[i]
Shown(f, i) ==
  IF f.name \in SysBuffered THEN bufs[f.name][i]
  ELSE IF f.name \in ProcFile THEN f.text[i] ELSE f.snap[i]

(* pf_read and sf_read of n values, at most what is left.                  *)
file_read(r, n) ==
  /\ RunsAt(r, "open") /\ rd[r].pos < rd[r].len
  /\ LET f == rd[r]
         to == IF f.pos + n <= f.len THEN f.pos + n ELSE f.len
     IN  Sets(r, [f EXCEPT !.pos = to,
                    !.torn = @ \/ \E i \in (f.pos + 1)..to : i > Len(f.snap) \/ Shown(f, i) /= f.snap[i]])
  /\ UNCHANGED <<tel, tim, ready, bufs, pheap>>

(* sf_lseek to np, at most the end.                                        *)
sf_lseek(r, np) ==
  /\ RunsAt(r, "open") /\ rd[r].name \in SysFile /\ np <= rd[r].len
  /\ Sets(r, [rd[r] EXCEPT !.pos = np])
  /\ UNCHANGED <<tel, tim, ready, bufs, pheap>>

pf_close(r) ==
  /\ RunsAt(r, "open") /\ rd[r].name \in ProcFile /\ pheap' = pheap - 2
  /\ Back(r)
  /\ UNCHANGED <<tel, tim, ready, bufs>>
sf_close(r) ==
  /\ RunsAt(r, "open") /\ rd[r].name \in SysFile /\ pheap' = pheap - 1
  /\ Back(r)
  /\ UNCHANGED <<tel, tim, ready, bufs>>

------------------------------------------------------------------------------
(* The directories, each name with its path; sf_listdir has its own lists, *)
(* which are not made from sys_files.                                      *)
proc_names == <<"tasks", "ticks", "mem", "stat", "interrupts", "version">>
sys_files == {"cpu/el", "cpu/cntfrq", "cpu/midr", "cpu/mmu", "cpu/load", "net/loopback"}
Listing(dir) ==
  CASE dir = "/proc" -> proc_names
    [] dir = "/sys" -> <<"cpu", "net">>
    [] dir = "cpu" -> <<"cpu/el", "cpu/cntfrq", "cpu/midr", "cpu/mmu", "cpu/load">>
    [] dir = "net" -> <<"net/loopback">>
Dir == {"/proc", "/sys", "cpu", "net"}

pf_stat(name) ==
  IF name = "/proc" THEN "DIR" ELSE IF name \in ToSet(proc_names) THEN "REG" ELSE "none"
sf_stat(name) ==
  IF name \in {"/sys", "cpu", "net"} THEN "DIR" ELSE IF name \in sys_files THEN "REG" ELSE "none"

(* Faulty: the index is not counted before the end is looked for. *)
listdir_Early(r) ==
  /\ RunsAt(r, "list")
  /\ LET f == rd[r]
         l == Listing(f.name)
     IN  IF f.pos + 1 >= Len(l) THEN Sets(r, [f EXCEPT !.at = "listed"])
         ELSE Sets(r, [f EXCEPT !.pos = @ + 1, !.seen = Append(@, l[f.pos + 1])])
  /\ UNCHANGED <<tel, tim, ready, bufs, pheap>>

(* A listing: pf_listdir and sf_listdir name the entry at an index that    *)
(* the caller keeps, or say that there is none.                            *)
listdir(r) ==
  /\ RunsAt(r, "list")
  /\ LET f == rd[r]
         l == Listing(f.name)
     IN  IF f.pos >= Len(l) THEN Sets(r, [f EXCEPT !.at = "listed"])
         ELSE Sets(r, [f EXCEPT !.pos = @ + 1, !.seen = Append(@, l[f.pos + 1])])
  /\ UNCHANGED <<tel, tim, ready, bufs, pheap>>
list_starts(r, dir) ==
  /\ RunsAt(r, "closed") /\ rd[r].opens < MaxOpens
  /\ Sets(r, NewCall("list", dir, rd[r].opens + 1))
  /\ UNCHANGED <<tel, tim, ready, bufs, pheap>>
list_ends(r) ==
  /\ RunsAt(r, "listed") /\ Back(r)
  /\ UNCHANGED <<tel, tim, ready, bufs, pheap>>

ReaderStep(r) ==
  \/ wakes(r) \/ waits(r)
  \/ \E dir \in Dir : list_starts(r, dir)
  \/ listdir(r) \/ list_ends(r)
  \/ \E name \in Opened : open_starts(r, name)
  \/ counter_read(r) \/ fill_file(r) \/ pf_open(r) \/ sf_open(r)
  \/ \E n \in 1..2 : file_read(r, n)
  \/ \E np \in 0..1 : sf_lseek(r, np)
  \/ pf_close(r) \/ sf_close(r)
ProcStep == timer_handler \/ \E r \in Reader : ReaderStep(r)

------------------------------------------------------------------------------
(* What a reader gets of an open file, in however many pieces and whatever *)
(* is counted meanwhile, is the one text that its open generated.          *)
Snapshot ==
  \A r \in Reader : ~rd[r].torn /\ (rd[r].at = "open" => rd[r].len = Len(rd[r].snap))

(* gen_stat, cpu/load: the idle share is at most 100 % and idle is at most *)
(* wall, although the counters are read one after another and ticks come   *)
(* in between: nothing is idle while a task reads.                         *)
IdleSane ==
  \A r \in Reader :
    LET f == rd[r]
    IN  f.snap /= <<>> =>
          /\ f.name = "stat" => f.snap[2] <= f.snap[1] /\ f.snap[3] <= 100
          /\ f.name = "cpu/load" => f.snap[1] <= 100

(* gen_tasks: no task had more than all of the time.  Task_cpu_pct reads   *)
(* the task's ticks after wall, so that this does not hold.                *)
TasksSane ==
  \A r \in Reader : rd[r].name = "tasks" => \A i \in DOMAIN rd[r].snap : rd[r].snap[i] <= 100

(* /proc/ticks: seconds and ticks of one moment, also when the tick that   *)
(* carries into the seconds comes while the text is made (get_tim).        *)
ClockWhole ==
  \A r \in Reader :
    rd[r].name = "ticks" /\ rd[r].snap /= <<>> =>
      /\ rd[r].snap[2] < TIC_DENO
      /\ rd[r].snap[1] * TIC_DENO + rd[r].snap[2] <= tel.ticks

(* The tables of names agree: what a listing names can be looked up, and   *)
(* opened when it is a file; and it leaves out nothing that can be opened. *)
NamesAgree ==
  \A r \in Reader :
    LET f == rd[r]
        names == ToSet(f.seen)
    IN  /\ f.at = "list" =>
             \A n \in names :
               IF f.name = "/proc" THEN n \in ProcFile /\ pf_stat(n) = "REG"
               ELSE sf_stat(n) = (IF n \in SysFile THEN "REG" ELSE "DIR")
        /\ f.at = "listed" /\ f.name = "/proc" => names = ProcFile
        /\ f.at = "listed" /\ f.name = "/sys" => UNION {ToSet(Listing(d)) : d \in names} = SysFile

(* pf_open, sf_open and the closes: blocks are those of the open handles.  *)
HandlesFreed ==
  LET open(S) == Cardinality({r \in Reader : rd[r].at = "open" /\ rd[r].name \in S})
  IN  pheap = 2 * open(ProcFile) + open(SysFile)

(* Readers of /proc and /sys get whole and sane texts of names that exist, *)
(* and leave nothing allocated (procfs.c, sysfs.c, telemetry.c).           *)
ReadersOK == Snapshot /\ ClockWhole /\ IdleSane /\ HandlesFreed /\ NamesAgree
=============================================================================
