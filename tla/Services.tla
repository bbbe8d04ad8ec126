------------------------------- MODULE Services -------------------------------
(***************************************************************************)
(* The shell task (services/shell): it reads a line, runs its segments by  *)
(* the rules of ; && and ||, and the commands of a segment: those that     *)
(* show a file, source, run and kill of module Elf, ping, ifconfig and arp *)
(* of module NetShell.  source reads lines of a file and runs them, so     *)
(* the calls nest; stack holds them, the innermost last.  A line is a      *)
(* sequence of segments [op, cmd, arg]: op is the separator before it.     *)
(* Beside it, in behaviours of their own, readers of /proc and /sys        *)
(* (module ProcFs) and users of littlefs (module LfsPort).                 *)
(***************************************************************************)
EXTENDS Elf, NetShell, ProcFs, LfsPort

CONSTANTS
  Line,         \* what is typed
  Script        \* path -> the lines of that file, for source

(* What the shell may come to run.  A line begins with a segment without a *)
(* separator; the IDs that run is given are tasks, or 0 for any.           *)
Lines == Line \union UNION {ToSet(Script[p]) : p \in DOMAIN Script}
Segments == UNION {ToSet(line) : line \in Lines}

ASSUME ServicesAssumption ==
  /\ DOMAIN Script \subseteq Path
  /\ \A p \in DOMAIN Script : Script[p] \in Seq(Lines)
  /\ \A line \in Lines : line \in Seq(Segments) /\ (line /= <<>> => line[1].op = ";")
  /\ \A s \in Segments :
       /\ s.op \in {";", "&&", "||"} /\ (s.cmd = "run" => s.tid \in Task \union {0})
       /\ s.cmd \in {"blank", "unknown", "echo", "ls", "cat", "ps", "irq", "ticks", "load", "source",
                     "run", "kill", "ping", "ifconfig", "arp"}

VARIABLES
  part,         \* "shell", "proc" or "lfs": what the behaviour is about
  stack         \* the shell's calls

files == <<heap, wild, fds>>
shellvars == <<files, elfvars, netvars, stack>>
vars == <<part, shellvars, procvars, lfsvars>>

LineFrame(line) ==
  [k |-> "line", line |-> line, st |-> 0, run |-> TRUE, done |-> <<>>]
SourceFrame(fd, lines) == [k |-> "source", fd |-> fd, rest |-> lines, st |-> 0]
ShowFrame(fd) == [k |-> "show", fd |-> fd]

Init ==
  /\ part \in {"shell", "proc", "lfs"}
  /\ FilesInit /\ ElfInit /\ NetInit /\ stack = <<>> /\ ProcInit /\ LfsInit

Top == Last(stack)
IsTop(k) == stack /= <<>> /\ Top.k = k
Push(f) == stack' = Append(stack, f)
Busy == load.pc /= "idle" \/ cmd.pc /= "idle"

Seg == Top.line[Len(Top.done) + 1]
HasSeg == IsTop("line") /\ Len(Top.done) < Len(Top.line)

(* Faulty: a segment that did not run does not let the next || run either. *)
RunNext_Sticky(op, st, run) ==
  CASE op = ";" -> TRUE [] op = "&&" -> st = 0 [] op = "||" -> run /\ st /= 0

(* What the separator before a segment and the last status say of it.      *)
RunNext(op, st, run) ==
  CASE op = ";" -> TRUE [] op = "&&" -> st = 0 [] op = "||" -> st /= 0

(* Line frame f after its next segment was passed over or returned st.     *)
AfterSeg(f, st, mark) ==
  LET n == Len(f.done) + 1
      op == IF n < Len(f.line) THEN f.line[n + 1].op ELSE ";"
  IN  [f EXCEPT !.st = st, !.done = Append(@, mark), !.run = RunNext(op, st, f.run)]
Result(st) == IF st = 0 THEN "ok" ELSE "failed"

(* Frames s below the one that returns st: a line goes on to its next      *)
(* segment, a source keeps the status of its last line.                    *)
Resume(s, st) ==
  IF s = <<>> THEN <<>>
  ELSE LET f == Last(s)
       IN  Append(Front(s), IF f.k = "line" THEN AfterSeg(f, st, Result(st))
                            ELSE [f EXCEPT !.st = st])
Return(st) == stack' = Resume(Front(stack), st)
SegReturns(st) == stack' = Resume(stack, st)

(* shell_task: lineedit_read gave a line.                                  *)
ReadLine ==
  /\ stack = <<>>
  /\ \E line \in Line : Push(LineFrame(line))
  /\ UNCHANGED <<files, elfvars, netvars>>

(* A segment that does not run, or is blank, leaves the status alone.      *)
PassOver ==
  /\ HasSeg /\ ~Busy
  /\ ~Top.run \/ Seg.cmd = "blank"
  /\ stack' = Append(Front(stack), AfterSeg(Top, Top.st, "passed"))
  /\ UNCHANGED <<files, elfvars, netvars>>

EndOfLine ==
  /\ IsTop("line") /\ Len(Top.done) = Len(Top.line)
  /\ Return(Top.st)
  /\ UNCHANGED <<files, elfvars, netvars>>

Runs(c) == HasSeg /\ ~Busy /\ Top.run /\ Seg.cmd = c

(* shell_run_argv: no such command.                                        *)
unknown ==
  /\ Runs("unknown") /\ SegReturns(-1)
  /\ UNCHANGED <<files, elfvars, netvars>>

(* echo prints, ls looks at directories: both always succeed.              *)
cmd_echo ==
  /\ Runs("echo") /\ SegReturns(0)
  /\ UNCHANGED <<files, elfvars, netvars>>
cmd_ls ==
  /\ Runs("ls") /\ SegReturns(0)
  /\ UNCHANGED <<files, elfvars, netvars>>

(* The commands that print a file: open, print to the end, close.  Without *)
(* the file they return st.                                                *)
Shows(paths, st) ==
  /\ \/ \E p \in paths : Opens(p) /\ Push(ShowFrame(NewFd))
     \/ UNCHANGED files /\ SegReturns(st)
  /\ UNCHANGED <<elfvars, netvars>>
cmd_cat   == Runs("cat") /\ Shows({Seg.arg}, -1)
cmd_ps    == Runs("ps") /\ Shows({"/proc/tasks"}, -1)
cmd_irq   == Runs("irq") /\ Shows({"/proc/interrupts"}, -1)
(* ticks can ask get_tim instead, load has two files to look in.           *)
cmd_ticks == Runs("ticks") /\ Shows({"/proc/ticks"}, 0)
cmd_load  == Runs("load") /\ Shows({"/sys/cpu/load", "/proc/stat"}, -1)
ShowEnd ==
  /\ IsTop("show")
  /\ ClosesAndFrees(Top.fd, {})
  /\ Return(0)
  /\ UNCHANGED <<elfvars, netvars>>

(* cmd_source: each line of the file through shell_exec_line, the          *)
(* descriptor open all the while.                                          *)
cmd_source ==
  /\ Runs("source")
  /\ \/ /\ Seg.arg \in DOMAIN Script
        /\ Opens(Seg.arg) /\ Push(SourceFrame(NewFd, Script[Seg.arg]))
     \/ UNCHANGED files /\ SegReturns(-1)
  /\ UNCHANGED <<elfvars, netvars>>
(* Faulty: the line just read is not taken off. *)
SourceLine_Again ==
  /\ IsTop("source") /\ Top.rest /= <<>>
  /\ stack' = Append(stack, LineFrame(Head(Top.rest)))
  /\ UNCHANGED <<files, elfvars, netvars>>
SourceLine ==
  /\ IsTop("source") /\ Top.rest /= <<>>
  /\ stack' = Append(Front(stack), [Top EXCEPT !.rest = Tail(@)]) \o <<LineFrame(Head(Top.rest))>>
  /\ UNCHANGED <<files, elfvars, netvars>>
SourceEnd ==
  /\ IsTop("source") /\ Top.rest = <<>>
  /\ ClosesAndFrees(Top.fd, {})
  /\ Return(Top.st)
  /\ UNCHANGED <<elfvars, netvars>>

(* cmd_run and cmd_kill.                                                   *)
cmd_run ==
  /\ Runs("run") /\ elf_run(Seg.arg, Seg.tid)
  /\ UNCHANGED <<netvars, stack>>
RunEnd ==
  /\ load.pc = "done" /\ load' = NoLoad
  /\ SegReturns(IF load.rc < 0 THEN -1 ELSE 0)
  /\ UNCHANGED <<files, mods, app, netvars>>
cmd_kill ==
  /\ Runs("kill")
  /\ IF mod_find(Seg.tid) = {} THEN SegReturns(-1) /\ UNCHANGED <<files, elfvars>>
     ELSE elf_kill(Seg.tid) /\ SegReturns(0)
  /\ UNCHANGED netvars

(* The commands of shell_net.c.                                            *)
NetCmd ==
  /\ \/ Runs("ping") /\ ping_start
     \/ \E what \in {"ifconfig", "arp"} : Runs(what) /\ if_start(what)
  /\ UNCHANGED <<files, elfvars, stack>>
NetCmdEnd ==
  /\ cmd.pc = "done" /\ cmd' = NoCmd
  /\ SegReturns(cmd.rc)
  /\ UNCHANGED <<files, elfvars, core, pcb, sem, wire, up>>

ShellStep ==
  \/ PassOver \/ EndOfLine \/ unknown \/ cmd_echo \/ cmd_ls
  \/ cmd_cat \/ cmd_ps \/ cmd_irq \/ cmd_ticks \/ cmd_load \/ ShowEnd
  \/ cmd_source \/ SourceLine \/ SourceEnd
  \/ cmd_run \/ RunEnd \/ cmd_kill \/ NetCmd \/ NetCmdEnd
  \/ LoaderStep /\ UNCHANGED <<netvars, stack>>
  \/ PingStep /\ UNCHANGED <<files, elfvars, stack>>

Tcpip == TcpipStep /\ UNCHANGED <<files, elfvars, stack>>
ShellNext ==
  \/ ReadLine
  \/ ShellStep
  \/ Tcpip
  \/ \E t \in Task : (AppReturns(t) \/ AppDeleted(t)) /\ UNCHANGED <<netvars, stack>>

Of(p, A) == part = p /\ A /\ part' = part
Next ==
  \/ Of("shell", ShellNext /\ UNCHANGED <<procvars, lfsvars>>)
  \/ Of("proc", ProcStep /\ UNCHANGED <<shellvars, lfsvars>>)
  \/ Of("lfs", LfsStep /\ UNCHANGED <<shellvars, procvars>>)

Spec == Init /\ [][Next]_vars

(* The shell runs when it can: the tasks it loads have a lower priority,   *)
(* as has everything that is not an interrupt or the tcpip thread, which   *)
(* gives the core lock back.                                               *)
FairSpec ==
  /\ Spec
  /\ SF_vars(Of("shell", ShellStep /\ UNCHANGED <<procvars, lfsvars>>))
  /\ WF_vars(Of("shell", Tcpip /\ UNCHANGED <<procvars, lfsvars>>))

------------------------------------------------------------------------------
(* States, slots and positions of every call are what they may be.         *)
TypeOK ==
  /\ heap \subseteq Block
  /\ mods \in [Mod -> [used : BOOLEAN, tskid : Task \union {0}, img : Block \union {0, Window}, stk : Block \union {0}]]
  /\ app \in [Task -> [st : {"NOEXS", "DMT", "RDY", "RUN"}, img : Block \union {0, Window}, stk : Block \union {0}]]
  /\ core \in {"free", "shell", "tcpip"}
  /\ sem.cnt \in 0..(2 * PINGS * MAXCOPIES)

(* vfs_open and vfs_close in shell.c and elf_load.c: the open descriptors  *)
(* are exactly those of the calls under way, each its own, whatever fails  *)
(* in between and however deep source nests.  None is open at the prompt.  *)
Opener == {i \in DOMAIN stack : stack[i].k \in {"source", "show"}}
FrameFds == {stack[i].fd : i \in Opener}
DescriptorsExact ==
  /\ {d \in Fd : fds[d].used} = FrameFds \union (IF load.fd >= 0 THEN {load.fd} ELSE {})
  /\ load.fd \notin FrameFds
  /\ \A i, j \in Opener : stack[i].fd = stack[j].fd => i = j

(* The heap holds exactly the blocks of open files, of the elf_run under   *)
(* way and of the slots, each of one owner, on every path of elf_run; and  *)
(* nothing is freed that is not allocated.                                 *)
Used == {m \in Mod : mods[m].used}
Memory(m) == {mods[m].img, mods[m].stk} \ {Window}
Owned ==
  [files |-> UNION {fds[d].blks : d \in Fd},
   loading |-> (Held \union {load.buf}) \ {0},
   slots |-> UNION {Memory(m) : m \in Used}]
HeapExact ==
  /\ heap = Owned.files \union Owned.loading \union Owned.slots
  /\ Owned.files \intersect Owned.loading = {}
  /\ Owned.slots \intersect (Owned.files \union Owned.loading) = {}
  /\ \A m, n \in Mod : mods[m].used /\ mods[n].used /\ m /= n => mods[m].stk /= mods[n].stk
  /\ wild = {}

(* elf_kill, elf_run's error paths: a task that may still run never has    *)
(* its image or its stack freed, nor one that may be activated.            *)
NoUseAfterFree ==
  \A t \in Task \ {SHELL} :
    app[t].st /= "NOEXS" => {app[t].img, app[t].stk} \subseteq heap \union {Window}

(* elf_run takes its slot after act_tsk.  All the same, once no elf_run is *)
(* under way every loaded task is in the first slot elf_kill finds or in a *)
(* later one of its ID, so that kill can end it, however tasks ended and   *)
(* IDs were used again.                                                    *)
Killable ==
  load.pc \in {"idle", "done"} =>
    \A t \in Task \ {SHELL} :
      app[t].st /= "NOEXS" =>
        \E m \in Mod : mods[m].used /\ mods[m].tskid = t /\ mods[m].stk = app[t].stk

(* shell_exec_line: reading ; && || as in a shell, from left to right, a   *)
(* segment runs exactly when the and-or list before it leaves it to        *)
(* decide.  Truth(j) is the value of the list up to segment j.             *)
Truth(f) ==
  LET v[j \in 0..Len(f.done)] ==
        IF j = 0 THEN TRUE
        ELSE LET ok == IF f.done[j] = "passed" THEN v[j - 1] ELSE f.done[j] = "ok"
             IN  CASE f.line[j].op = ";" -> ok
                   [] f.line[j].op = "&&" -> v[j - 1] /\ ok
                   [] f.line[j].op = "||" -> v[j - 1] \/ ok
  IN  v
ChainRule ==
  \A i \in {n \in DOMAIN stack : stack[n].k = "line"} :
    LET f == stack[i]
    IN  \A j \in DOMAIN f.done :
          f.done[j] /= "passed" <=>
            /\ f.line[j].cmd /= "blank"
            /\ CASE f.line[j].op = ";" -> TRUE
                 [] f.line[j].op = "&&" -> Truth(f)[j - 1]
                 [] f.line[j].op = "||" -> ~Truth(f)[j - 1]

(* cmd_ping frees its semaphore and leaves the frame ping_recv works on    *)
(* only after the pcb is gone; and every way out of a net command gives    *)
(* the core lock back.                                                     *)
PingFrameAlive ==
  /\ pcb => sem.there /\ cmd.what = "ping"
  /\ cmd.pc \in {"idle", "done"} => ~pcb /\ ~sem.there /\ core /= "shell"

(* The prompt comes back: source files that source themselves run out of   *)
(* descriptors, lost replies time out, nobody keeps the core lock.         *)
PromptReturns == (stack /= <<>>) ~> (stack = <<>>)

(* Descriptors and heap belong exactly to the calls under way and to the   *)
(* loaded programs: every way out of a command gives back what it took.    *)
HoldingsExact == TypeOK /\ DescriptorsExact /\ HeapExact

(* A loaded program keeps its memory while it may run, and can be killed.  *)
ProgramsOK == NoUseAfterFree /\ Killable

(* The right segments run, and a command returns only when nothing that    *)
(* outlives it points into its frame (shell_parse.c, shell_net.c).         *)
CommandsOK == ChainRule /\ PingFrameAlive

-----------------------------------------------------------------------------
(* Instances for TLC: a program, one for the fixed window, a bad file,     *)
(* proc files and a script that sources itself; one reserved task and one  *)
(* user task.  LoaderLines kills no task of the fixed window, whose image  *)
(* elf_kill would free though it is not in the heap; FixedLines does.      *)
ProcFiles == {"/proc/tasks", "/proc/ticks", "/proc/interrupts"}
FileNames == {"app", "fixed", "bad", "/sys/cpu/load", "self"} \union ProcFiles
Kinds == [p \in FileNames |-> CASE p = "app" -> "heap" [] p = "fixed" -> "fixed" [] OTHER -> "bad"]
Mallocs == [p \in FileNames |-> IF p \in ProcFiles THEN 2 ELSE 1]

(* A segment; a line of one.                                               *)
Piece(op, c, arg, tid) == [op |-> op, cmd |-> c, arg |-> arg, tid |-> tid]
One(c, arg, tid) == <<Piece(";", c, arg, tid)>>

(* echo; unknown && ps || source self                               *)
Scripts == "self" :>
  <<One("blank", "", 0),
    <<Piece(";", "echo", "", 0), Piece(";", "unknown", "", 0), Piece("&&", "ps", "", 0),
      Piece("||", "source", "self", 0)>>>>

LoaderLines ==
  {One("run", "app", 0), One("run", "fixed", 2), One("run", "bad", 0),
   One("kill", "", 3),
   <<Piece(";", "kill", "", 3), Piece("||", "run", "app", 0)>>}
FileLines ==
  {One("source", "self", 0),
   <<Piece(";", "load", "", 0), Piece("||", "echo", "", 0), Piece("&&", "unknown", "", 0)>>,
   <<Piece(";", "unknown", "", 0), Piece("||", "blank", "", 0), Piece("&&", "cat", "none", 0)>>,
   <<Piece(";", "ticks", "", 0), Piece("&&", "irq", "", 0), Piece("||", "ls", "", 0), Piece(";", "cat", "bad", 0)>>}
NetLines ==
  {One("ping", "", 0), One("arp", "", 0),
   <<Piece(";", "ifconfig", "", 0), Piece("&&", "ps", "", 0)>>}
AllLines == LoaderLines \union FileLines \union NetLines
ReadFiles == {"stat", "tasks", "ticks", "version", "cpu/load", "cpu/el", "net/loopback"}
LoadFile == {"stat", "cpu/load"}
FixedLines == {One("run", "fixed", 2), One("kill", "", 2)}
=============================================================================
