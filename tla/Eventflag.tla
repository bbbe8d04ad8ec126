------------------------------ MODULE Eventflag ------------------------------
(***************************************************************************)
(* The event flags of src/kernel/eventflags.c over the kernel of module    *)
(* Kernel.  Existence is tested inside the critical section, except in     *)
(* clr_flg.  A wait dispatches inside its critical section, so the task    *)
(* that waits gives up the processor in the same step.  A bit pattern is   *)
(* the set of its bits that are 1.                                         *)
(***************************************************************************)
EXTENDS Kernel

CONSTANTS
  FlagBit,    \* the bits of a FLGPTN the application uses
  Cflg,       \* the creation packets: the bits of flgatr, and iflgptn
  Wai,        \* what is waited for: waiptn, and wfmode & TWF_ORW
  Setptn,     \* the patterns given to set_flg and iset_flg
  Clrptn      \* the patterns given to clr_flg

Pattern == SUBSET FlagBit
WaitInfo == [waiptn : Pattern \ {{}}, orw : BOOLEAN]

ASSUME EventflagAssumption ==
  /\ Cflg \subseteq [tpri : BOOLEAN, wmul : BOOLEAN, clr : BOOLEAN, flgptn : Pattern]
  /\ Wai \subseteq WaitInfo
  /\ Setptn \subseteq Pattern
  /\ Clrptn \subseteq Pattern
  /\ Obj \intersect (Task \union {NoTask, QueueHead}) = {}

VARIABLES
  flg,        \* flgcb_table
  waitinfo,   \* tcb->waitinfo.flg of every task
  ptn         \* *p_flgptn, a variable of the caller's

flgvars == <<k, runtsk, call, event, flg, waitinfo, ptn>>

NoWait == [waiptn |-> {}, orw |-> FALSE]

FlgType == [Obj -> [exists : BOOLEAN,
                    tpri   : BOOLEAN,
                    wmul   : BOOLEAN,
                    clr    : BOOLEAN,
                    flgptn : Pattern]]

FlgCalls == Calls \union {<<"ercd", o, w>> : o \in Obj, w \in Wai}
                  \union {<<"clr_flg", o, c>> : o \in Obj, c \in Clrptn}

eventflag_initialize ==
  [o \in Obj |-> [exists |-> FALSE, tpri |-> FALSE, wmul |-> FALSE,
                  clr    |-> FALSE, flgptn |-> {}]]

FlgInit ==
  /\ Init
  /\ flg = eventflag_initialize
  /\ waitinfo = [t \in Task |-> NoWait]
  /\ ptn = [t \in Task |-> {}]

eventflag_cond(flgptn, w) ==
  IF w.orw THEN flgptn \intersect w.waiptn # {} ELSE w.waiptn \subseteq flgptn

cleared(o, flgptn) == IF flg[o].clr THEN {} ELSE flgptn

(* cre_flg; and acre_flg, for the reserved ID it finds free.               *)
_cre_flg(t, o, c) ==
  /\ Calls_(t, "cre_flg")
  /\ ~flg[o].exists
  /\ k' = [k EXCEPT !.waitq[o] = <<>>]
  /\ flg' = [flg EXCEPT ![o] = [exists |-> TRUE,   tpri |-> c.tpri,
                                wmul   |-> c.wmul, clr  |-> c.clr,
                                flgptn |-> c.flgptn]]
  /\ UNCHANGED <<runtsk, call, event, waitinfo, ptn>>

(* The TA_WSGL bit is 0, so the test for a second waiter is never true.    *)
wai_flg_at_once(t, o, w) ==
  /\ Calls_(t, "wai_flg")
  /\ flg[o].exists
  /\ eventflag_cond(flg[o].flgptn, w)
  /\ k' = [k EXCEPT !.ercd[t] = "E_OK"]
  /\ ptn' = [ptn EXCEPT ![t] = flg[o].flgptn]
  /\ flg' = [flg EXCEPT ![o].flgptn = cleared(o, @)]
  /\ Goto(t, <<"ercd", o, w>>)
  /\ UNCHANGED waitinfo

pol_flg_fails(t, o, w) ==
  /\ Calls_(t, "pol_flg")
  /\ flg[o].exists
  /\ ~eventflag_cond(flg[o].flgptn, w)
  /\ k' = [k EXCEPT !.ercd[t] = "E_TMOUT"]
  /\ Goto(t, <<"ercd", o, w>>)
  /\ UNCHANGED <<flg, waitinfo, ptn>>

(* Faulty: a task waits without looking at the flag. *)
wai_flg_Blind(t, o, w, tmo) ==
  /\ Calls_(t, "wai_flg") /\ tmo # TMO_POL
  /\ flg[o].exists
  /\ waitinfo' = [waitinfo EXCEPT ![t] = w]
  /\ k' = obj_make_wait([k EXCEPT !.ercd[t] = "E_TMOUT"], t, o, tmo, flg[o].tpri)
  /\ runtsk' = k'.schedtsk
  /\ call' = [call EXCEPT ![t] = <<"ercd", o, w>>]
  /\ UNCHANGED <<event, flg, ptn>>

wai_flg(t, o, w, tmo) ==
  /\ Calls_(t, "wai_flg") /\ tmo # TMO_POL
  /\ flg[o].exists
  /\ ~eventflag_cond(flg[o].flgptn, w)
  /\ waitinfo' = [waitinfo EXCEPT ![t] = w]
  /\ k' = obj_make_wait([k EXCEPT !.ercd[t] = "E_TMOUT"], t, o, tmo, flg[o].tpri)
  /\ runtsk' = k'.schedtsk
  /\ call' = [call EXCEPT ![t] = <<"ercd", o, w>>]
  /\ UNCHANGED <<event, flg, ptn>>

(* return runtsk->ercd; the caller is done with its pattern. *)
wai_flg_return(t) ==
  /\ \E o \in Obj, w \in Wai : At(t, <<"ercd", o, w>>)
  /\ ptn' = [ptn EXCEPT ![t] = {}]
  /\ Goto(t, User)
  /\ UNCHANGED <<k, flg, waitinfo>>

(* Faulty: the pattern is cleared before it is given to the waiter. *)
set_flg_turn_ClearsFirst(st, o, t) ==
  IF ~eventflag_cond(st.flgptn, waitinfo[t]) THEN st
  ELSE LET left == cleared(o, st.flgptn)
       IN  [k      |-> wait_release_ok(st.k, t),
            flgptn |-> left,
            ptn    |-> [st.ptn EXCEPT ![t] = left]]

(* Faulty: the pattern is cleared when the loop is over. *)
set_flg_turn_KeepsPattern(st, o, t) ==
  IF ~eventflag_cond(st.flgptn, waitinfo[t]) THEN st
  ELSE [st EXCEPT !.k = wait_release_ok(@, t), !.ptn[t] = st.flgptn]

(* One turn of _set_flg's loop: st has the kernel, the flag's pattern and  *)
(* the callers' patterns so far.                                           *)
set_flg_turn(st, o, t) ==
  IF ~eventflag_cond(st.flgptn, waitinfo[t]) THEN st
  ELSE [k      |-> wait_release_ok(st.k, t),
        flgptn |-> cleared(o, st.flgptn),
        ptn    |-> [st.ptn EXCEPT ![t] = st.flgptn]]

(* What the loop has made of the kernel, the pattern and the callers'      *)
(* patterns when it is past the first i waiters.                           *)
set_flg_walk(o, setptn) ==
  LET q == k.waitq[o]
      walk[i \in 0..Len(q)] ==
        IF i = 0 THEN [k |-> k, flgptn |-> flg[o].flgptn \union setptn, ptn |-> ptn]
        ELSE set_flg_turn(walk[i - 1], o, q[i])
  IN  walk

(* The whole queue is gone through in one critical section. *)
_set_flg(o, setptn) ==
  LET st == set_flg_walk(o, setptn)[Len(k.waitq[o])]
  IN  /\ flg[o].exists
      /\ k' = st.k
      /\ ptn' = st.ptn
      /\ flg' = [flg EXCEPT ![o].flgptn = st.flgptn]
      /\ UNCHANGED waitinfo

set_flg(t, o, setptn) ==
  /\ Calls_(t, "set_flg")
  /\ _set_flg(o, setptn)
  /\ Goto(t, Dispatch)

iset_flg(o, setptn) ==
  /\ "iset_flg" \in Services /\ irq_entry
  /\ _set_flg(o, setptn)
  /\ irq_return
  /\ UNCHANGED <<call, event>>

clr_flg_check(t, o, clrptn) ==
  /\ Calls_(t, "clr_flg")
  /\ flg[o].exists
  /\ Goto(t, <<"clr_flg", o, clrptn>>)
  /\ UNCHANGED <<k, flg, waitinfo, ptn>>

clr_flg(t, o, clrptn) ==
  /\ At(t, <<"clr_flg", o, clrptn>>)
  /\ flg' = [flg EXCEPT ![o].flgptn = @ \intersect clrptn]
  /\ Goto(t, User)
  /\ UNCHANGED <<k, waitinfo, ptn>>

(* wait_delete releases the waiters before the rest of del_flg. *)
del_flg(t, o) ==
  /\ Calls_(t, "del_flg")
  /\ flg[o].exists
  /\ event' = o
  /\ call' = [call EXCEPT ![t] = Dispatch]
  /\ UNCHANGED <<k, runtsk, flg, waitinfo, ptn>>

del_flg_end ==
  /\ event \in Obj
  /\ kqueue_empty(k.waitq[event])
  /\ flg' = [flg EXCEPT ![event].exists = FALSE, ![event].flgptn = {}]
  /\ event' = NoTask
  /\ UNCHANGED <<k, runtsk, call, waitinfo, ptn>>

-----------------------------------------------------------------------------
FlgTaskStep(t) ==
  \/ wai_flg_return(t)
  \/ \E o \in Obj :
       \/ del_flg(t, o)
       \/ \E c \in Cflg : _cre_flg(t, o, c)
       \/ \E s \in Setptn : set_flg(t, o, s)
       \/ \E c \in Clrptn : clr_flg_check(t, o, c) \/ clr_flg(t, o, c)
       \/ \E w \in Wai : \/ wai_flg_at_once(t, o, w) \/ pol_flg_fails(t, o, w)
                         \/ \E tmo \in Tmo : wai_flg(t, o, w, tmo)

FlgNext ==
  \/ (Next \/ wait_delete) /\ UNCHANGED <<flg, waitinfo, ptn>>
  \/ \E t \in Task : FlgTaskStep(t)
  \/ \E o \in Obj, s \in Setptn : iset_flg(o, s)
  \/ del_flg_end

FlgSpec == FlgInit /\ [][FlgNext]_flgvars

-----------------------------------------------------------------------------
(* Every variable has its type. *)
FlgTypeOK ==
  /\ k \in KernelType
  /\ runtsk \in Task \union {NoTask}
  /\ call \in [Task -> FlgCalls]
  /\ event \in Task \union Obj \union {NoTask, QueueHead}
  /\ flg \in FlgType
  /\ waitinfo \in [Task -> WaitInfo \union {NoWait}]
  /\ ptn \in [Task -> Pattern]

(* No task waits for what the flag already has: set_flg's walk, which      *)
(* releases tasks and clears the pattern as it goes, leaves none behind,   *)
(* and no set is missed between a waiter's test and its wait.              *)
NoMissedEvent ==
  \A o \in Obj : \A t \in ToSet(k.waitq[o]) :
    flg[o].exists /\ ~eventflag_cond(flg[o].flgptn, waitinfo[t])

(* A wait that returns E_OK gives its caller a pattern that satisfies what *)
(* the caller asked for, though the flag was cleared or deleted since.     *)
PatternSatisfies ==
  \A t \in Task, o \in Obj, w \in Wai :
    call[t] = <<"ercd", o, w>> /\ k.ercd[t] = "E_OK" => eventflag_cond(ptn[t], w)

(* A TA_CLR flag wakes one task per event: no step serves two waiters, and *)
(* the one it serves empties the pattern (TA_CLR, ittrium.h:31).           *)
OneWaiterPerEvent ==
  [][\A o \in Obj :
       LET served == {t \in ToSet(k.waitq[o]) : k.ercd[t] # "E_OK" /\ k'.ercd[t] = "E_OK"}
       IN  flg[o].clr /\ served # {} =>
             Cardinality(served) = 1 /\ flg'[o].flgptn = {}]_flgvars

(* Without TA_WMUL, "only a single task is allowed to be in the waiting    *)
(* state" (ittrium.h:29).                                                  *)
SingleWaiter ==
  \A o \in Obj : flg[o].exists /\ ~flg[o].wmul => Len(k.waitq[o]) <= 1

(* What a flag holds, who waits for it and what they are given agree at every*)
(* step of set_flg's walk, a timeout, clr_flg and del_flg (eventflags.c).  *)
FlagExact == FlgTypeOK /\ NoMissedEvent /\ PatternSatisfies
=============================================================================
