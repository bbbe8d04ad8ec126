----------------------------- MODULE MCEventflag -----------------------------
(***************************************************************************)
(* Instances of Eventflag for TLC: one flag of two bits, two or three      *)
(* tasks, waits for one bit, for both and for either.                      *)
(***************************************************************************)
EXTENDS Eventflag

CONSTANTS a, b, c, f

Two == {a, b}
Three == {a, b, c}
Itskpri2 == (a :> 0 @@ b :> 1)
Itskpri3 == (a :> 1 @@ b :> 0 @@ c :> 0)
OnlyInit == {INIT_TASK}

TaskServices == {"cre_tsk", "act_tsk", "cre_flg"}
IrqServices == TaskServices \union {"wai_flg", "iset_flg"}
FlagServices == TaskServices \union {"wai_flg", "pol_flg", "set_flg", "clr_flg",
                                     "del_flg", "iset_flg"}

OneTick == {1}
ForEverOr1 == {TMO_FEVR, 1}

Both == [waiptn |-> {1, 2}, orw |-> FALSE]
Either == [waiptn |-> {1, 2}, orw |-> TRUE]
First == [waiptn |-> {1}, orw |-> FALSE]
BothOrEither == {Both, Either}
Waits == {First, Both, Either}

EachBit == {{1}, {2}}
Clear1 == {{2}}

Packets == [tpri : {TRUE}, wmul : {TRUE}, clr : BOOLEAN, flgptn : {{1}}]
Single == [tpri : {FALSE}, wmul : {FALSE}, clr : {FALSE}, flgptn : {{}}]
=============================================================================
