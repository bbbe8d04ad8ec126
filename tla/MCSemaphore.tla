----------------------------- MODULE MCSemaphore -----------------------------
(***************************************************************************)
(* Instances of Semaphore for TLC: one semaphore, two or three tasks,      *)
(* creation packets of both queue orders.                                  *)
(***************************************************************************)
EXTENDS Semaphore

CONSTANTS a, b, c, s

Two == {a, b}
Three == {a, b, c}
Itskpri2 == (a :> 0 @@ b :> 1)
Itskpri3 == (a :> 1 @@ b :> 0 @@ c :> 0)
OnlyInit == {INIT_TASK}

TaskServices == {"cre_tsk", "act_tsk", "cre_sem"}
SemServices == TaskServices \union {"wai_sem", "sig_sem", "isig_sem", "del_sem",
                                "del_tsk"}
HostServices == TaskServices \union {"wai_sem", "sig_sem", "del_sem"}
LateServices == HostServices \union {"dly_tsk"}

OverMax == [tpri : {FALSE}, isemcnt : {2}, maxsem : {1}]
OneTick == {1}
ForEverOr1 == {TMO_FEVR, 1}

ByPriority == [tpri : {TRUE}, isemcnt : {0}, maxsem : {1}]
BothOrders == [tpri : BOOLEAN, isemcnt : {0}, maxsem : {1}]
=============================================================================
