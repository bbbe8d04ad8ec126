------------------------------- MODULE MCKernel -------------------------------
(***************************************************************************)
(* Instances of Kernel for TLC: the initial task a, and b below it.        *)
(***************************************************************************)
EXTENDS Kernel

CONSTANTS a, b

Two == {a, b}
Itskpri2 == (a :> 0 @@ b :> 1)
OnlyInit == {INIT_TASK}

ManageServices == {"cre_tsk", "act_tsk", "iact_tsk", "del_tsk", "chg_pri",
                   "rot_rdq", "ext_tsk"}
SyncServices == {"cre_tsk", "act_tsk", "del_tsk", "sus_tsk", "rsm_tsk", "slp_tsk",
                 "wup_tsk", "iwup_tsk", "can_wup", "dly_tsk"}
AllServices == ManageServices \union SyncServices
SuspendServices == {"cre_tsk", "act_tsk", "sus_tsk", "rsm_tsk"}
DelayServices == {"dly_tsk"}
PriorityServices == {"cre_tsk", "act_tsk", "slp_tsk", "chg_pri"}

LivenessServices == {"cre_tsk", "act_tsk", "iwup_tsk", "slp_tsk", "dly_tsk"}
HostServices == SuspendServices \union {"slp_tsk", "iwup_tsk", "dly_tsk"}

ForEverOr1 == {TMO_FEVR, 1}
SomeTmo == {TMO_FEVR, TMO_POL, 2}
=============================================================================
