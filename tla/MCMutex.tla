------------------------------- MODULE MCMutex -------------------------------
(***************************************************************************)
(* Instances of Mutex for TLC: one semaphore with one token, in order of   *)
(* arrival; the initial task below the others.                             *)
(***************************************************************************)
EXTENDS Mutex

CONSTANTS a, b, c, s

Three == {a, b, c}
Itskpri3 == (a :> 1 @@ b :> 0 @@ c :> 0)
OnlyInit == {INIT_TASK}

MutexServices == {"cre_tsk", "act_tsk", "cre_sem", "wai_sem", "sig_sem", "dly_tsk"}

(* The initial task, of the lowest priority, may wait with a timeout, as     *)
(* sys_arch_sem_wait does; the others wait for ever, as sys_mutex_lock does. *)
Patience == [t \in Task |-> IF t = INIT_TASK THEN {TMO_FEVR, 1} ELSE {TMO_FEVR}]
AnyTmo == [t \in Task |-> Tmo]

ForEverOr1 == {TMO_FEVR, 1}
AllTmo == {TMO_FEVR, TMO_POL, 1}

OneToken == [tpri : {FALSE}, isemcnt : {1}, maxsem : {1}]
=============================================================================
