------------------------------ MODULE MCMailbox ------------------------------
(***************************************************************************)
(* Instances of Mailbox for TLC: one box, two tasks, messages of           *)
(* equal and of different priority.                                        *)
(***************************************************************************)
EXTENDS Mailbox

CONSTANTS a, b, box, m1, m2, m3

Two == {a, b}
Itskpri2 == (a :> 0 @@ b :> 1)
OnlyInit == {INIT_TASK}

BoxServices == {"cre_tsk", "act_tsk", "cre_mbx", "snd_mbx", "rcv_mbx", "prcv_mbx",
                "del_mbx"}

ForEver == {TMO_FEVR}
ForEverOr1 == {TMO_FEVR, 1}

FifoOrPriority == {0, TA_MPRI}
OnlyMFifo == {TA_MFIFO}

Msgpri2 == (m1 :> 2 @@ m2 :> 1)
Msgpri3 == (m1 :> 2 @@ m2 :> 1 @@ m3 :> 2)

(* The model tells m1 and m3, of one priority, apart by their place only.  *)
EqualMessages == Permutations({m1, m3})
=============================================================================
