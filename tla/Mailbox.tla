------------------------------- MODULE Mailbox -------------------------------
(***************************************************************************)
(* The mailboxes of src/kernel/mailbox.c over the kernel of module Kernel. *)
(* A message is linked into a box through its own first word.  A task may  *)
(* send the messages it has; a message it receives is its own from then    *)
(* on.  Every call is one critical section; a receive that waits gives up  *)
(* the processor inside it.                                                *)
(***************************************************************************)
EXTENDS Kernel

CONSTANTS
  Msg,      \* messages
  NIL,      \* the null message pointer
  Msgpri,   \* what a message has in the place of its msgpri
  Mbxatr    \* the attributes boxes are created with

TA_TPRI == 1
TA_MFIFO == 2
TA_MPRI == 3

ASSUME MailboxAssumption ==
  /\ NIL \notin Msg
  /\ IsFiniteSet(Msg)
  /\ Msgpri \in [Msg -> Int]
  /\ Mbxatr \subseteq 0..3
  /\ Obj \intersect (Task \union {NoTask, QueueHead}) = {}

VARIABLES
  mbx,    \* mbxcb_table: exists, objatr, mq_head and mq_tail
  next,   \* the first word of every message
  ppk,    \* *ppk_msg, a variable of the receiver's
  has     \* the messages each task may write to

mbxvars == <<k, runtsk, call, event, mbx, next, ppk, has>>

MbxType == [Obj -> [exists : BOOLEAN,
                    objatr : 0..3,
                    head   : Msg \union {NIL},
                    tail   : Msg \union {NIL}]]

MbxCalls == Calls \union {<<"ercd", o>> : o \in Obj}

mailbox_initialize ==
  [o \in Obj |-> [exists |-> FALSE, objatr |-> 0, head |-> NIL, tail |-> NIL]]

MbxInit ==
  /\ Init
  /\ mbx = mailbox_initialize
  /\ next = [m \in Msg |-> NIL]
  /\ ppk = [t \in Task |-> NIL]
  /\ has = [t \in Task |-> IF t = INIT_TASK THEN Msg ELSE {}]

(* One more message of the list that begins at head, if there is one.      *)
one_more(head, nx, c) ==
  LET m == IF c = <<>> THEN head ELSE nx[Last(c)]
  IN  IF m = NIL THEN c ELSE Append(c, m)

(* The messages linked from head on. *)
linked(head, nx) ==
  LET first[n \in 0..Cardinality(Msg)] ==
        IF n = 0 THEN <<>> ELSE one_more(head, nx, first[n - 1])
  IN  first[Cardinality(Msg)]

Chain(o) == linked(mbx[o].head, next)

(* objatr & TA_MPRI *)
ByPriority(o) == mbx[o].objatr # 0

(* cre_mbx; and acre_mbx, for the reserved ID it finds free.               *)
_cre_mbx(t, o, atr) ==
  /\ Calls_(t, "cre_mbx")
  /\ ~mbx[o].exists
  /\ k' = [k EXCEPT !.waitq[o] = <<>>]
  /\ mbx' = [mbx EXCEPT ![o].exists = TRUE, ![o].objatr = atr, ![o].head = NIL]
  /\ UNCHANGED <<runtsk, call, event, next, ppk, has>>

(* Faulty: the walk stops at a message of the same priority. *)
kqueue_insert_mpri_BeforeEqual(o, m) ==
  LET chain == Chain(o)
      i == CHOOSE j \in 1..Len(chain) + 1 :
             /\ j <= Len(chain) => Msgpri[chain[j]] >= Msgpri[m]
             /\ \A h \in 1..(j - 1) : Msgpri[chain[h]] < Msgpri[m]
      behind == IF i > Len(chain) THEN NIL ELSE chain[i]
  IN  IF i = 1 THEN /\ mbx' = [mbx EXCEPT ![o].head = m]
                    /\ next' = [next EXCEPT ![m] = behind]
      ELSE /\ next' = [next EXCEPT ![m] = behind, ![chain[i - 1]] = m]
           /\ UNCHANGED mbx

(* The message goes in front of the first of a lower priority.             *)
kqueue_insert_mpri(o, m) ==
  LET chain == Chain(o)
      i == CHOOSE j \in 1..Len(chain) + 1 :
             /\ j <= Len(chain) => Msgpri[chain[j]] > Msgpri[m]
             /\ \A h \in 1..(j - 1) : Msgpri[chain[h]] <= Msgpri[m]
      behind == IF i > Len(chain) THEN NIL ELSE chain[i]
  IN  IF i = 1 THEN /\ mbx' = [mbx EXCEPT ![o].head = m]
                    /\ next' = [next EXCEPT ![m] = behind]
      ELSE /\ next' = [next EXCEPT ![m] = behind, ![chain[i - 1]] = m]
           /\ UNCHANGED mbx

(* Connect to end of queue; mq_tail is left over once the box is empty.    *)
insert_last(o, m) ==
  LET empty == mbx[o].head = NIL
  IN  /\ mbx' = [mbx EXCEPT ![o].head = IF empty THEN m ELSE @, ![o].tail = m]
      /\ next' = IF empty THEN [next EXCEPT ![m] = NIL]
                 ELSE [next EXCEPT ![m] = NIL, ![mbx[o].tail] = m]

(* Faulty: the message is also queued when a task waits for it. *)
__snd_mbx_Twice(o, m) ==
  /\ mbx[o].exists
  /\ IF ByPriority(o) THEN Msgpri[m] > 0 /\ kqueue_insert_mpri(o, m)
     ELSE insert_last(o, m)
  /\ IF kqueue_empty(k.waitq[o]) THEN UNCHANGED <<k, ppk>>
     ELSE /\ ppk' = [ppk EXCEPT ![kqueue_next(k.waitq[o])] = m]
          /\ k' = wait_release_ok(k, kqueue_next(k.waitq[o]))

(* Faulty: the receiver that waits is woken, the message queued. *)
__snd_mbx_Queues(o, m) ==
  /\ mbx[o].exists
  /\ IF ByPriority(o) THEN Msgpri[m] > 0 /\ kqueue_insert_mpri(o, m)
     ELSE insert_last(o, m)
  /\ UNCHANGED <<k, ppk>>

(* To the first receiver that waits, else into the queue. *)
__snd_mbx(o, m) ==
  /\ mbx[o].exists
  /\ ByPriority(o) => Msgpri[m] > 0
  /\ \/ /\ ~kqueue_empty(k.waitq[o])
        /\ ppk' = [ppk EXCEPT ![kqueue_next(k.waitq[o])] = m]
        /\ k' = wait_release_ok(k, kqueue_next(k.waitq[o]))
        /\ UNCHANGED <<mbx, next>>
     \/ /\ kqueue_empty(k.waitq[o])
        /\ IF ByPriority(o) THEN kqueue_insert_mpri(o, m) ELSE insert_last(o, m)
        /\ UNCHANGED <<k, ppk>>

(* The sender keeps a message that snd_mbx refuses; it dispatches anyway.  *)
snd_mbx(t, o, m) ==
  /\ Calls_(t, "snd_mbx")
  /\ m \in has[t]
  /\ \/ /\ __snd_mbx(o, m)
        /\ has' = [has EXCEPT ![t] = @ \ {m}]
     \/ /\ ~mbx[o].exists \/ (ByPriority(o) /\ Msgpri[m] <= 0)
        /\ UNCHANGED <<k, mbx, next, ppk, has>>
  /\ Goto(t, Dispatch)

(* A message is there: rcv_mbx, trcv_mbx and prcv_mbx take it.             *)
rcv_mbx_at_once(t, o) ==
  /\ Calls_(t, "rcv_mbx")
  /\ mbx[o].exists /\ mbx[o].head # NIL
  /\ k' = [k EXCEPT !.ercd[t] = "E_OK"]
  /\ ppk' = [ppk EXCEPT ![t] = mbx[o].head]
  /\ mbx' = [mbx EXCEPT ![o].head = next[@]]
  /\ Goto(t, <<"ercd", o>>)
  /\ UNCHANGED <<next, has>>

prcv_mbx_fails(t, o) ==
  /\ Calls_(t, "prcv_mbx")
  /\ mbx[o].exists /\ mbx[o].head = NIL
  /\ k' = [k EXCEPT !.ercd[t] = "E_TMOUT"]
  /\ Goto(t, <<"ercd", o>>)
  /\ UNCHANGED <<mbx, next, ppk, has>>

rcv_mbx(t, o, tmo) ==
  /\ Calls_(t, "rcv_mbx") /\ tmo # TMO_POL
  /\ mbx[o].exists /\ mbx[o].head = NIL
  /\ k' = obj_make_wait([k EXCEPT !.ercd[t] = "E_TMOUT"], t, o, tmo,
                        mbx[o].objatr % 2 = TA_TPRI)
  /\ runtsk' = k'.schedtsk
  /\ call' = [call EXCEPT ![t] = <<"ercd", o>>]
  /\ UNCHANGED <<event, mbx, next, ppk, has>>

(* return runtsk->ercd; with E_OK the caller has the message.              *)
rcv_mbx_return(t) ==
  /\ \E o \in Obj : At(t, <<"ercd", o>>)
  /\ has' = [has EXCEPT ![t] = IF k.ercd[t] = "E_OK" THEN @ \union {ppk[t]} ELSE @]
  /\ ppk' = [ppk EXCEPT ![t] = NIL]
  /\ Goto(t, User)
  /\ UNCHANGED <<k, mbx, next>>

(* wait_delete releases the waiters before the rest of del_mbx.  Whoever   *)
(* deletes a box has its messages from then on.                            *)
del_mbx(t, o) ==
  /\ Calls_(t, "del_mbx")
  /\ mbx[o].exists
  /\ event' = o
  /\ call' = [call EXCEPT ![t] = Dispatch]
  /\ UNCHANGED <<k, runtsk, mbx, next, ppk, has>>

del_mbx_end ==
  /\ event \in Obj
  /\ kqueue_empty(k.waitq[event])
  /\ mbx' = [mbx EXCEPT ![event].exists = FALSE, ![event].head = NIL]
  /\ has' = [has EXCEPT ![runtsk] = @ \union ToSet(Chain(event))]
  /\ event' = NoTask
  /\ UNCHANGED <<k, runtsk, call, next, ppk>>

-----------------------------------------------------------------------------
MbxTaskStep(t) ==
  \/ rcv_mbx_return(t)
  \/ \E o \in Obj :
       \/ del_mbx(t, o)
       \/ rcv_mbx_at_once(t, o) \/ prcv_mbx_fails(t, o)
       \/ \E atr \in Mbxatr : _cre_mbx(t, o, atr)
       \/ \E m \in Msg : snd_mbx(t, o, m)
       \/ \E tmo \in Tmo : rcv_mbx(t, o, tmo)

MbxNext ==
  \/ (Next \/ wait_delete) /\ UNCHANGED <<mbx, next, ppk, has>>
  \/ \E t \in Task : MbxTaskStep(t)
  \/ del_mbx_end

MbxSpec == MbxInit /\ [][MbxNext]_mbxvars

-----------------------------------------------------------------------------
(* Every variable has its type. *)
MbxTypeOK ==
  /\ k \in KernelType
  /\ runtsk \in Task \union {NoTask}
  /\ call \in [Task -> MbxCalls]
  /\ event \in Task \union Obj \union {NoTask, QueueHead}
  /\ mbx \in MbxType
  /\ next \in [Msg -> Msg \union {NIL}]
  /\ ppk \in [Task -> Msg \union {NIL}]
  /\ has \in [Task -> SUBSET Msg]

(* No message lies in a box while a task waits for one there, and no task  *)
(* waits at a box that does not exist (__snd_mbx, __rcv_mbx, del_mbx).     *)
NoIdleMessage ==
  \A o \in Obj : k.waitq[o] # <<>> => mbx[o].exists /\ mbx[o].head = NIL

(* The message a receive was handed and has not returned with yet. *)
InHand(t) ==
  IF k.ercd[t] = "E_OK" /\ \E o \in Obj : call[t] = <<"ercd", o>>
  THEN {ppk[t]} ELSE {}

(* Where messages can be: with a task, on the way to one, in a box.        *)
Place == ({"task", "hand"} \X Task) \union ({"box"} \X Obj)

Messages(p) == CASE p[1] = "task" -> has[p[2]]
                 [] p[1] = "hand" -> InHand(p[2])
                 [] p[1] = "box"  -> ToSet(Chain(p[2]))

(* Every message is in one place, and in a box once.  None is lost to a    *)
(* receive that times out as it is served, to a deletion, or to a link of  *)
(* the list overwritten.                                                   *)
MessageConserved ==
  /\ \A o \in Obj : IsInjective(Chain(o))
  /\ \A m \in Msg : \E p \in Place : \A q \in Place : m \in Messages(q) <=> q = p

(* The linked messages implement the queue the attributes name: a TA_MPRI  *)
(* box by priority, any other first to last (ittrium.h:27).                *)
Queue == INSTANCE MessageQueue WITH
           Box   <- Obj,
           queue <- [o \in Obj |-> Chain(o)],
           bypri <- {o \in Obj : mbx[o].objatr = TA_MPRI}
QueueSpec == Queue!Spec

(* Every message is in one place, and none is kept from a task that waits  *)
(* (mailbox.c).                                                            *)
MessagesExact == MbxTypeOK /\ NoIdleMessage /\ MessageConserved
=============================================================================
