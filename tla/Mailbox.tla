-------------------------------- MODULE Mailbox --------------------------------
(***************************************************************************)
(* Mailboxes (kernel/mailbox.c) on top of the task management calls.  A    *)
(* mailbox ID keeps its attributes whenever it is created.                 *)
(***************************************************************************)
EXTENDS TaskManagement, MessageList

CONSTANTS
  Mbx,      (* the mailbox control blocks                                  *)
  TaMpri    (* those whose messages are queued by priority                 *)

ASSUME MailboxAssumption ==
  /\ Mbx \subseteq Gcb
  /\ TaMpri \subseteq Mbx
  /\ "nowhere" \notin Mbx

VARIABLES
  mbxs,      (* the mailboxes whose mbxatr is not OBJ_NONEXIST             *)
  mq         (* the mq_head and mq_tail of each mailbox                    *)

mbxvars == <<mbxs, mq, nextmsg, sent_to>>

queued(b) == messages(mq[b])

mailbox_initialize ==
  /\ mbxs = {}
  /\ mq = [b \in Mbx |-> no_messages]
  /\ nextmsg = [m \in Msg |-> NULL]
  /\ sent_to = [m \in Msg |-> "nowhere"]

-----------------------------------------------------------------------------
cre_mbx(b) ==
  /\ caller
  /\ b \notin mbxs
  /\ mbxs' = mbxs \cup {b}
  /\ mq' = [mq EXCEPT ![b].mq_head = NULL]
  /\ UNCHANGED <<nextmsg, sent_to, vars>>

(* The messages that are still queued are forgotten.                       *)
del_mbx(b) ==
  /\ caller
  /\ b \in mbxs
  /\ wait_delete(b)
  /\ mbxs' = mbxs \ {b}
  /\ sent_to' = [m \in Msg |-> IF sent_to[m] = b THEN "nowhere" ELSE sent_to[m]]
  /\ UNCHANGED <<mq, nextmsg, countvars, privars, cpuvars>>

(* Mutated: a message is queued although a suspended task waits for it.    *)
snd_msg_misses_suspended(b, m) ==
  /\ caller
  /\ b \in mbxs
  /\ IF wait_queue[b] # << >> /\ state[Head(wait_queue[b])] = "WAIT"
     THEN /\ wait_release(Head(wait_queue[b]))
          /\ UNCHANGED <<mq, nextmsg, sent_to>>
     ELSE LET sent == IF b \in TaMpri THEN queue_insert_mpri(mq[b], m)
                      ELSE msg_append(mq[b], m)
          IN  /\ mq' = [mq EXCEPT ![b] = sent.list]
              /\ nextmsg' = sent.nextmsg
              /\ sent_to' = [sent_to EXCEPT ![m] = b]
              /\ UNCHANGED <<state, schedvars, waitvars>>
  /\ UNCHANGED <<mbxs, countvars, privars, cpuvars>>

(* The message goes to the first waiting task, if there is one.            *)
snd_msg(b, m) ==
  /\ caller
  /\ b \in mbxs
  /\ IF wait_queue[b] # << >>
     THEN /\ wait_release(Head(wait_queue[b]))
          /\ UNCHANGED <<mq, nextmsg, sent_to>>
     ELSE LET sent == IF b \in TaMpri THEN queue_insert_mpri(mq[b], m)
                      ELSE msg_append(mq[b], m)
          IN  /\ mq' = [mq EXCEPT ![b] = sent.list]
              /\ nextmsg' = sent.nextmsg
              /\ sent_to' = [sent_to EXCEPT ![m] = b]
              /\ UNCHANGED <<state, schedvars, waitvars>>
  /\ UNCHANGED <<mbxs, countvars, privars, cpuvars>>

(* rcv_msg has no time-out; prcv_msg is the first case only.               *)
trcv_msg(b, timed) ==
  /\ in_task
  /\ ~in_ddsp
  /\ b \in mbxs
  /\ IF mq[b].mq_head # NULL
     THEN /\ mq' = [mq EXCEPT ![b] = msg_remove(@)]
          /\ sent_to' = [sent_to EXCEPT ![mq[b].mq_head] = "nowhere"]
          /\ UNCHANGED <<state, schedvars, waitvars>>
     ELSE /\ gcb_make_wait(b, timed)
          /\ UNCHANGED <<mq, sent_to>>
  /\ UNCHANGED <<mbxs, nextmsg, countvars, privars, cpuvars>>

(* The pk_msg that ref_mbx returns.                                        *)
ref_mbx(b) == IF mq[b].mq_head # NULL THEN NADR ELSE mq[b].mq_head

-----------------------------------------------------------------------------
MbxCall ==
  \E b \in Mbx :
    \/ cre_mbx(b) \/ del_mbx(b)
    \/ \E m \in Msg : sent_to[m] = "nowhere" /\ snd_msg(b, m)
    \/ \E timed \in BOOLEAN : trcv_msg(b, timed)

MbxInit == Init /\ mailbox_initialize

MbxNext == MbxCall \/ (Next /\ UNCHANGED mbxvars)

MbxSpec == MbxInit /\ [][MbxNext]_<<vars, mbxvars>>
-----------------------------------------------------------------------------
(* Every variable has its type.                                            *)
MbxTypeOK ==
  /\ TypeOK
  /\ mbxs \in SUBSET Mbx
  /\ mq \in [Mbx -> MsgList]
  /\ nextmsg \in [Msg -> Msg \cup {NULL}]
  /\ sent_to \in [Msg -> Mbx \cup {"nowhere"}]

(* Nobody waits at a mailbox that has a message, whatever became of the    *)
(* tasks that waited before: suspended waiters get their message too.      *)
NoMessageWhileWaiting ==
  \A b \in Mbx : wait_queue[b] # << >> => b \in mbxs /\ queued(b) = << >>

(* A message that was sent and not yet received is in the queue of its     *)
(* mailbox, once, and no other message is: the updates of mq_head, of      *)
(* mq_tail, which is stale while the queue is empty, and of the links, in  *)
(* whatever order messages are reused, lose and duplicate none.            *)
MessagesExact ==
  \A b \in mbxs :
    /\ IsInjective(queued(b))
    /\ ToSet(queued(b)) = {m \in Msg : sent_to[m] = b}

(* The linked lists behave as queues of messages in the order of sending   *)
(* or of priority, although a stale mq_tail, the links of received         *)
(* messages and the lists of deleted mailboxes stay in memory.             *)
MailQueue == INSTANCE MessageQueues WITH
  Box <- Mbx, ByPriority <- TaMpri, Message <- Msg, pri <- msgpri,
  queue <- [b \in Mbx |-> IF b \in mbxs THEN queued(b) ELSE << >>]

ServesMessageQueues == MailQueue!Spec

(* ref_mbx returns the message that will be received next, as the comment  *)
(* on T_RMBX in itron.h says.                                              *)
RefMbxReturnsNext ==
  \A b \in mbxs : queued(b) # << >> => ref_mbx(b) = Head(queued(b))
=============================================================================
