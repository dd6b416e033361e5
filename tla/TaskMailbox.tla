------------------------------ MODULE TaskMailbox ------------------------------
(***************************************************************************)
(* The mailbox that every task has (kernel/taskmbox.c): only the task      *)
(* itself receives from it, and it ends with the task.  The list is in the *)
(* TCB and is emptied by make_dormant (kernel/task.c).                     *)
(***************************************************************************)
EXTENDS TaskManagement, MessageList

ASSUME TaskMailboxAssumption == "nowhere" \notin Task

VARIABLE tmq   (* tmq_head and tmq_tail of each task                       *)

tmbvars == <<tmq, nextmsg, sent_to>>

mail(t) == IF state[t] = "NONEXIST" THEN << >> ELSE messages(tmq[t])

taskmbox_initialize ==
  /\ tmq = [t \in Task |-> no_messages]
  /\ nextmsg = [m \in Msg |-> NULL]
  /\ sent_to = [m \in Msg |-> "nowhere"]

-----------------------------------------------------------------------------
vsnd_tmb(t, m) ==
  /\ caller
  /\ nonself(t)
  /\ task_alive(t)
  /\ IF waiting(t) /\ wspec[t] = "tmb"
     THEN /\ wait_release(t)
          /\ UNCHANGED <<tmbvars, countvars, privars, cpuvars>>
     ELSE LET sent == msg_append(tmq[t], m)
          IN  /\ tmq' = [tmq EXCEPT ![t] = sent.list]
              /\ nextmsg' = sent.nextmsg
              /\ sent_to' = [sent_to EXCEPT ![m] = t]
              /\ UNCHANGED vars

(* vrcv_tmb has no time-out; vprcv_tmb is the first case only.             *)
vtrcv_tmb(timed) ==
  /\ in_task
  /\ ~in_ddsp
  /\ IF tmq[ctxtsk].mq_head # NULL
     THEN /\ tmq' = [tmq EXCEPT ![ctxtsk] = msg_remove(@)]
          /\ sent_to' = [sent_to EXCEPT ![tmq[ctxtsk].mq_head] = "nowhere"]
          /\ UNCHANGED <<state, schedvars, waitvars>>
     ELSE /\ make_wait("tmb", timed)
          /\ UNCHANGED <<wait_queue, tmq, sent_to>>
  /\ UNCHANGED <<nextmsg, countvars, privars, cpuvars>>

vref_tmb(t) ==
  [wtsk   |-> IF waiting(t) /\ wspec[t] = "tmb" THEN t ELSE NoTask,
   pk_msg |-> IF tmq[t].mq_head # NULL THEN tmq[t].mq_head ELSE NADR]

(* The mailbox of a task that becomes dormant is emptied (make_dormant).   *)
emptied(t) == state'[t] = "DORMANT"

empty_mailboxes ==
  /\ tmq' = [t \in Task |-> IF emptied(t) THEN [tmq[t] EXCEPT !.mq_head = NULL] ELSE tmq[t]]
  /\ sent_to' = [m \in Msg |->
       IF \E t \in Task : sent_to[m] = t /\ ~task_alive(t)' THEN "nowhere" ELSE sent_to[m]]
  /\ UNCHANGED nextmsg

-----------------------------------------------------------------------------
TmbCall ==
  \/ \E t \in Task, m \in Msg : sent_to[m] = "nowhere" /\ vsnd_tmb(t, m)
  \/ \E timed \in BOOLEAN : vtrcv_tmb(timed)

TmbInit == Init /\ taskmbox_initialize

TmbNext == TmbCall \/ (Next /\ empty_mailboxes)

TmbSpec == TmbInit /\ [][TmbNext]_<<vars, tmbvars>>
-----------------------------------------------------------------------------
(* Every variable has its type.                                            *)
TmbTypeOK ==
  /\ TypeOK
  /\ tmq \in [Task -> MsgList]
  /\ nextmsg \in [Msg -> Msg \cup {NULL}]
  /\ sent_to \in [Msg -> Task \cup {"nowhere"}]

(* A task never waits for a message while there is one in its mailbox, be  *)
(* it suspended meanwhile or not: vref_tmb reports one or the other.       *)
NoMailWhileWaiting ==
  \A t \in Task : vref_tmb(t).wtsk # NoTask => vref_tmb(t).pk_msg = NADR

(* The messages that were sent to a task and not received are in its       *)
(* mailbox, once each, and a task that ends and is started again finds     *)
(* none of the messages that its earlier life was sent.                    *)
MailExact ==
  \A t \in Task :
    /\ IsInjective(mail(t))
    /\ ToSet(mail(t)) = {m \in Msg : sent_to[m] = t}

(* The mailbox of every task is a first-in first-out queue.                *)
TaskMail == INSTANCE MessageQueues WITH
  Box <- Task, ByPriority <- {}, Message <- Msg, pri <- msgpri,
  queue <- [t \in Task |-> mail(t)]

ServesTaskMail == TaskMail!Spec
=============================================================================
