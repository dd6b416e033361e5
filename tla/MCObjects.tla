------------------------------- MODULE MCObjects -------------------------------
(***************************************************************************)
(* The objects that hand something to one task at a time: semaphores,      *)
(* event flags, mailboxes, task mailboxes and fixed-length memory pools,   *)
(* two tasks and a handler.  In every behaviour the program uses one kind  *)
(* of object, chosen at the start, so the instance is the union of the     *)
(* instances of the kinds.  Event flags and mailboxes, whose wait queues   *)
(* here are first come first served, are used by tasks of one priority,    *)
(* and there is one event flag at a time.                                  *)
(*                                                                         *)
(* The view leaves out what the kernel keeps of objects that do not exist, *)
(* of messages that are in no mailbox and of tasks that do not wait.       *)
(***************************************************************************)
EXTENDS Semaphore, EventFlag, Mailbox, TaskMailbox, FixedMemoryPool, MCTaskManagement

CONSTANTS m1, m2, m3

MCmsgpri == [m \in Msg |-> IF m = m3 THEN 1 ELSE 2]

VARIABLE kind   (* the kind of object the program uses                     *)

allvars == <<kind, vars, semvars, flgvars, mbxvars, tmbvars, mpfvars>>

OnePriStep == WaitStep \/ \E t \in Task : sta_tsk(t) \/ cre_tsk(t, TSK_INIT_PRI)

TmbStep ==
  \/ OnePriStep
  \/ exd_tsk
  \/ \E t \in Task : del_tsk(t) \/ wup_tsk(t)
  \/ \E timed \in BOOLEAN : tslp_tsk(timed)

SemaphoreStep ==
  /\ kind = "semaphore"
  /\ SemCall \/ (TaskStep /\ UNCHANGED semvars)
  /\ UNCHANGED <<kind, flgvars, mbxvars, tmbvars, mpfvars>>

EventFlagStep ==
  /\ kind = "eventflag"
  /\ (FlgCall /\ Cardinality(flgs') <= 1) \/ (OnePriStep /\ UNCHANGED flgvars)
  /\ UNCHANGED <<kind, semvars, mbxvars, tmbvars, mpfvars>>

MailboxStep ==
  /\ kind = "mailbox"
  /\ MbxCall \/ (OnePriStep /\ UNCHANGED mbxvars)
  /\ UNCHANGED <<kind, semvars, flgvars, tmq, mpfvars>>

TaskMailboxStep ==
  /\ kind = "taskmbox"
  /\ TmbCall \/ (TmbStep /\ empty_mailboxes)
  /\ UNCHANGED <<kind, semvars, flgvars, mbxs, mq, mpfvars>>

FixedMemoryPoolStep ==
  /\ kind = "mempfix"
  /\ MpfCall \/ (TaskStep /\ UNCHANGED mpfvars)
  /\ UNCHANGED <<kind, semvars, flgvars, mbxvars, tmbvars>>

ObjectsInit ==
  /\ kind \in {"semaphore", "eventflag", "mailbox", "taskmbox", "mempfix"}
  /\ Init
  /\ semaphore_initialize /\ eventflag_initialize /\ mailbox_initialize
  /\ taskmbox_initialize /\ fix_memorypool_initialize

ObjectsNext ==
  SemaphoreStep \/ EventFlagStep \/ MailboxStep \/ TaskMailboxStep \/ FixedMemoryPoolStep

ObjectsSpec == ObjectsInit /\ [][ObjectsNext]_allvars

View ==
  <<kind, TaskView,
    CASE kind = "semaphore" -> [s \in created |-> <<semcnt[s], maxsem[s]>>]
      [] kind = "eventflag" ->
           <<[f \in flgs |-> flgptn[f]],
             [t \in {u \in Task : wspec[u] \in Flg} |-> winfo[t]]>>
      [] kind = "mempfix" ->
           [p \in mpfs |-> <<mpfcnt[p], blfsz[p], mpfsz[p], frbcnt[p], unused[p],
                             freelist[p], lent[p]>>]
      [] OTHER ->
           <<[b \in mbxs |-> mq[b]], InUse(tmq), sent_to,
             [m \in Msg |-> IF sent_to[m] = "nowhere" THEN NULL ELSE nextmsg[m]]>>>>
-----------------------------------------------------------------------------
(* Every variable has its type, and a waiting task is in the wait queue of *)
(* its object, once, and in no other (WaitQueueExact): however its wait    *)
(* ended, it has left the queue with the state.  A message is in the list  *)
(* of the mailbox it was sent to, or in none.                              *)
QueuesExact ==
  /\ TypeOK /\ WaitQueueExact
  /\ kind = "mailbox" => MessagesExact
  /\ kind = "taskmbox" => MailExact
  /\ kind = "semaphore" => SemTypeOK
  /\ kind = "eventflag" => FlgTypeOK
  /\ kind = "mailbox" => MbxTypeOK
  /\ kind = "taskmbox" => TmbTypeOK
  /\ kind = "mempfix" => MpfTypeOK

(* No task waits for what is there: not for a unit that a semaphore could  *)
(* give, a condition of an event flag that holds, a message that is in the *)
(* mailbox or a free block, whatever became of the tasks that waited       *)
(* before it and of the suspensions of those that wait.                    *)
NobodyWaitsForWhatIsThere ==
  CASE kind = "semaphore" -> NoUnitWhileWaiting
    [] kind = "eventflag" -> NoSatisfiedWaiter /\ SingleWaiter
    [] kind = "mailbox"   -> NoMessageWhileWaiting
    [] kind = "taskmbox"  -> NoMailWhileWaiting
    [] kind = "mempfix"   -> NoBlockWhileWaiting

(* The linked lists of mailboxes and of task mailboxes behave as queues of *)
(* messages (MessageQueues).                                               *)
ServesMail == ServesMessageQueues /\ ServesTaskMail

(* A fixed-length memory pool serves tasks as a semaphore does.            *)
ServesUnits ==
  /\ kind = "mempfix" => PoolInit
  /\ [][kind = "mempfix" => PoolStep]_allvars
=============================================================================
