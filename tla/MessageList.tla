------------------------------ MODULE MessageList ------------------------------
(***************************************************************************)
(* The linked lists of messages of mailboxes (kernel/mailbox.c) and of     *)
(* task mailboxes (kernel/taskmbox.c).  A list is the record of its        *)
(* mq_head and mq_tail; the link of a message is in the message itself, so *)
(* all lists share the function nextmsg.                                   *)
(*                                                                         *)
(* A packet is sent only by who has it: while it is in a mailbox its link  *)
(* belongs to the kernel.  Who sent a packet has it again when a task has  *)
(* received it or the mailbox it was sent to has ended.                    *)
(***************************************************************************)
EXTENDS Integers, FiniteSets, SequencesExt

CONSTANTS
  Msg,      (* the message packets of the application                      *)
  NULL,     (* the null pointer                                            *)
  NADR,     (* the address the ref calls return when there is no message   *)
  msgpri    (* the priority in the header of each packet                   *)

ASSUME MessageListAssumption ==
  /\ NULL \notin Msg
  /\ NADR \notin Msg \cup {NULL}
  /\ IsFiniteSet(Msg)
  /\ msgpri \in [Msg -> Nat]

VARIABLES
  nextmsg,   (* the link of each message                                   *)
  sent_to    (* the mailbox each message was sent to, until it is received *)

MsgList == [mq_head : Msg \cup {NULL}, mq_tail : Msg \cup {NULL}]

no_messages == [mq_head |-> NULL, mq_tail |-> NULL]

(* The messages from first on; a list that runs into itself is cut off     *)
(* after more messages than there are.                                     *)
linked(next, first) ==
  LET from[n \in 0 .. Cardinality(Msg) + 1] ==
        [m \in Msg \cup {NULL} |->
           IF m = NULL \/ n = 0 THEN << >> ELSE <<m>> \o from[n - 1][next[m]]]
  IN  from[Cardinality(Msg) + 1][first]

messages(list) == linked(nextmsg, list.mq_head)

(* The list and the links once m is appended.                              *)
msg_append(list, m) ==
  IF list.mq_head # NULL
  THEN [list |-> [list EXCEPT !.mq_tail = m],
        nextmsg |-> [nextmsg EXCEPT ![m] = NULL, ![list.mq_tail] = m]]
  ELSE [list |-> [mq_head |-> m, mq_tail |-> m],
        nextmsg |-> [nextmsg EXCEPT ![m] = NULL]]

(* Mutated: the search starts behind the first message.                    *)
queue_insert_mpri_behind_first(list, m) ==
  LET queue  == messages(list)
      behind == {i \in DOMAIN queue \ {1} : msgpri[queue[i]] >= msgpri[m]}
      at     == IF behind = {} THEN Len(queue) + 1 ELSE Min(behind)
      next   == IF behind = {} THEN NULL ELSE queue[at]
  IN  IF at = 1
      THEN [list |-> [list EXCEPT !.mq_head = m],
            nextmsg |-> [nextmsg EXCEPT ![m] = next]]
      ELSE [list |-> list,
            nextmsg |-> [nextmsg EXCEPT ![m] = next, ![queue[at - 1]] = m]]

(***************************************************************************)
(* Before the first message whose priority is not higher: among messages   *)
(* of equal priority the last one sent comes first.  mq_tail is not kept   *)
(* up to date.                                                             *)
(***************************************************************************)
queue_insert_mpri(list, m) ==
  LET queue  == messages(list)
      behind == {i \in DOMAIN queue : msgpri[queue[i]] >= msgpri[m]}
      at     == IF behind = {} THEN Len(queue) + 1 ELSE Min(behind)
      next   == IF behind = {} THEN NULL ELSE queue[at]
  IN  IF at = 1
      THEN [list |-> [list EXCEPT !.mq_head = m],
            nextmsg |-> [nextmsg EXCEPT ![m] = next]]
      ELSE [list |-> list,
            nextmsg |-> [nextmsg EXCEPT ![m] = next, ![queue[at - 1]] = m]]

(* The first message leaves the list; its link and mq_tail stay.           *)
msg_remove(list) == [list EXCEPT !.mq_head = nextmsg[@]]
=============================================================================
