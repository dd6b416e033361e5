----------------------------- MODULE MessageQueues -----------------------------
(***************************************************************************)
(* What a mailbox promises: its messages are a queue, first in first out   *)
(* or by priority; one call puts one message into one queue or takes the   *)
(* first one out, and a message is in one queue at a time.  Only the end   *)
(* of a queue's owner discards messages.                                   *)
(***************************************************************************)
EXTENDS Integers, SequencesExt

CONSTANTS
  Box, ByPriority, Message, pri

VARIABLES queue

Init == queue = [b \in Box |-> << >>]

Queued == UNION {ToSet(queue[b]) : b \in Box}

Put(b, m) ==
  /\ m \notin Queued
  /\ \E i \in 1 .. Len(queue[b]) + 1 :
       /\ IF b \in ByPriority
          THEN \A j \in 1 .. Len(queue[b]) : j < i <=> pri[queue[b][j]] < pri[m]
          ELSE i = Len(queue[b]) + 1
       /\ queue' = [queue EXCEPT ![b] = InsertAt(@, i, m)]

Take(b) ==
  /\ queue[b] # << >>
  /\ queue' = [queue EXCEPT ![b] = Tail(@)]

Discard(b) == queue' = [queue EXCEPT ![b] = << >>]

Next == \E b \in Box : Take(b) \/ Discard(b) \/ \E m \in Message : Put(b, m)

Spec == Init /\ [][Next]_queue
=============================================================================
