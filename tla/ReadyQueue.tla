------------------------------ MODULE ReadyQueue ------------------------------
(***************************************************************************)
(* The ready queue of the kernel (kernel/ready_queue.h).                   *)
(*                                                                         *)
(* The queue of a priority is a sequence of tasks.  The RDYQUE structure   *)
(* is a record; its operations are functions from record to record.  The   *)
(* priority that the code reads from the TCB is an argument, because the   *)
(* callers change the priority of a task between a deletion and an         *)
(* insertion.  Priorities are in the internal representation (0 is the     *)
(* highest, see int_priority in kernel/task.h).                            *)
(***************************************************************************)
EXTENDS Queues

CONSTANTS
  Task,      (* the task control blocks of tcb_table                       *)
  NoTask,    (* the null pointer where a TCB is expected                   *)
  NUM_PRI,   (* the number of priority levels                              *)
  BITMAPSZ   (* the number of bits in one word of the bitmap               *)

ASSUME ReadyQueueAssumption ==
  /\ NoTask \notin Task
  /\ NUM_PRI \in Nat \ {0}
  /\ BITMAPSZ \in Nat \ {0}

Priority == 0 .. NUM_PRI - 1

(***************************************************************************)
(* The bitmap is the set of the priorities whose bit is 1: bit             *)
(* p % BITMAPSZ of word p \div BITMAPSZ stands for priority p.             *)
(***************************************************************************)
RDYQUE == [top_priority : 0 .. NUM_PRI,
           tskque       : [Priority -> Seq(Task)],
           bitmap       : SUBSET Priority]

-----------------------------------------------------------------------------
ready_queue_initialize ==
  [top_priority |-> NUM_PRI,
   tskque       |-> [p \in Priority |-> << >>],
   bitmap       |-> {}]

(***************************************************************************)
(* The head of the queue of top_priority.  When the ready queue is empty   *)
(* the code reads the field null, which follows tskque in memory.          *)
(***************************************************************************)
ready_queue_top(rq) ==
  IF rq.top_priority = NUM_PRI THEN NoTask ELSE Head(rq.tskque[rq.top_priority])

(* Mutated: the entry goes in front of the queue of its priority.          *)
ready_queue_insert_front(rq, t, p) ==
  [top_priority |-> IF p < rq.top_priority THEN p ELSE rq.top_priority,
   tskque       |-> [rq.tskque EXCEPT ![p] = <<t>> \o @],
   bitmap       |-> rq.bitmap \cup {p}]

ready_queue_insert(rq, t, p) ==
  [top_priority |-> IF p < rq.top_priority THEN p ELSE rq.top_priority,
   tskque       |-> [rq.tskque EXCEPT ![p] = Append(@, t)],
   bitmap       |-> rq.bitmap \cup {p}]

(***************************************************************************)
(* The search of ready_queue_delete for the next priority: the lowest bit  *)
(* of the first non-zero word, from the word that holds priority p on.     *)
(***************************************************************************)
bitmap_search(bitmap, p) ==
  LET found == {b \in bitmap : b \div BITMAPSZ >= p \div BITMAPSZ}
  IN  IF found = {} THEN NUM_PRI ELSE Min(found)

ready_queue_delete(rq, t, p) ==
  LET q       == queue_delete(rq.tskque[p], t)
      cleared == rq.bitmap \ {p}
      tskque  == [rq.tskque EXCEPT ![p] = q]
  IN  IF q # << >>
      THEN [rq EXCEPT !.tskque = tskque]
      ELSE [top_priority |-> IF p = rq.top_priority
                             THEN bitmap_search(cleared, p)
                             ELSE rq.top_priority,
            tskque       |-> tskque,
            bitmap       |-> cleared]

(***************************************************************************)
(* Moves the head of the queue of priority p to its tail.  Neither the     *)
(* bitmap nor top_priority is touched.                                     *)
(***************************************************************************)
ready_queue_rotate(rq, p) ==
  LET q == rq.tskque[p]
  IN  IF q = << >>
      THEN rq
      ELSE [rq EXCEPT !.tskque[p] = Append(Tail(q), Head(q))]

-----------------------------------------------------------------------------
(***************************************************************************)
(* What a consistent ready queue is.  Lists: it holds each task of S once, *)
(* in the queue of its priority, and no other task.  Indexed: the bitmap   *)
(* and top_priority, which are maintained incrementally, agree with the    *)
(* queues.                                                                 *)
(***************************************************************************)
Lists(rq, S, pri) ==
  \A p \in Priority :
    /\ IsInjective(rq.tskque[p])
    /\ ToSet(rq.tskque[p]) = {t \in S : pri[t] = p}

Indexed(rq) ==
  /\ rq.bitmap = {p \in Priority : rq.tskque[p] # << >>}
  /\ \A p \in rq.bitmap : rq.top_priority <= p
  /\ rq.bitmap # {} => rq.top_priority \in rq.bitmap
  /\ rq.bitmap = {} => rq.top_priority = NUM_PRI
=============================================================================
