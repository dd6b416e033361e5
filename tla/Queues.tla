-------------------------------- MODULE Queues --------------------------------
(***************************************************************************)
(* The doubly linked queues of the kernel (kernel/queue.h): of tasks, of   *)
(* time events, of free memory.  A queue is the sequence of its entries,   *)
(* from the one behind the header on.                                      *)
(***************************************************************************)
EXTENDS Integers, SequencesExt

(***************************************************************************)
(* queue_delete leaves an entry that is linked to itself alone.            *)
(***************************************************************************)
queue_delete(q, t) == RemoveFirst(q, t)

(***************************************************************************)
(* queue_insert in front of position i of q (the queue header is position  *)
(* Len(q) + 1, and inserting there appends).                               *)
(***************************************************************************)
queue_insert(q, i, t) == InsertAt(q, i, t)

(***************************************************************************)
(* The position of the first entry whose key is greater than val, or that  *)
(* of the header.  The scan starts at the head, and its callers keep the   *)
(* queue sorted by that key.                                               *)
(***************************************************************************)
queue_search_gt(q, key, val) ==
  LET greater == {i \in DOMAIN q : key[q[i]] > val}
  IN  IF greater = {} THEN Len(q) + 1 ELSE Min(greater)
=============================================================================
