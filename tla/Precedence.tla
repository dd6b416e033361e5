------------------------------ MODULE Precedence ------------------------------
(***************************************************************************)
(* What the scheduler promises (doc/USER, the sections on the ready queue  *)
(* and on dispatching), with no queue, bitmap or cached head in it: the    *)
(* ready tasks are ordered by precedence.  A task of higher priority       *)
(* precedes one of lower priority, among tasks of one priority the one     *)
(* that came first precedes, and the task that should run is the one that  *)
(* no other precedes.                                                      *)
(***************************************************************************)
EXTENDS Integers

CONSTANTS Task, NoTask, Priority, FirstTask, FirstPriority

VARIABLES
  ready,   (* the tasks that are ready                                     *)
  pri,     (* the priority of each task, ready or not                      *)
  ahead,   (* <<t, u>> when t precedes u                                   *)
  first    (* the task that should run                                     *)

precvars == <<ready, pri, ahead, first>>

(* Behind the tasks of S whose priority is not lower, ahead of the others. *)
Place(t, S, p) ==
  {<<u, t>> : u \in {v \in S : p[v] <= p[t]}}
    \cup {<<t, u>> : u \in {v \in S : p[v] > p[t]}}

Without(t) == {pair \in ahead : t \notin {pair[1], pair[2]}}

IsFirst(t, S, order) == \A u \in S \ {t} : <<t, u>> \in order

ElectFirst ==
  \/ ready' = {} /\ first' = NoTask
  \/ first' \in ready' /\ IsFirst(first', ready', ahead')

Init ==
  /\ ready = {FirstTask}
  /\ pri \in [Task -> Priority]
  /\ pri[FirstTask] = FirstPriority
  /\ ahead = {}
  /\ first = FirstTask

Enter(t) ==
  /\ t \notin ready
  /\ ready' = ready \cup {t}
  /\ ahead' = ahead \cup Place(t, ready, pri)
  /\ UNCHANGED pri
  /\ ElectFirst

(* A task that ends gets its initial priority back.                        *)
Leave(t, p) ==
  /\ t \in ready
  /\ ready' = ready \ {t}
  /\ ahead' = Without(t)
  /\ pri' = [pri EXCEPT ![t] = p]
  /\ ElectFirst

(* Also the rotation of a queue, when t is the first of its priority and p *)
(* is its priority: it goes behind the tasks of equal priority.            *)
Requeue(t, p) ==
  /\ t \in ready
  /\ pri' = [pri EXCEPT ![t] = p]
  /\ ahead' = Without(t) \cup Place(t, ready \ {t}, pri')
  /\ UNCHANGED ready
  /\ ElectFirst

SetPriority(t, p) ==
  /\ t \notin ready
  /\ pri' = [pri EXCEPT ![t] = p]
  /\ UNCHANGED <<ready, ahead, first>>

Next ==
  \E t \in Task :
    \/ Enter(t)
    \/ \E p \in Priority : Leave(t, p) \/ Requeue(t, p) \/ SetPriority(t, p)

Spec == Init /\ [][Next]_precvars
-----------------------------------------------------------------------------
(* Precedence is a strict total order of the ready tasks that puts no task *)
(* ahead of one of higher priority, and the task that should run is ahead  *)
(* of all the others.                                                      *)
PrecedenceOrder ==
  /\ ahead \subseteq ready \X ready
  /\ \A t, u \in ready : t # u <=> (<<t, u>> \in ahead \/ <<u, t>> \in ahead)
  /\ \A t, u \in ready : ~(<<t, u>> \in ahead /\ <<u, t>> \in ahead)
  /\ \A t, u, v \in ready : <<t, u>> \in ahead /\ <<u, v>> \in ahead => <<t, v>> \in ahead
  /\ \A t, u \in ready : <<t, u>> \in ahead => pri[t] <= pri[u]
  /\ IF ready = {} THEN first = NoTask
     ELSE first \in ready /\ IsFirst(first, ready, ahead)
=============================================================================
