------------------------------ MODULE Semaphore ------------------------------
(***************************************************************************)
(* Counting semaphores (kernel/semaphore.c), on top of the task management *)
(* calls: a handler or another task can release, suspend, terminate or     *)
(* change the priority of a task that waits for a semaphore, and its wait  *)
(* can time out.                                                           *)
(*                                                                         *)
(* A semaphore ID keeps the attribute TA_TFIFO or TA_TPRI whenever it is   *)
(* created: its wait queue is empty then.                                  *)
(***************************************************************************)
EXTENDS TaskManagement

CONSTANTS
  Sem,      (* the semaphore control blocks                                *)
  MAXSEM    (* the largest maxsem a semaphore is created with              *)

ASSUME SemaphoreAssumption ==
  /\ Sem \subseteq Gcb
  /\ MAXSEM \in Nat \ {0}

VARIABLES
  created,  (* the semaphores whose sematr is not OBJ_NONEXIST             *)
  semcnt,   (* the count of each semaphore                                 *)
  maxsem    (* its limit                                                   *)

semvars == <<created, semcnt, maxsem>>

semaphore_initialize ==
  /\ created = {}
  /\ semcnt = [s \in Sem |-> 0]
  /\ maxsem = [s \in Sem |-> 0]

-----------------------------------------------------------------------------
cre_sem(s, isemcnt, max) ==
  /\ caller
  /\ isemcnt <= max
  /\ s \notin created
  /\ created' = created \cup {s}
  /\ semcnt' = [semcnt EXCEPT ![s] = isemcnt]
  /\ maxsem' = [maxsem EXCEPT ![s] = max]
  /\ UNCHANGED vars

del_sem(s) ==
  /\ caller
  /\ s \in created
  /\ wait_delete(s)
  /\ created' = created \ {s}
  /\ UNCHANGED <<semcnt, maxsem, countvars, privars, cpuvars>>

(* The unit goes to the first waiting task, if there is one.               *)
sig_sem(s) ==
  /\ caller
  /\ s \in created
  /\ IF wait_queue[s] # << >>
     THEN /\ wait_release(Head(wait_queue[s]))
          /\ UNCHANGED semcnt
     ELSE /\ semcnt[s] < maxsem[s]
          /\ semcnt' = [semcnt EXCEPT ![s] = @ + 1]
          /\ UNCHANGED <<state, schedvars, waitvars>>
  /\ UNCHANGED <<created, maxsem, countvars, privars, cpuvars>>

(* wai_sem is twai_sem with no time-out; preq_sem is its first case only.  *)
twai_sem(s, timed) ==
  /\ in_task
  /\ ~in_ddsp
  /\ s \in created
  /\ IF semcnt[s] >= 1
     THEN /\ semcnt' = [semcnt EXCEPT ![s] = @ - 1]
          /\ UNCHANGED <<state, schedvars, waitvars>>
     ELSE /\ gcb_make_wait(s, timed)
          /\ UNCHANGED semcnt
  /\ UNCHANGED <<created, maxsem, countvars, privars, cpuvars>>

ref_sem(s) == [wtsk |-> wait_tskid(s), semcnt |-> semcnt[s]]

-----------------------------------------------------------------------------
SemCall ==
  \E s \in Sem :
    \/ \E isemcnt, max \in 0 .. MAXSEM : cre_sem(s, isemcnt, max)
    \/ del_sem(s)
    \/ sig_sem(s)
    \/ \E timed \in BOOLEAN : twai_sem(s, timed)

SemInit == Init /\ semaphore_initialize

SemNext == SemCall \/ (Next /\ UNCHANGED semvars)

SemSpec == SemInit /\ [][SemNext]_<<vars, semvars>>
-----------------------------------------------------------------------------
(* Every variable has its type, and no count exceeds its limit.            *)
SemTypeOK ==
  /\ TypeOK
  /\ created \in SUBSET Sem
  /\ maxsem \in [Sem -> 0 .. MAXSEM]
  /\ semcnt \in [Sem -> 0 .. MAXSEM]
  /\ \A s \in Sem : semcnt[s] <= maxsem[s]

(* Nobody waits for a semaphore that has a unit to give: a unit is handed  *)
(* to a waiter rather than counted, whatever ended earlier waits, and      *)
(* ref_sem never reports both a waiting task and a count.                  *)
NoUnitWhileWaiting ==
  \A s \in Sem : wait_tskid(s) # NoTask => s \in created /\ ref_sem(s).semcnt = 0

(* The tasks in the wait queue of a TA_TPRI object are in the order of     *)
(* their current priorities, also after a waiting or suspended waiter has  *)
(* had its priority changed.                                               *)
WaitQueueSorted ==
  \A g \in TaTpri : \A i, j \in DOMAIN wait_queue[g] :
    i < j => priority[wait_queue[g][i]] <= priority[wait_queue[g][j]]
(* Tasks that wait for a TA_TFIFO object never overtake each other: no     *)
(* call, not even a change of their priorities, swaps two that both wait.  *)
WaitersKeepTheirOrder ==
  [][\A g \in Gcb \ TaTpri : \A t, u \in ToSet(wait_queue'[g]) :
       before(wait_queue[g], t, u) => before(wait_queue'[g], t, u)]_<<vars, semvars>>
=============================================================================
