--------------------------- MODULE MCTaskManagement ---------------------------
(***************************************************************************)
(* TaskManagement with two or three tasks, and what the checked instances  *)
(* of the synchronisation objects share.                                   *)
(*                                                                         *)
(* The view leaves out the fields of a TCB that is not in use: they keep   *)
(* what the last task left there, no call reads them, and cre_tsk sets     *)
(* them all.                                                               *)
(***************************************************************************)
EXTENDS TaskManagement

InUse(field) == [t \in Task |-> IF state[t] = "NONEXIST" THEN 0 ELSE field[t]]

TaskView == <<state, InUse(wupcnt), InUse(suscnt), InUse(priority), InUse(ipriority),
              waitvars, schedvars, cpuvars>>

(***************************************************************************)
(* Two tasks make all the calls.  A third one, for the order of the ready  *)
(* queue, exists only while interrupts are not masked, dispatching is      *)
(* enabled, no wake-up request is counted and suspensions do not nest:     *)
(* none of these touches the ready queue.                                  *)
(***************************************************************************)
ThirdTask == CHOOSE t \in Task \ {TSK_INIT} : TRUE

NothingHeld ==
  /\ ipm = 0 /\ ~dispatch_disabled
  /\ \A t \in Task : wupcnt[t] = 0 /\ suscnt[t] <= 1

TasksNext == Next /\ (state'[ThirdTask] # "NONEXIST" => NothingHeld')

TasksSpec == Init /\ [][TasksNext]_vars /\ Fairness

-----------------------------------------------------------------------------
(***************************************************************************)
(* For the objects.  The calls that sleep, count wake-ups, rotate queues,  *)
(* mask interrupts or hold dispatching off are left out: none of them      *)
(* touches a wait queue or an object.  What can end the wait of a task     *)
(* besides the object's own calls is WaitStep: the time-out, the forced    *)
(* release, the termination, and suspension and resumption while it waits. *)
(* With three tasks, AloneStep leaves out terminations, which for the      *)
(* object are releases, and suspensions.                                   *)
(***************************************************************************)
AloneStep ==
  \/ \E t \in Task : rel_wai(t) \/ timer_handler(t)
  \/ dispatch \/ interrupt \/ ret_int

WaitStep ==
  AloneStep \/ ext_tsk \/ \E t \in Task : ter_tsk(t) \/ sus_tsk(t) \/ rsm_tsk(t)

LifeStep == \E t \in Task : sta_tsk(t) \/ \E pri \in Priority : cre_tsk(t, pri)

TaskStep ==
  \/ WaitStep \/ LifeStep
  \/ \E t \in Task : del_tsk(t) \/ \E pri \in Priority : chg_pri(t, pri)
  \/ exd_tsk
=============================================================================
