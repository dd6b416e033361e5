------------------------------- MODULE MCPriSem -------------------------------
(***************************************************************************)
(* PriSem with three tasks of three priorities, two or three semaphores    *)
(* and a handler.  Each behaviour is of one of these parts, chosen at the  *)
(* start:                                                                  *)
(*   "ordered"    the tasks take three semaphores in one order, so that    *)
(*                they never wait for each other in a circle; any of them  *)
(*                may be terminated, and the semaphores deleted;           *)
(*   "chg_pri"    the same with two semaphores, and tasks are suspended    *)
(*                and have their priorities changed too;                   *)
(*   "deadlock"   they take two semaphores in any order, also one that     *)
(*                they have; circles are broken by time-outs and releases; *)
(*   "delete"     circles are broken by vdel_pis too;                      *)
(*   "terminate"  circles are broken by ter_tsk too.                       *)
(***************************************************************************)
EXTENDS PriSem

CONSTANTS t1, t2, t3, p1, p2, p3, Parts

InOrder == {<<p1, p2>>, <<p1, p3>>, <<p2, p3>>}

initial_priority == [t \in {t1, t2, t3} |-> IF t = t1 THEN 2 ELSE IF t = t2 THEN 1 ELSE 0]

VARIABLE part

InUse(field) == [t \in Task |-> IF state[t] = "NONEXIST" THEN 0 ELSE field[t]]

View == <<part, state, InUse(suscnt), InUse(priority), InUse(ipriority), waitvars, schedvars,
          cpuvars, piss, [p \in piss |-> pistsk[p]], InUse(pislist), chg_pri_used>>

LifeStep ==
  \/ \E t \in Task : sta_tsk(t) \/ cre_tsk(t, initial_priority[t])
  \/ dispatch \/ interrupt \/ ret_int

EndOfWait == \E t \in Task : pis_rel_wai_tsk(t) \/ pis_timer_handler(t)

SemaphoreStep ==
  \E p \in Pis :
    \/ vcre_pis(p) \/ vsig_pis(p)
    \/ /\ in_task
       /\ part \in {"ordered", "chg_pri"} => taken_in_order(p)
       /\ \E timed \in BOOLEAN : vtwai_pis(p, timed)

DeleteStep == \E p \in Pis : vdel_pis(p)

TerminateStep == \E t \in Task : pis_ter_tsk(t)

ChgPriStep ==
  \/ \E t \in Task, pri \in Priority : pis_chg_pri_tsk(t, pri)
  \/ pis_exd_tsk
  \/ (\E t \in Task : sus_tsk(t) \/ rsm_tsk(t)) /\ UNCHANGED pisvars

MCInit == PisInit /\ part \in Parts

MCNext ==
  /\ \/ SemaphoreStep \/ EndOfWait \/ pis_ext_tsk \/ (LifeStep /\ UNCHANGED pisvars)
     \/ part \in {"ordered", "chg_pri", "delete"} /\ DeleteStep
     \/ part \in {"ordered", "chg_pri", "terminate"} /\ TerminateStep
     \/ part = "chg_pri" /\ ChgPriStep
  /\ part # "ordered" => piss' \subseteq {p1, p2}
  /\ UNCHANGED part

MCSpec == MCInit /\ [][MCNext]_<<vars, pisvars, part>>
=============================================================================
