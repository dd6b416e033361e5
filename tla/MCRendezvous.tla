----------------------------- MODULE MCRendezvous -----------------------------
(***************************************************************************)
(* Rendezvous with tasks of one priority and a handler.  Each behaviour is *)
(* of one of two kinds, chosen at the start: three tasks that do not end   *)
(* meet at one port, and only the handler that serves time-outs runs, or   *)
(* two tasks, which are suspended and end too, use two ports, the second   *)
(* for shorter replies.                                                    *)
(*                                                                         *)
(* The view leaves out what belongs to tasks that wait for something else. *)
(***************************************************************************)
EXTENDS Rendezvous, MCTaskManagement

CONSTANT ALLRDV   (* how many rendezvous of three tasks are followed     *)

CONSTANTS t1, t2, t3, p1, p2, cal1, cal2, acp1, acp2

MCcall_queue   == [p \in Por |-> IF p = p1 THEN cal1 ELSE cal2]
MCaccept_queue == [p \in Por |-> IF p = p1 THEN acp1 ELSE acp2]
MCmaxrmsz      == [p \in Por |-> IF p = p1 THEN 2 ELSE 1]

TaskSymmetry == Permutations({t2, t3})

VARIABLE part   (* how many tasks there are                                *)

AtPort(t)  == wspec[t] \in Gcb
Calling(t) == wspec[t] \in {"rdv", cal1, cal2}

View == <<part, TaskView, pors, wrdvno, known, relinked, polled,
          [t \in Task |-> <<IF AtPort(t) THEN ptn[t] ELSE {},
                            IF Calling(t) THEN room[t] ELSE 0,
                            IF in_rdv(t) THEN <<rdvno[t], rmax[t]>> ELSE << >> >>]>>

(* The rendezvous of all tasks so far.                                     *)
SumRdv == MapThenSumSet(LAMBDA t : wrdvno[t], Task)

ThreeTasksStep ==
  /\ part = "three tasks"
  /\ (RdvCall /\ p2 \notin pors') \/ ((AloneStep \/ LifeStep) /\ ends)
  /\ in_indp' => in_indp \/ timer_queue # {}
  /\ SumRdv' <= ALLRDV

TwoTasksStep ==
  /\ part = "two tasks"
  /\ RdvCall \/ ((WaitStep \/ LifeStep) /\ ends)
  /\ Cardinality({t \in Task : state'[t] # "NONEXIST"}) <= 2
  /\ \A t \in Task : ptn'[t] = {1}

MCInit == RdvInit /\ part \in {"three tasks", "two tasks"}

MCNext == intact /\ (ThreeTasksStep \/ TwoTasksStep) /\ UNCHANGED part

MCSpec == MCInit /\ [][MCNext]_<<vars, porvars, part>>
-----------------------------------------------------------------------------
(* Every variable has its type, and no reply is longer than the buffer     *)
(* that the caller provided, wherever its call is forwarded to.            *)
RepliesSound == RdvTypeOK /\ ReplyFits
=============================================================================
