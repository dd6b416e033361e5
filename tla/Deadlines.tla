------------------------------- MODULE Deadlines -------------------------------
(***************************************************************************)
(* What the timer module promises (the comments of kernel/timer.c), with   *)
(* no queue in it: an event that is registered for a time is served by the *)
(* first timer interrupt that finds the clock at or past that time, not    *)
(* earlier, and events are served in the order of their times.             *)
(***************************************************************************)
EXTENDS Integers

CONSTANTS Event, Time

VARIABLES
  now,       (* the software clock                                         *)
  pending,   (* the registered events                                      *)
  deadline,  (* the time each of them is registered for                    *)
  serving    (* a timer interrupt is being served                          *)

deadlinevars == <<now, pending, deadline, serving>>

Due(e) == e \in pending /\ deadline[e] <= now

Init ==
  /\ now = 0
  /\ pending = {}
  /\ deadline \in [Event -> Time]
  /\ serving = FALSE

(* Only for a time still to come; an event may be registered anew.         *)
Arm(e, d) ==
  /\ d > now
  /\ pending' = pending \cup {e}
  /\ deadline' = [deadline EXCEPT ![e] = d]
  /\ UNCHANGED <<now, serving>>

Disarm(e) ==
  /\ pending' = pending \ {e}
  /\ UNCHANGED <<now, deadline, serving>>

SetClock(t) ==
  /\ now' = t
  /\ UNCHANGED <<pending, deadline, serving>>

Interrupt ==
  /\ ~serving
  /\ serving' = TRUE
  /\ now' > now
  /\ UNCHANGED <<pending, deadline>>

(* An event that is due and that no other precedes; a cyclic one is        *)
(* registered again, for a time to come.                                   *)
Serve(e) ==
  /\ serving
  /\ Due(e)
  /\ \A f \in pending : deadline[e] <= deadline[f]
  /\ \/ /\ pending' = pending \ {e}
        /\ UNCHANGED deadline
     \/ /\ \E d \in Time : d > now /\ deadline' = [deadline EXCEPT ![e] = d]
        /\ UNCHANGED pending
  /\ UNCHANGED <<now, serving>>

Return ==
  /\ serving
  /\ \A e \in Event : ~Due(e)
  /\ serving' = FALSE
  /\ UNCHANGED <<now, pending, deadline>>

Next ==
  \/ \E e \in Event : Disarm(e) \/ Serve(e) \/ \E d \in Time : Arm(e, d)
  \/ \E t \in Time : SetClock(t)
  \/ Interrupt \/ Return

Spec == Init /\ [][Next]_deadlinevars
=============================================================================
