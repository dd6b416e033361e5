------------------------------ MODULE SystemTime ------------------------------
(***************************************************************************)
(* The time for performance evaluation, vget_tim (kernel/timer.c), and the *)
(* hardware timer it reads (sys_timer.h of the ports).  vget_tim combines  *)
(* the software clock, the count of the hardware timer and the pending     *)
(* interrupt of the timer, three reads between which time goes on.         *)
(*                                                                         *)
(* Time is counted in ticks of the hardware timer: the clock, which the    *)
(* code keeps in milliseconds, is a multiple of PERIOD here.               *)
(***************************************************************************)
EXTENDS Integers

CONSTANTS
  PERIOD,         (* TO_TICK(TIMER_PERIOD)                                 *)
  GET_TOLERANCE,  (* estimate of the time vget_tim takes for its reads     *)
  LATENCY,        (* how long a timer interrupt is kept waiting            *)
  NESTED,         (* handlers of a level above that of the timer run, and  *)
                  (* call vget_tim                                         *)
  MAX_TIME        (* bound of the model                                    *)

SystemTimeAssumption ==
  /\ PERIOD \in Nat \ {0}
  /\ GET_TOLERANCE \in 1 .. PERIOD
  /\ LATENCY \in 0 .. PERIOD - 1
  /\ NESTED \in BOOLEAN
  /\ MAX_TIME \in Nat

VARIABLES
  elapsed,       (* the ticks since the start of the timer                 *)
  hw_count,      (* the count of the timer, those of them in this period   *)
  ireq,          (* its interrupt request                                  *)
  current_time,  (* the software clock                                     *)
  handler,       (* timer_handler: "idle", or "entered" when it has        *)
                 (* cleared the request and not yet advanced the clock     *)
  reader,        (* what vget_tim has done: "idle", "begun", "ctime",      *)
                 (* "tick", "ireq"                                         *)
  ctime, tick,   (* what it has read                                       *)
  entry,         (* when it was called                                     *)
  sysutim        (* its latest result                                      *)

readvars == <<reader, ctime, tick, entry, sysutim>>
vars     == <<elapsed, hw_count, ireq, current_time, handler, readvars>>

Init ==
  /\ elapsed = 0 /\ hw_count = 0 /\ ireq = FALSE /\ current_time = 0
  /\ handler = "idle" /\ reader = "idle"
  /\ ctime = 0 /\ tick = 0 /\ entry = 0 /\ sysutim = 0

get_current_hw_time == hw_count

masked == reader \in {"ctime", "tick", "ireq"}

(***************************************************************************)
(* The hardware counts.  A request waits no longer than LATENCY before its *)
(* handler starts, the handler no longer before it advances the clock; and *)
(* the reads take no longer than they are estimated to.                    *)
(***************************************************************************)
count ==
  /\ elapsed < MAX_TIME
  /\ ireq => get_current_hw_time < LATENCY
  /\ handler = "entered" => get_current_hw_time < LATENCY
  /\ masked => elapsed - entry < GET_TOLERANCE
  /\ elapsed' = elapsed + 1
  /\ hw_count' = IF hw_count = PERIOD - 1 THEN 0 ELSE hw_count + 1
  /\ ireq' = (ireq \/ hw_count' = 0)
  /\ UNCHANGED <<current_time, handler, readvars>>

clear_hw_timer_interrupt ==
  /\ ireq
  /\ handler = "idle"
  /\ ~masked
  /\ ireq' = FALSE
  /\ handler' = "entered"
  /\ UNCHANGED <<elapsed, hw_count, current_time, readvars>>

timer_handler ==
  /\ handler = "entered"
  /\ ~masked
  /\ current_time' = current_time + PERIOD
  /\ handler' = "idle"
  /\ UNCHANGED <<elapsed, hw_count, ireq, readvars>>

-----------------------------------------------------------------------------
(* The caller has masked interrupts from here to the end.  A call that is  *)
(* interrupted before has not begun.                                       *)
i_vget_tim ==
  /\ reader = "idle"
  /\ handler = "entered" => NESTED
  /\ reader' = "ctime"
  /\ entry' = elapsed
  /\ ctime' = current_time
  /\ UNCHANGED <<elapsed, hw_count, ireq, current_time, handler, tick, sysutim>>

read_tick ==
  /\ reader = "ctime"
  /\ reader' = "tick"
  /\ tick' = get_current_hw_time
  /\ UNCHANGED <<elapsed, hw_count, ireq, current_time, handler, ctime, entry, sysutim>>

(* Mutated: a pending interrupt always counts as a period.                 *)
read_ireq_without_tolerance ==
  /\ reader = "tick"
  /\ reader' = "ireq"
  /\ sysutim' = IF ireq THEN ctime + PERIOD + tick ELSE ctime + tick
  /\ UNCHANGED <<elapsed, hw_count, ireq, current_time, handler, ctime, tick, entry>>

(* fetch_hw_timer_interrupt and the result: a request that was pending     *)
(* when the count was read is a period that the clock does not know of.    *)
read_ireq ==
  /\ reader = "tick"
  /\ reader' = "ireq"
  /\ sysutim' = IF ireq /\ tick < PERIOD - GET_TOLERANCE
                THEN ctime + PERIOD + tick
                ELSE ctime + tick
  /\ UNCHANGED <<elapsed, hw_count, ireq, current_time, handler, ctime, tick, entry>>

vget_tim_returns ==
  /\ reader = "ireq"
  /\ reader' = "idle"
  /\ UNCHANGED <<elapsed, hw_count, ireq, current_time, handler, ctime, tick, entry, sysutim>>

Next ==
  \/ count
  \/ clear_hw_timer_interrupt \/ timer_handler
  \/ i_vget_tim \/ read_tick \/ read_ireq \/ vget_tim_returns

Spec == Init /\ [][Next]_vars
-----------------------------------------------------------------------------
(* vget_tim returns the current time: a moment between its call and its    *)
(* return, however the count wraps around or the timer interrupt becomes   *)
(* pending between its reads.  In particular it never goes back.           *)
ReadsTheTime == reader = "ireq" => sysutim \in entry .. elapsed
=============================================================================
