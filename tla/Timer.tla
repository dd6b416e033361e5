--------------------------------- MODULE Timer ---------------------------------
(***************************************************************************)
(* The timer queue (kernel/timer.c), the software clock, and the cyclic    *)
(* and alarm handlers on top of them (kernel/time_calls.c).                *)
(*                                                                         *)
(* A timer interrupt serves the due events one after the other with        *)
(* interrupts masked, so nothing comes between two of them but the system  *)
(* calls of the cyclic and alarm handlers it calls.  The callback of a     *)
(* task's event (wait_release_tmout) releases the task; what that does to  *)
(* the task is modelled in TaskManagement.                                 *)
(***************************************************************************)
EXTENDS Integers, SequencesExt

CONSTANTS
  Task,          (* the tasks, each with one time event (wtmeb)            *)
  Cyc,           (* the cyclic handler control blocks (cyccb_table)        *)
  Alm,           (* the alarm handler control blocks (almcb_table)         *)
  TIMER_PERIOD,  (* what a timer interrupt adds to the clock               *)
  MAX_TIME,      (* bound of the clock, which has 64 bits in the code      *)
  MAX_REL        (* the longest relative time that is asked for            *)

TimerAssumption ==
  /\ Task \cap Cyc = {} /\ Task \cap Alm = {} /\ Cyc \cap Alm = {}
  /\ IsFiniteSet(Cyc) /\ IsFiniteSet(Alm)
  /\ {"none", "loop"} \cap (Cyc \cup Alm) = {}
  /\ TIMER_PERIOD \in Nat \ {0}
  /\ MAX_TIME \in Nat
  /\ MAX_REL \in Nat \ {0}

Event == Task \cup Cyc \cup Alm

VARIABLES
  current_time,  (* the software clock                                     *)
  timer_queue,   (* the queue of the registered events                     *)
  time,          (* field time of each event                               *)
  cychdr,        (* the cyclic handlers whose cychdr is not NADR           *)
  cycact,        (* those whose cycact is TCY_ON                           *)
  cyctim,        (* their periods                                          *)
  free_cyccb,    (* the queue of the unused cyclic handler blocks          *)
  almhdr,        (* the alarm handlers whose almhdr is not NADR            *)
  free_almcb,    (* the queue of the unused alarm handler blocks           *)
  running        (* "none", "loop" while timer_handler looks at the queue, *)
                 (* or the cyclic or alarm handler that it has called      *)

cycvars == <<cychdr, cycact, cyctim, free_cyccb>>
almvars == <<almhdr, free_almcb>>
vars    == <<current_time, timer_queue, time, cycvars, almvars, running>>

(* The free lists hold the blocks in the order of their tables.            *)
cyclichandler_initialize ==
  /\ cychdr = {} /\ cycact = {}
  /\ cyctim = [c \in Cyc |-> 0]
  /\ free_cyccb = SetToSeq(Cyc)

alarmhandler_initialize ==
  /\ almhdr = {}
  /\ free_almcb = SetToSeq(Alm)

Init ==
  /\ current_time = 0
  /\ timer_queue = << >>
  /\ time = [e \in Event |-> 0]
  /\ cyclichandler_initialize
  /\ alarmhandler_initialize
  /\ running = "none"

-----------------------------------------------------------------------------
(* Mutated: the search stops at the first entry that is not earlier than   *)
(* the clock, not than the event.                                          *)
enqueue_tmeb_by_clock(q, e, at) ==
  LET later == {i \in DOMAIN q : current_time <= time[q[i]]}
  IN  InsertAt(q, IF later = {} THEN Len(q) + 1 ELSE Min(later), e)

(***************************************************************************)
(* In front of the first entry whose time is not earlier.                  *)
(***************************************************************************)
enqueue_tmeb(q, e, at) ==
  LET later == {i \in DOMAIN q : at <= time[q[i]]}
  IN  InsertAt(q, IF later = {} THEN Len(q) + 1 ELSE Min(later), e)

timer_delete(e) == RemoveFirst(timer_queue, e)

(* The event e, which q does not hold, is registered for the time at.      *)
timer_insert_abs(q, e, at) ==
  /\ time' = [time EXCEPT ![e] = at]
  /\ timer_queue' = enqueue_tmeb(q, e, at)

timer_insert_rel(q, e, tim) == timer_insert_abs(q, e, current_time + tim)

(* The time-out of a wait: tmout > 0 is asserted, TMO_FEVR registers       *)
(* nothing.                                                                *)
timer_insert(t, tmout) ==
  /\ running = "none"
  /\ t \notin ToSet(timer_queue)
  /\ timer_insert_rel(timer_queue, t, tmout)
  /\ UNCHANGED <<current_time, cycvars, almvars, running>>

(* A wait that ends before its time (wait_cancel).                         *)
cancel_timeout(t) ==
  /\ running # "loop"
  /\ timer_queue' = timer_delete(t)
  /\ UNCHANGED <<current_time, time, cycvars, almvars, running>>

-----------------------------------------------------------------------------
set_tim(tim) ==
  /\ running # "loop"
  /\ current_time' = tim
  /\ UNCHANGED <<timer_queue, time, cycvars, almvars, running>>

(* The block leaves the free list before its fields are set.               *)
_def_cyc(q, free, c, on, tim) ==
  /\ free_cyccb' = RemoveFirst(free, c)
  /\ cychdr' = cychdr \cup {c}
  /\ cycact' = IF on THEN cycact \cup {c} ELSE cycact \ {c}
  /\ cyctim' = [cyctim EXCEPT ![c] = tim]
  /\ timer_insert_rel(q, c, tim)

(* The old definition, if there is one, is cancelled first.                *)
def_cyc(c, on, tim) ==
  /\ running # "loop"
  /\ _def_cyc(timer_delete(c),
              IF c \in cychdr THEN Append(free_cyccb, c) ELSE free_cyccb, c, on, tim)
  /\ UNCHANGED <<current_time, almvars, running>>

(* def_cyc with pk_dcyc = NADR.                                            *)
undef_cyc(c) ==
  /\ running # "loop"
  /\ c \in cychdr
  /\ timer_queue' = timer_delete(c)
  /\ free_cyccb' = Append(free_cyccb, c)
  /\ cychdr' = cychdr \ {c}
  /\ UNCHANGED <<current_time, time, cycact, cyctim, almvars, running>>

vdef_cyc(on, tim) ==
  /\ running # "loop"
  /\ free_cyccb # << >>
  /\ _def_cyc(timer_queue, free_cyccb, Head(free_cyccb), on, tim)
  /\ UNCHANGED <<current_time, almvars, running>>

(* TCY_ON or TCY_OFF, and with TCY_INI the period starts anew.             *)
act_cyc(c, on, ini) ==
  /\ running # "loop"
  /\ c \in cychdr
  /\ cycact' = IF on THEN cycact \cup {c} ELSE cycact \ {c}
  /\ IF ini
     THEN timer_insert_rel(timer_delete(c), c, cyctim[c])
     ELSE UNCHANGED <<timer_queue, time>>
  /\ UNCHANGED <<current_time, cychdr, cyctim, free_cyccb, almvars, running>>

-----------------------------------------------------------------------------
_def_alm(q, free, a, at) ==
  /\ free_almcb' = RemoveFirst(free, a)
  /\ almhdr' = almhdr \cup {a}
  /\ timer_insert_abs(q, a, at)

(* The times an alarm may be set for: relative, or absolute and to come.   *)
AlarmTime == {current_time + tim : tim \in 1 .. MAX_REL}
               \cup {tim \in 1 .. MAX_TIME : tim > current_time}

def_alm(a, at) ==
  /\ running # "loop"
  /\ _def_alm(timer_delete(a),
              IF a \in almhdr THEN Append(free_almcb, a) ELSE free_almcb, a, at)
  /\ UNCHANGED <<current_time, cycvars, running>>

undef_alm(a) ==
  /\ running # "loop"
  /\ a \in almhdr
  /\ timer_queue' = timer_delete(a)
  /\ free_almcb' = Append(free_almcb, a)
  /\ almhdr' = almhdr \ {a}
  /\ UNCHANGED <<current_time, time, cycvars, running>>

vdef_alm(at) ==
  /\ running # "loop"
  /\ free_almcb # << >>
  /\ _def_alm(timer_queue, free_almcb, Head(free_almcb), at)
  /\ UNCHANGED <<current_time, cycvars, running>>

-----------------------------------------------------------------------------
(***************************************************************************)
(* The timer interrupt, one iteration of its loop per action.              *)
(***************************************************************************)
timer_handler ==
  /\ running = "none"
  /\ current_time + TIMER_PERIOD <= MAX_TIME
  /\ current_time' = current_time + TIMER_PERIOD
  /\ running' = "loop"
  /\ UNCHANGED <<timer_queue, time, cycvars, almvars>>

due == timer_queue # << >> /\ time[Head(timer_queue)] <= current_time

wait_release_tmout(t) ==
  /\ timer_queue' = Tail(timer_queue)
  /\ UNCHANGED <<time, cycvars, almvars, running>>

(* Registered again before the handler is called, and also when it is not. *)
call_cychdr(c) ==
  /\ timer_insert_rel(Tail(timer_queue), c, cyctim[c])
  /\ running' = IF c \in cycact THEN c ELSE running
  /\ UNCHANGED <<cycvars, almvars>>

(* The definition is cancelled just before the handler is called.          *)
call_almhdr(a) ==
  /\ timer_queue' = Tail(timer_queue)
  /\ almhdr' = almhdr \ {a}
  /\ free_almcb' = Append(free_almcb, a)
  /\ running' = a
  /\ UNCHANGED <<time, cycvars>>

serve_event ==
  /\ running = "loop"
  /\ due
  /\ LET e == Head(timer_queue)
     IN  \/ e \in Task /\ wait_release_tmout(e)
         \/ e \in Cyc /\ call_cychdr(e)
         \/ e \in Alm /\ call_almhdr(e)
  /\ UNCHANGED current_time

handler_returns ==
  /\ running \in Cyc \cup Alm
  /\ running' = "loop"
  /\ UNCHANGED <<current_time, timer_queue, time, cycvars, almvars>>

timer_handler_ends ==
  /\ running = "loop"
  /\ ~due
  /\ running' = "none"
  /\ UNCHANGED <<current_time, timer_queue, time, cycvars, almvars>>

-----------------------------------------------------------------------------
Call ==
  \/ \E t \in Task : cancel_timeout(t) \/ \E tmout \in 1 .. MAX_REL : timer_insert(t, tmout)
  \/ \E on \in BOOLEAN, tim \in 1 .. MAX_REL :
       vdef_cyc(on, tim) \/ \E c \in Cyc : def_cyc(c, on, tim)
  \/ \E c \in Cyc : undef_cyc(c) \/ \E on, ini \in BOOLEAN : act_cyc(c, on, ini)
  \/ \E at \in AlarmTime : vdef_alm(at) \/ \E a \in Alm : def_alm(a, at)
  \/ \E a \in Alm : undef_alm(a)

SetClock == \E tim \in 0 .. MAX_TIME : set_tim(tim)

TimerStep == serve_event \/ handler_returns \/ timer_handler_ends

Next == Call \/ SetClock \/ timer_handler \/ TimerStep

Spec == Init /\ [][Next]_vars

-----------------------------------------------------------------------------
(* Every variable has its type.                                            *)
TypeOK ==
  /\ current_time \in 0 .. MAX_TIME
  /\ timer_queue \in Seq(Event)
  /\ time \in [Event -> 0 .. MAX_TIME + MAX_REL]
  /\ cychdr \in SUBSET Cyc /\ cycact \in SUBSET Cyc
  /\ cyctim \in [Cyc -> 0 .. MAX_REL]
  /\ almhdr \in SUBSET Alm
  /\ running \in {"none", "loop"} \cup Cyc \cup Alm

(* A cyclic or alarm handler is defined exactly while its event is in the  *)
(* queue, once, and its block is in the free list otherwise: also when a   *)
(* handler redefines or cancels itself or another from inside the timer    *)
(* interrupt, and an alarm is no longer defined when its handler runs.     *)
HandlersRegistered ==
  /\ IsInjective(timer_queue) /\ IsInjective(free_cyccb) /\ IsInjective(free_almcb)
  /\ cychdr \cup almhdr = ToSet(timer_queue) \ Task
  /\ ToSet(free_cyccb) = Cyc \ cychdr
  /\ ToSet(free_almcb) = Alm \ almhdr

(* timer_handler only looks at the head of the queue: that this serves     *)
(* every event in time and none early, in the order of their times and     *)
(* with nothing due left over, whatever the handlers do and however the    *)
(* clock is set, is the refinement of Deadlines.                           *)
Abstract == INSTANCE Deadlines WITH
  Time     <- 0 .. MAX_TIME + MAX_REL,
  now      <- current_time,
  pending  <- ToSet(timer_queue),
  deadline <- time,
  serving  <- running # "none"

DeadlinesStep ==
  [Abstract!Next]_<<current_time, ToSet(timer_queue), time, running # "none">>

ServesDeadlines == Abstract!Init /\ [][DeadlinesStep]_vars

=============================================================================
