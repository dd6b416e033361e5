------------------------------- MODULE MCKernel -------------------------------
(***************************************************************************)
(* The parts of the kernel that keep memory, time and services, each by    *)
(* itself: in every behaviour one part works, chosen at the start, and     *)
(* nothing happens to the others, so the instance is the union of the      *)
(* instances of the parts:                                                 *)
(*   "stacks"    the stacks of the initial task and of two user tasks, in  *)
(*               a memory that is too small for all of them;               *)
(*   "services"  one service, two functions for it, and one that counts    *)
(*               itself, in a task of the system and two user tasks;       *)
(*   "clock"     the hardware timer and vget_tim;                          *)
(*   "timer"     the events of a task, two cyclic handlers and an alarm.   *)
(***************************************************************************)
EXTENDS Integers, Sequences, FiniteSets, SequencesExt, TLC

CONSTANTS
  Parts,                                  (* the parts that are checked    *)
  SystemTask, UserTask,                   (* stacks and services           *)
  Block, NULL, WILD, USE_MPROTECT_STACK, IDLE_CREATES,
  NUM_SVC, Svc, no_support, Counting, LeavesEarly, DEPTH,
  PERIOD, GET_TOLERANCE, LATENCY, NESTED, MAX_TICKS,  (* clock             *)
  Timed, Cyc, Alm, TIMER_PERIOD, MAX_TIME, MAX_REL    (* timer             *)

VARIABLES
  part,
  state, isstack, istack, free_tcb, used, others, ctxtsk, sp,
  svchdr, alive, sysmode, svc_ctxtsk, calls, indp,
  elapsed, hw_count, ireq, clock, handler, reader, ctime, tick, entry, sysutim,
  current_time, timer_queue, time, cychdr, cycact, cyctim, free_cyccb,
  almhdr, free_almcb, running

Stacks == INSTANCE TaskStacks

Services == INSTANCE ExtendedSvc WITH
  Task <- SystemTask \cup UserTask, ctxtsk <- svc_ctxtsk

Clock == INSTANCE SystemTime WITH MAX_TIME <- MAX_TICKS, current_time <- clock

Events == INSTANCE Timer WITH Task <- Timed

ASSUME KernelAssumption ==
  /\ Stacks!StacksAssumption /\ Services!SvcAssumption
  /\ Clock!SystemTimeAssumption /\ Events!TimerAssumption

stackvars   == <<state, isstack, istack, free_tcb, used, others, ctxtsk, sp>>
servicevars == <<svchdr, alive, sysmode, svc_ctxtsk, calls, indp>>
clockvars   == <<elapsed, hw_count, ireq, clock, handler, reader, ctime, tick, entry, sysutim>>
eventvars   == <<current_time, timer_queue, time, cychdr, cycact, cyctim, free_cyccb,
                 almhdr, free_almcb, running>>
kernelvars  == <<part, stackvars, servicevars, clockvars, eventvars>>

-----------------------------------------------------------------------------
StacksStep ==
  /\ part = "stacks"
  /\ Stacks!Next
  /\ UNCHANGED <<servicevars, clockvars, eventvars>>

ServicesStep ==
  /\ part = "services"
  /\ Services!Next
  /\ UNCHANGED <<stackvars, clockvars, eventvars>>

ClockStep ==
  /\ part = "clock"
  /\ Clock!Next
  /\ UNCHANGED <<stackvars, servicevars, eventvars>>

EventsStep ==
  /\ part = "timer"
  /\ Events!Next
  /\ UNCHANGED <<stackvars, servicevars, clockvars>>

(* The variables of the parts that do not work are 0.                      *)
StacksInit ==
  \/ part = "stacks" /\ Stacks!Init
  \/ /\ part # "stacks"
     /\ state = 0 /\ isstack = 0 /\ istack = 0 /\ free_tcb = 0 /\ used = 0 /\ others = 0
     /\ ctxtsk = 0 /\ sp = 0

ServicesInit ==
  \/ part = "services" /\ Services!Init
  \/ /\ part # "services"
     /\ svchdr = 0 /\ alive = 0 /\ sysmode = 0 /\ svc_ctxtsk = 0 /\ calls = 0 /\ indp = 0

ClockInit ==
  \/ part = "clock" /\ Clock!Init
  \/ /\ part # "clock"
     /\ elapsed = 0 /\ hw_count = 0 /\ ireq = 0 /\ clock = 0 /\ handler = 0 /\ reader = 0
     /\ ctime = 0 /\ tick = 0 /\ entry = 0 /\ sysutim = 0

EventsInit ==
  \/ part = "timer" /\ Events!Init
  \/ /\ part # "timer"
     /\ current_time = 0 /\ timer_queue = 0 /\ time = 0 /\ cychdr = 0 /\ cycact = 0
     /\ cyctim = 0 /\ free_cyccb = 0 /\ almhdr = 0 /\ free_almcb = 0 /\ running = 0

KernelInit ==
  /\ part \in Parts
  /\ StacksInit /\ ServicesInit /\ ClockInit /\ EventsInit

KernelNext ==
  /\ StacksStep \/ ServicesStep \/ ClockStep \/ EventsStep
  /\ UNCHANGED part

KernelSpec == KernelInit /\ [][KernelNext]_kernelvars

-----------------------------------------------------------------------------
(* The view leaves out what nothing reads: the stacks of tasks that do not *)
(* exist, and the fields of events and of handlers that are not registered *)
(* or defined.                                                             *)
View ==
  <<part,
    CASE part = "stacks" ->
           <<state, [t \in Stacks!Task |->
                       IF Stacks!exists(t) THEN <<isstack[t], istack[t]>> ELSE <<>>],
             free_tcb, used, others, ctxtsk, sp>>
      [] part = "services" -> servicevars
      [] part = "clock" -> clockvars
      [] part = "timer" ->
           <<current_time, timer_queue, [e \in ToSet(timer_queue) |-> time[e]],
             cychdr, cycact \cap cychdr, [c \in cychdr |-> cyctim[c]], free_cyccb,
             almhdr, free_almcb, running>>>>

-----------------------------------------------------------------------------
(* Memory is neither lost nor given out twice: the stacks of tasks,        *)
(* whatever creation failed half-way and whatever task deleted itself, are *)
(* those of the tasks that exist, as are the control blocks that are not   *)
(* free.                                                                   *)
MemorySound ==
  part = "stacks" => /\ Stacks!TypeOK /\ Stacks!NothingLeaksOrShared
                     /\ Stacks!FreeListExact /\ Stacks!RunsOnOwnStack

(* A task has the rights of its own mode outside of services, and sysmode  *)
(* counts the services it is in, after preemptions, calls from interrupts, *)
(* new definitions and a termination inside of them.                       *)
RightsMatchServices ==
  part = "services" => Services!TypeOK /\ Services!RightsMatchServices

(* vget_tim returns a moment between its call and its return, wherever     *)
(* the timer interrupt comes between its three reads.                      *)
ReadsTheTime == part = "clock" => Clock!ReadsTheTime

(* The timer serves every event in time and none early, in the order of    *)
(* their times, with nothing due left over (Deadlines); and the cyclic and *)
(* alarm handlers that are defined are those with an event in the queue.   *)
ServesDeadlines ==
  /\ part = "timer" => Events!Abstract!Init
  /\ [][part = "timer" => Events!DeadlinesStep]_kernelvars
  /\ [](part = "timer" => Events!TypeOK /\ Events!HandlersRegistered)

(* A task that was created has stacks (doc/USER).                          *)
CreatedWithStacks == part = "stacks" => Stacks!CreatedWithStacks

(* Only a task of the system, or one inside a service, may use the objects *)
(* of the system (doc/USER).                                               *)
RightsOnlyInside == part = "services" => Services!RightsOnlyInside
=============================================================================
