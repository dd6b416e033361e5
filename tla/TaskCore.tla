------------------------------- MODULE TaskCore -------------------------------
(***************************************************************************)
(* The task control blocks and the internal operations on them that every  *)
(* system call is built from: kernel/task.c, kernel/wait.c, the wait part  *)
(* of kernel/timer.c, and the processor state that the dispatcher and the  *)
(* context checks look at (cpu_status.h of the ports).                     *)
(*                                                                         *)
(* A field of the TCB is a function on Task.  The pair of TCB fields wspec *)
(* and wgcb is one variable wspec: the wait queue the task is in, or the   *)
(* name of a wait that has no queue: "slp", "dly", "tmb" for a message of  *)
(* the task's own mailbox and "rdv" for the end of a rendezvous.  It is    *)
(* meaningful only while the task waits, and is "none" otherwise.          *)
(***************************************************************************)
EXTENDS ReadyQueue

CONSTANTS
  Gcb,       (* the wait queues of the synchronisation objects             *)
  TaTpri,    (* those whose object has the attribute TA_TPRI               *)
  IPM_MAX    (* the interrupt priority mask that masks every interrupt     *)

ASSUME TaskCoreAssumption ==
  /\ TaTpri \subseteq Gcb
  /\ Gcb \cap {"none", "slp", "dly", "tmb", "rdv"} = {}
  /\ IPM_MAX \in Nat \ {0}

VARIABLES
  state,       (* TSTAT of each task                                       *)
  priority,    (* its current priority                                     *)
  ipriority,   (* its priority at start                                    *)
  wupcnt,      (* its queued wake-up requests                              *)
  suscnt,      (* its nested suspend requests                              *)
  wspec,       (* what it waits for                                        *)
  wait_queue,  (* the wait queue of each object                            *)
  timer_queue, (* the tasks whose wtmeb is in the timer queue              *)
  ready_queue, (* the ready queue                                          *)
  schedtsk,    (* the task that should run                                 *)
  ctxtsk,      (* the task that has the processor, NoTask when idle        *)
  dispatch_disabled, (* set by dis_dsp                                     *)
  ipm,         (* interrupt priority mask of the running task              *)
  in_indp      (* an interrupt handler is running                          *)

countvars == <<wupcnt, suscnt>>
privars   == <<priority, ipriority>>
waitvars  == <<wspec, wait_queue, timer_queue>>
schedvars == <<ready_queue, schedtsk>>
cpuvars   == <<ctxtsk, dispatch_disabled, ipm, in_indp>>
taskvars  == <<state, countvars, privars, waitvars, schedvars>>

TSTAT == {"NONEXIST", "READY", "WAIT", "SUSPEND", "WAITSUS", "DORMANT"}

TS_WAIT    == {"WAIT", "WAITSUS"}      \* tests state & TS_WAIT
TS_SUSPEND == {"SUSPEND", "WAITSUS"}   \* tests state & TS_SUSPEND

task_alive(t) == state[t] \in {"READY"} \cup TS_WAIT \cup TS_SUSPEND
waiting(t)    == state[t] \in TS_WAIT

-----------------------------------------------------------------------------
(***************************************************************************)
(* task.c                                                                  *)
(***************************************************************************)
reschedule == schedtsk' = ready_queue_top(ready_queue')

(* Mutated: a task of equal priority takes the place of schedtsk.          *)
make_ready_preempts_equal(t) ==
  /\ state' = [state EXCEPT ![t] = "READY"]
  /\ ready_queue' = ready_queue_insert(ready_queue, t, priority[t])
  /\ schedtsk' = IF priority[t] <= ready_queue.top_priority THEN t ELSE schedtsk

make_ready(t) ==
  /\ state' = [state EXCEPT ![t] = "READY"]
  /\ ready_queue' = ready_queue_insert(ready_queue, t, priority[t])
  /\ schedtsk' = IF priority[t] < ready_queue.top_priority THEN t ELSE schedtsk

(* The caller of make_non_ready sets the state of the task afterwards.     *)
make_non_ready(t, new_state) ==
  /\ state' = [state EXCEPT ![t] = new_state]
  /\ ready_queue' = ready_queue_delete(ready_queue, t, priority[t])
  /\ schedtsk' = IF schedtsk = t THEN ready_queue_top(ready_queue') ELSE schedtsk

(* A change of state of a task that is not in the ready queue.             *)
set_state(t, new_state) ==
  /\ state' = [state EXCEPT ![t] = new_state]
  /\ UNCHANGED schedvars

queue_insert_tpri(q, t, pri) ==
  queue_insert(q, queue_search_gt(q, pri, pri[t]), t)

gcb_change_priority(t, pri) ==
  [wait_queue EXCEPT ![wspec[t]] =
     queue_insert_tpri(queue_delete(@, t), t, pri)]

(* Mutated: the new priority is in the TCB before the task is dequeued.    *)
change_task_priority_too_early(t, pri) ==
  /\ priority' = [priority EXCEPT ![t] = pri]
  /\ IF state[t] = "READY"
     THEN /\ ready_queue' = ready_queue_insert(
                              ready_queue_delete(ready_queue, t, pri), t, pri)
          /\ reschedule
     ELSE UNCHANGED schedvars
  /\ UNCHANGED wait_queue

(* Mutated: a waiter that is suspended too keeps its place.                *)
change_task_priority_misses_suspended(t, pri) ==
  /\ priority' = [priority EXCEPT ![t] = pri]
  /\ IF state[t] = "READY"
     THEN /\ ready_queue' = ready_queue_insert(
                              ready_queue_delete(ready_queue, t, priority[t]),
                              t, pri)
          /\ reschedule
     ELSE UNCHANGED schedvars
  /\ wait_queue' = IF state[t] = "WAIT" /\ wspec[t] \in TaTpri
                   THEN gcb_change_priority(t, priority')
                   ELSE wait_queue

(* Mutated: the waiters of a TA_TFIFO object are reordered too.            *)
change_task_priority_reorders_fifo(t, pri) ==
  /\ priority' = [priority EXCEPT ![t] = pri]
  /\ IF state[t] = "READY"
     THEN /\ ready_queue' = ready_queue_insert(
                              ready_queue_delete(ready_queue, t, priority[t]),
                              t, pri)
          /\ reschedule
     ELSE UNCHANGED schedvars
  /\ wait_queue' = IF waiting(t) /\ wspec[t] \in Gcb
                   THEN gcb_change_priority(t, priority')
                   ELSE wait_queue

change_task_priority(t, pri) ==
  /\ priority' = [priority EXCEPT ![t] = pri]
  /\ IF state[t] = "READY"
     THEN /\ ready_queue' = ready_queue_insert(
                              ready_queue_delete(ready_queue, t, priority[t]),
                              t, pri)
          /\ reschedule
     ELSE UNCHANGED schedvars
  /\ wait_queue' = IF waiting(t) /\ wspec[t] \in TaTpri
                   THEN gcb_change_priority(t, priority')
                   ELSE wait_queue

rotate_ready_queue(pri) ==
  /\ ready_queue' = ready_queue_rotate(ready_queue, pri)
  /\ reschedule

(* The fields that make_dormant resets, but for the state.                 *)
make_dormant(t) ==
  /\ priority' = [priority EXCEPT ![t] = ipriority[t]]
  /\ wupcnt' = [wupcnt EXCEPT ![t] = 0]
  /\ suscnt' = [suscnt EXCEPT ![t] = 0]

-----------------------------------------------------------------------------
(***************************************************************************)
(* wait.c                                                                  *)
(***************************************************************************)
make_non_wait(t) ==
  IF state[t] = "WAIT" THEN make_ready(t) ELSE set_state(t, "SUSPEND")

(* Mutated: the time-out is not cancelled with the wait.                   *)
wait_cancel_keeps_timeout(t) ==
  /\ wait_queue' = IF wspec[t] \in Gcb
                   THEN [wait_queue EXCEPT ![wspec[t]] = queue_delete(@, t)]
                   ELSE wait_queue
  /\ wspec' = [wspec EXCEPT ![t] = "none"]
  /\ UNCHANGED timer_queue

(* Out of the timer queue and of the wait queue, if the wait has one.      *)
wait_cancel(t) ==
  /\ timer_queue' = timer_queue \ {t}
  /\ wait_queue' = IF wspec[t] \in Gcb
                   THEN [wait_queue EXCEPT ![wspec[t]] = queue_delete(@, t)]
                   ELSE wait_queue
  /\ wspec' = [wspec EXCEPT ![t] = "none"]

wait_release(t) ==
  /\ wait_cancel(t)
  /\ make_non_wait(t)

(***************************************************************************)
(* The running task waits for w, with a time event when timed.  A wait     *)
(* without time-out (TMO_FEVR) leaves the timer queue alone.               *)
(***************************************************************************)
make_wait(w, timed) ==
  /\ IF state[ctxtsk] = "READY"
     THEN make_non_ready(ctxtsk, "WAIT")
     ELSE set_state(ctxtsk, "WAITSUS")
  /\ wspec' = [wspec EXCEPT ![ctxtsk] = w]
  /\ timer_queue' = IF timed THEN timer_queue \cup {ctxtsk} ELSE timer_queue

gcb_make_wait(g, timed) ==
  /\ make_wait(g, timed)
  /\ wait_queue' = [wait_queue EXCEPT ![g] =
                      IF g \in TaTpri
                      THEN queue_insert_tpri(@, ctxtsk, priority)
                      ELSE Append(@, ctxtsk)]

(***************************************************************************)
(* The walk along a sequence of waiting tasks that ends the waits of those *)
(* in W one after the other, from its head on: wait_release of each.  The  *)
(* tasks that are not suspended become ready in this order, each as        *)
(* make_ready does it.                                                     *)
(***************************************************************************)
made_ready(sched, t) ==
  [rq  |-> ready_queue_insert(sched.rq, t, priority[t]),
   top |-> IF priority[t] < sched.rq.top_priority THEN t ELSE sched.top]

wait_ended(walk, t) ==
  [sched  |-> IF state[t] = "WAIT" THEN made_ready(walk.sched, t) ELSE walk.sched,
   queues |-> [walk.queues EXCEPT ![wspec[t]] = queue_delete(@, t)]]

release_walk(tasks, W) ==
  LET after[n \in 0 .. Len(tasks)] ==
        IF n = 0
        THEN [sched |-> [rq |-> ready_queue, top |-> schedtsk], queues |-> wait_queue]
        ELSE IF tasks[n] \in W THEN wait_ended(after[n - 1], tasks[n]) ELSE after[n - 1]
  IN  after[Len(tasks)]

wait_release_those(tasks, W) ==
  LET walked == release_walk(tasks, W)
  IN  /\ state' = [t \in Task |-> IF t \notin W THEN state[t]
                                 ELSE IF state[t] = "WAIT" THEN "READY" ELSE "SUSPEND"]
      /\ ready_queue' = walked.sched.rq
      /\ schedtsk' = walked.sched.top
      /\ wspec' = [t \in Task |-> IF t \in W THEN "none" ELSE wspec[t]]
      /\ wait_queue' = walked.queues
      /\ timer_queue' = timer_queue \ W

wait_release_all(tasks) == wait_release_those(tasks, ToSet(tasks))

wait_delete(g) == wait_release_all(wait_queue[g])

(* The first task of a wait queue, as the ref calls report it.             *)
wait_tskid(g) == IF wait_queue[g] = << >> THEN NoTask ELSE Head(wait_queue[g])

-----------------------------------------------------------------------------
(***************************************************************************)
(* Who may issue a system call.  Every call runs its body with interrupts  *)
(* masked, so a call is one action.  A task executes only while it is the  *)
(* one that should run, unless it has disabled dispatching: when a call or *)
(* a handler leaves ctxtsk and schedtsk different, the end of the critical *)
(* section or ret_int dispatches before the task executes anything else.   *)
(***************************************************************************)
in_loc  == in_indp \/ ipm > 0
in_ddsp == in_loc \/ dispatch_disabled

dispatch_enabled == ~dispatch_disabled /\ ipm = 0

in_task == /\ ~in_indp
           /\ ctxtsk # NoTask
           /\ dispatch_enabled => ctxtsk = schedtsk

caller == in_indp \/ in_task

nonself(t) == in_indp \/ t # ctxtsk
=============================================================================
