---------------------------- MODULE TaskManagement ----------------------------
(***************************************************************************)
(* The system calls of task management and task-dependent synchronisation  *)
(* (kernel/task_manage.c, kernel/task_sync.c, dly_tsk of time_calls.c),    *)
(* dispatch and interrupt control (m68k/cpu_calls.c), the dispatcher       *)
(* (m68k/cpu_support.S) and the expiry of a task's wait (timer_handler).   *)
(*                                                                         *)
(* One action per system call, for the runs of the call that change state; *)
(* a call that returns an error changes nothing.                           *)
(***************************************************************************)
EXTENDS TaskCore

CONSTANTS
  TSK_INIT,      (* the initial task, created and started by main()        *)
  TSK_INIT_PRI,  (* its priority                                           *)
  INT_MAX        (* the largest value of wupcnt and suscnt                 *)

ASSUME TaskManagementAssumption ==
  /\ TSK_INIT \in Task
  /\ TSK_INIT_PRI \in Priority
  /\ INT_MAX \in Nat \ {0}

vars == <<taskvars, cpuvars>>

(***************************************************************************)
(* main() has initialised the tables, created and started the initial      *)
(* task, and dispatched to it.                                             *)
(***************************************************************************)
Init ==
  /\ state = [t \in Task |-> IF t = TSK_INIT THEN "READY" ELSE "NONEXIST"]
  /\ ipriority = [t \in Task |-> IF t = TSK_INIT THEN TSK_INIT_PRI ELSE 0]
  /\ priority = ipriority
  /\ wupcnt = [t \in Task |-> 0]
  /\ suscnt = [t \in Task |-> 0]
  /\ wspec = [t \in Task |-> "none"]
  /\ wait_queue = [g \in Gcb |-> << >>]
  /\ timer_queue = {}
  /\ ready_queue = ready_queue_insert(ready_queue_initialize, TSK_INIT, TSK_INIT_PRI)
  /\ schedtsk = TSK_INIT
  /\ ctxtsk = TSK_INIT
  /\ dispatch_disabled = FALSE
  /\ ipm = 0
  /\ in_indp = FALSE

-----------------------------------------------------------------------------
(***************************************************************************)
(* Task management (task_manage.c).  cre_tsk names the task; vcre_tsk      *)
(* takes any that does not exist from free_tcb.                            *)
(***************************************************************************)
cre_tsk(t, itskpri) ==
  /\ caller
  /\ state[t] = "NONEXIST"
  /\ set_state(t, "DORMANT")
  /\ ipriority' = [ipriority EXCEPT ![t] = itskpri]
  /\ priority' = [priority EXCEPT ![t] = itskpri]
  /\ wupcnt' = [wupcnt EXCEPT ![t] = 0]
  /\ suscnt' = [suscnt EXCEPT ![t] = 0]
  /\ UNCHANGED <<waitvars, cpuvars>>

del_tsk(t) ==
  /\ caller
  /\ state[t] = "DORMANT"
  /\ set_state(t, "NONEXIST")
  /\ UNCHANGED <<countvars, privars, waitvars, cpuvars>>

sta_tsk(t) ==
  /\ caller
  /\ state[t] = "DORMANT"
  /\ make_ready(t)
  /\ UNCHANGED <<countvars, privars, waitvars, cpuvars>>

(* Mutated: a task that is terminated while it waits stays in the queue.   *)
_ter_tsk_in_wait_queue(t, new_state) ==
  /\ IF state[t] = "READY"
     THEN make_non_ready(t, new_state)
     ELSE set_state(t, new_state)
  /\ IF waiting(t)
     THEN /\ timer_queue' = timer_queue \ {t}
          /\ wspec' = [wspec EXCEPT ![t] = "none"]
          /\ UNCHANGED wait_queue
     ELSE UNCHANGED waitvars

(***************************************************************************)
(* _ter_tsk followed by the change of state its callers make: out of the   *)
(* ready queue, or out of the wait.                                        *)
(***************************************************************************)
_ter_tsk(t, new_state) ==
  /\ IF state[t] = "READY"
     THEN make_non_ready(t, new_state)
     ELSE set_state(t, new_state)
  /\ IF waiting(t) THEN wait_cancel(t) ELSE UNCHANGED waitvars

(* The context of the running task is discarded, with its interrupt mask.  *)
force_dispatch ==
  /\ ctxtsk' = schedtsk'
  /\ dispatch_disabled' = FALSE
  /\ ipm' = 0
  /\ UNCHANGED in_indp

ext_tsk ==
  /\ in_task
  /\ _ter_tsk(ctxtsk, "DORMANT")
  /\ make_dormant(ctxtsk)
  /\ force_dispatch
  /\ UNCHANGED ipriority

exd_tsk ==
  /\ in_task
  /\ _ter_tsk(ctxtsk, "NONEXIST")
  /\ force_dispatch
  /\ UNCHANGED <<countvars, privars>>

(* Not from a handler (CHECK_INTSK) and not for the caller itself.         *)
ter_tsk(t) ==
  /\ in_task
  /\ nonself(t)
  /\ task_alive(t)
  /\ _ter_tsk(t, "DORMANT")
  /\ make_dormant(t)
  /\ UNCHANGED <<ipriority, cpuvars>>

(* tskpri = TPRI_INI is the case pri = ipriority[t].                       *)
chg_pri(t, pri) ==
  /\ caller
  /\ state[t] # "NONEXIST"
  /\ change_task_priority(t, pri)
  /\ UNCHANGED <<state, countvars, ipriority, wspec, timer_queue, cpuvars>>

(***************************************************************************)
(* rot_rdq(TPRI_RUN) rotates the queue of the running task when a task     *)
(* calls it, which need not be the queue of schedtsk.                      *)
(***************************************************************************)
rot_rdq(pri) ==
  /\ caller
  /\ rotate_ready_queue(pri)
  /\ UNCHANGED <<state, countvars, privars, waitvars, cpuvars>>

rot_rdq_run ==
  /\ \/ in_indp /\ schedtsk # NoTask
        /\ rotate_ready_queue(ready_queue.top_priority)
     \/ in_task /\ rotate_ready_queue(priority[ctxtsk])
  /\ UNCHANGED <<state, countvars, privars, waitvars, cpuvars>>

rel_wai(t) ==
  /\ caller
  /\ waiting(t)
  /\ wait_release(t)
  /\ UNCHANGED <<countvars, privars, cpuvars>>

-----------------------------------------------------------------------------
(***************************************************************************)
(* Task-dependent synchronisation (task_sync.c).                           *)
(***************************************************************************)
sus_tsk(t) ==
  /\ caller
  /\ nonself(t)
  /\ task_alive(t)
  /\ suscnt[t] < INT_MAX
  /\ suscnt' = [suscnt EXCEPT ![t] = @ + 1]
  /\ CASE state[t] = "READY" -> make_non_ready(t, "SUSPEND")
       [] state[t] = "WAIT"  -> set_state(t, "WAITSUS")
       [] OTHER              -> UNCHANGED <<state, schedvars>>
  /\ UNCHANGED <<wupcnt, privars, waitvars, cpuvars>>

(* What becomes of a suspended task when its last suspension is undone.    *)
resume(t) ==
  IF state[t] = "SUSPEND" THEN make_ready(t) ELSE set_state(t, "WAIT")

rsm_tsk(t) ==
  /\ caller
  /\ nonself(t)
  /\ state[t] \in TS_SUSPEND
  /\ suscnt' = [suscnt EXCEPT ![t] = @ - 1]
  /\ IF suscnt[t] = 1 THEN resume(t) ELSE UNCHANGED <<state, schedvars>>
  /\ UNCHANGED <<wupcnt, privars, waitvars, cpuvars>>

frsm_tsk(t) ==
  /\ caller
  /\ nonself(t)
  /\ state[t] \in TS_SUSPEND
  /\ suscnt' = [suscnt EXCEPT ![t] = 0]
  /\ resume(t)
  /\ UNCHANGED <<wupcnt, privars, waitvars, cpuvars>>

(* slp_tsk is tslp_tsk with no time-out (timed = FALSE).                   *)
tslp_tsk(timed) ==
  /\ in_task
  /\ ~in_ddsp
  /\ IF wupcnt[ctxtsk] > 0
     THEN /\ wupcnt' = [wupcnt EXCEPT ![ctxtsk] = @ - 1]
          /\ UNCHANGED <<state, schedvars, waitvars>>
     ELSE /\ make_wait("slp", timed)
          /\ UNCHANGED <<wupcnt, wait_queue>>
  /\ UNCHANGED <<suscnt, privars, cpuvars>>

(* Mutated: a suspended sleeper does not count as sleeping.                *)
wup_tsk_misses_suspended(t) ==
  /\ caller
  /\ nonself(t)
  /\ task_alive(t)
  /\ IF state[t] = "WAIT" /\ wspec[t] = "slp"
     THEN /\ wait_release(t)
          /\ UNCHANGED wupcnt
     ELSE /\ wupcnt[t] < INT_MAX
          /\ wupcnt' = [wupcnt EXCEPT ![t] = @ + 1]
          /\ UNCHANGED <<state, schedvars, waitvars>>
  /\ UNCHANGED <<suscnt, privars, cpuvars>>

wup_tsk(t) ==
  /\ caller
  /\ nonself(t)
  /\ task_alive(t)
  /\ IF waiting(t) /\ wspec[t] = "slp"
     THEN /\ wait_release(t)
          /\ UNCHANGED wupcnt
     ELSE /\ wupcnt[t] < INT_MAX
          /\ wupcnt' = [wupcnt EXCEPT ![t] = @ + 1]
          /\ UNCHANGED <<state, schedvars, waitvars>>
  /\ UNCHANGED <<suscnt, privars, cpuvars>>

can_wup(t) ==
  /\ caller
  /\ task_alive(t)
  /\ wupcnt' = [wupcnt EXCEPT ![t] = 0]
  /\ UNCHANGED <<state, suscnt, privars, waitvars, schedvars, cpuvars>>

dly_tsk ==
  /\ in_task
  /\ ~in_ddsp
  /\ make_wait("dly", TRUE)
  /\ UNCHANGED <<wait_queue, countvars, privars, cpuvars>>

-----------------------------------------------------------------------------
(***************************************************************************)
(* Dispatch and interrupt control.                                         *)
(***************************************************************************)
dis_dsp ==
  /\ in_task
  /\ ~in_loc
  /\ dispatch_disabled' = TRUE
  /\ UNCHANGED <<taskvars, ctxtsk, ipm, in_indp>>

ena_dsp ==
  /\ in_task
  /\ ~in_loc
  /\ dispatch_disabled' = FALSE
  /\ UNCHANGED <<taskvars, ctxtsk, ipm, in_indp>>

loc_cpu ==
  /\ in_task
  /\ ipm' = IPM_MAX
  /\ UNCHANGED <<taskvars, ctxtsk, dispatch_disabled, in_indp>>

unl_cpu ==
  /\ in_task
  /\ ipm' = 0
  /\ dispatch_disabled' = FALSE
  /\ UNCHANGED <<taskvars, ctxtsk, in_indp>>

chg_ipm(level) ==
  /\ in_task
  /\ ipm' = level
  /\ UNCHANGED <<taskvars, ctxtsk, dispatch_disabled, in_indp>>

(* Mutated: dispatching is not delayed to the end of a handler.            *)
dispatch_in_handler ==
  /\ dispatch_enabled
  /\ ctxtsk # schedtsk
  /\ ctxtsk' = schedtsk
  /\ UNCHANGED <<taskvars, dispatch_disabled, ipm, in_indp>>

(* Mutated: the dispatcher is left when there is no task to run.           *)
dispatch_to_task_only ==
  /\ ~in_indp
  /\ dispatch_enabled
  /\ schedtsk # NoTask
  /\ ctxtsk # schedtsk
  /\ ctxtsk' = schedtsk
  /\ UNCHANGED <<taskvars, dispatch_disabled, ipm, in_indp>>

(***************************************************************************)
(* The dispatcher, entered at the end of a critical section or of a call   *)
(* that enables dispatching.  With no task to run it waits in the state    *)
(* ctxtsk = NoTask until a handler makes a task ready.                     *)
(***************************************************************************)
dispatch ==
  /\ ~in_indp
  /\ dispatch_enabled
  /\ ctxtsk # schedtsk
  /\ ctxtsk' = schedtsk
  /\ UNCHANGED <<taskvars, dispatch_disabled, ipm, in_indp>>

(* A handler starts (nested handlers count as one).                        *)
interrupt ==
  /\ ~in_indp
  /\ ipm < IPM_MAX
  /\ in_indp' = TRUE
  /\ UNCHANGED <<taskvars, ctxtsk, dispatch_disabled, ipm>>

ret_int ==
  /\ in_indp
  /\ in_indp' = FALSE
  /\ ctxtsk' = IF dispatch_enabled THEN schedtsk ELSE ctxtsk
  /\ UNCHANGED <<taskvars, dispatch_disabled, ipm>>

(* The timer handler finds the time event of t due (wait_release_tmout).   *)
timer_handler(t) ==
  /\ in_indp
  /\ t \in timer_queue
  /\ wait_release(t)
  /\ UNCHANGED <<countvars, privars, cpuvars>>

-----------------------------------------------------------------------------
TaskCall ==
  \E t \in Task :
    \/ del_tsk(t) \/ sta_tsk(t) \/ ter_tsk(t) \/ rel_wai(t)
    \/ sus_tsk(t) \/ rsm_tsk(t) \/ frsm_tsk(t)
    \/ wup_tsk(t) \/ can_wup(t) \/ timer_handler(t)
    \/ \E pri \in Priority : cre_tsk(t, pri) \/ chg_pri(t, pri)

SelfCall ==
  \/ ext_tsk \/ exd_tsk \/ dly_tsk \/ rot_rdq_run
  \/ \E timed \in BOOLEAN : tslp_tsk(timed)
  \/ \E pri \in Priority : rot_rdq(pri)

CpuStep ==
  \/ dis_dsp \/ ena_dsp \/ loc_cpu \/ unl_cpu
  \/ \E level \in 0 .. IPM_MAX : chg_ipm(level)
  \/ dispatch \/ interrupt \/ ret_int

Next == TaskCall \/ SelfCall \/ CpuStep

Spec == Init /\ [][Next]_vars

(***************************************************************************)
(* Handlers return and the dispatcher runs; nothing obliges a task to      *)
(* make a call.                                                            *)
(***************************************************************************)
Fairness == WF_vars(dispatch) /\ WF_vars(ret_int)

FairSpec == Spec /\ Fairness
-----------------------------------------------------------------------------
(***************************************************************************)
(* Properties.                                                             *)
(***************************************************************************)

(* Every variable has its type.                                            *)
TypeOK ==
  /\ state \in [Task -> TSTAT]
  /\ priority \in [Task -> Priority]
  /\ ipriority \in [Task -> Priority]
  /\ wupcnt \in [Task -> 0 .. INT_MAX]
  /\ suscnt \in [Task -> 0 .. INT_MAX]
  /\ wspec \in [Task -> Gcb \cup {"none", "slp", "dly", "tmb", "rdv"}]
  /\ wait_queue \in [Gcb -> Seq(Task)]
  /\ timer_queue \in SUBSET Task
  /\ ready_queue \in RDYQUE
  /\ schedtsk \in Task \cup {NoTask}
  /\ ctxtsk \in Task \cup {NoTask}
  /\ dispatch_disabled \in BOOLEAN
  /\ ipm \in 0 .. IPM_MAX
  /\ in_indp \in BOOLEAN

ReadyTasks == {t \in Task : state[t] = "READY"}

(* The ready queue of a priority holds exactly the READY tasks of that     *)
(* priority, each once: no call forgets to queue a task it makes ready, to *)
(* dequeue one it stops, or dequeues it at another priority than the one   *)
(* it was queued at (task.c, change_task_priority).                        *)
ReadyQueueExact == Lists(ready_queue, ReadyTasks, priority)

(* The bitmap and top_priority, which are maintained incrementally, agree  *)
(* with the queues: a bit is set exactly when its queue is not empty, and  *)
(* top_priority is the least set bit, NUM_PRI when there is none.          *)
ReadyQueueIndexed == Indexed(ready_queue)

(* schedtsk is always the head of the ready queue, although make_ready and *)
(* make_non_ready update it without looking at the queue when they can.    *)
SchedtskIsTop == schedtsk = ready_queue_top(ready_queue)

(* The suspend nesting count and the state agree: rsm_tsk can neither wake *)
(* a task that is suspended twice nor leave one suspended for ever.        *)
SuspendCount ==
  \A t \in Task : task_alive(t) => (suscnt[t] > 0 <=> state[t] \in TS_SUSPEND)

(* A task that is about to be started has no request left from its life    *)
(* before, although wup_tsk and sus_tsk may race with its end.             *)
StartsFresh ==
  \A t \in Task : state[t] = "DORMANT" => wupcnt[t] = 0 /\ suscnt[t] = 0

(* A task never sleeps while a wake-up request for it is queued.           *)
NoLostWakeup ==
  \A t \in Task : waiting(t) /\ wspec[t] = "slp" => wupcnt[t] = 0

(* Only waiting tasks have a time event in the timer queue: a time-out     *)
(* never meets a task that is not waiting (the assertion of make_non_wait).*)
TimeoutOnlyWhileWaiting == \A t \in timer_queue : waiting(t)

(* A waiting task is in the wait queue of its object, once, and no other   *)
(* task is; wspec is set exactly while the task waits.                     *)
WaitQueueExact ==
  /\ \A t \in Task : waiting(t) <=> wspec[t] # "none"
  /\ \A g \in Gcb :
       /\ IsInjective(wait_queue[g])
       /\ ToSet(wait_queue[g]) = {t \in Task : wspec[t] = g}

(* The task that has the processor exists and was started: no call and no  *)
(* handler can terminate or delete it under its own feet.                  *)
RunningTaskAlive == ctxtsk # NoTask => task_alive(ctxtsk)

(* A task that has disabled dispatching does not wait: nobody could run in *)
(* its place (make_wait: the running task never is in the WAIT state).     *)
NoWaitWithoutDispatch ==
  ctxtsk # NoTask /\ ~dispatch_enabled => state[ctxtsk] \in {"READY", "SUSPEND"}

(* The processor is taken from a running task only by the dispatcher: while*)
(* a handler runs (delayed dispatching) or dispatching is disabled, it     *)
(* keeps the processor unless it ends itself.                              *)
DelayedDispatch ==
  [][ctxtsk' # ctxtsk /\ ctxtsk # NoTask =>
       \/ dispatch_enabled /\ (in_indp => ~in_indp')
       \/ ~in_indp /\ state'[ctxtsk] \in {"DORMANT", "NONEXIST"}]_vars

(* The ready tasks are served in the order of precedence that the user's   *)
(* manual promises: whatever call or handler touches the ready queue, a    *)
(* task moves behind the others of its priority only when it becomes       *)
(* ready, has its priority set or is the head of a rotated queue, never    *)
(* moves otherwise, and schedtsk follows at once.                          *)
before(q, t, u) == \E i, j \in DOMAIN q : i < j /\ q[i] = t /\ q[j] = u

Precedes(t, u) ==
  \/ priority[t] < priority[u]
  \/ before(ready_queue.tskque[priority[t]], t, u)

Order == INSTANCE Precedence WITH
  FirstTask <- TSK_INIT,
  FirstPriority <- TSK_INIT_PRI,
  ready <- ReadyTasks,
  pri   <- priority,
  ahead <- {pair \in ReadyTasks \X ReadyTasks : Precedes(pair[1], pair[2])},
  first <- schedtsk

ServedInOrder == Order!Spec

(* A pending dispatch is carried out: infinitely often the processor has   *)
(* the task that should run, or the running task holds dispatching off.    *)
DispatchHappens == []<>(ctxtsk = schedtsk \/ ~dispatch_enabled)
=============================================================================
