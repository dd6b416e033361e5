---------------------------- MODULE BsdDispatcher ----------------------------
(***************************************************************************)
(* The dispatcher of the port to BSD UNIX (bsd/cpu_status.h, cpu_util.c,   *)
(* cpu_calls.c, cpu_task.h).  A task is a stack in one process, the        *)
(* interrupts are signals, the interrupt mask is the signal mask, and a    *)
(* dispatch is a signal too: the kernel sends SIGUSR2 to itself, and the   *)
(* handler of SIGUSR2 saves the context of the task it has interrupted     *)
(* with _setjmp and goes on with another by _longjmp.  These two leave the *)
(* signal mask alone: it comes back when the resumed handler returns.      *)
(* SIGUSR2 is masked while its handler runs, the interrupts are not, until *)
(* the handler masks them.                                                 *)
(*                                                                         *)
(* The base flow of the process is the code of a task, SIGUSR2 and the     *)
(* idle loop.  Handlers of interrupts lie on top of it, on the stack for   *)
(* signals.  A critical section masks every signal, so it is one step; the *)
(* kernel calls are abstracted to what they do to the ready queue.         *)
(***************************************************************************)
EXTENDS Integers, Sequences

CONSTANTS
  Task,           (* the tasks                                             *)
  Irq,            (* the signals that are interrupts: SIGALRM, SIGIO       *)
  SIGUSR2,        (* the signal of the dispatcher                          *)
  NULL,           (* no task                                               *)
  HANDLER_MASKS   (* the masks that interrupt handlers pass to chg_ims     *)

Signal == Irq \cup {SIGUSR2}

ASSUME DispatcherAssumption ==
  /\ NULL \notin Task
  /\ SIGUSR2 \notin Irq
  /\ HANDLER_MASKS \subseteq SUBSET Signal

VARIABLES
  ready,      (* the tasks in the ready queue                              *)
  schedtsk,   (* the first of them                                         *)
  ctxtsk,     (* the task that runs                                        *)
  mask,       (* the signal mask of the process                            *)
  pending,    (* the signals that wait until they are unmasked             *)
  nest,       (* the masks that the handlers of interrupts give back when  *)
              (* they return, the innermost first                          *)
  place,      (* where the base flow is                                    *)
  stack,      (* the task whose stack the base flow uses                   *)
  frame,      (* the mask that the handler of SIGUSR2 gives back           *)
  env         (* the saved context of each task: where it goes on and, in  *)
              (* the handler of SIGUSR2, the mask to be given back         *)

readyvars == <<ready, schedtsk>>
sigvars == <<mask, nest>>
flowvars == <<place, stack, frame>>
vars == <<ready, schedtsk, ctxtsk, mask, pending, nest, place, stack, frame, env>>

SIGMASK_TASK == {}
SIGMASK_DDSP == {SIGUSR2}
SIGMASK_LOC == Signal
SIGMASK_INDP == {SIGUSR2}

Place == {"startup", "task", "test", "save", "switch", "idle", "return", "start"}

(* setup_context: the task starts in task_start, at the top of its stack.  *)
Started == [at |-> "start", mask |-> SIGMASK_TASK]
Stopped(m) == [at |-> "return", mask |-> m]

TypeOK ==
  /\ ready \subseteq Task
  /\ schedtsk \in ready \cup {NULL}
  /\ ctxtsk \in Task \cup {NULL}
  /\ mask \subseteq Signal
  /\ pending \subseteq Signal
  /\ nest \in Seq(SUBSET Signal)
  /\ place \in Place
  /\ stack \in Task \cup {NULL}
  /\ frame \subseteq Signal
  /\ env \in [Task -> [at : {"start", "return"}, mask : SUBSET Signal]]

(* main: all signals are masked while the kernel is initialised.           *)
Init ==
  /\ ready = {} /\ schedtsk = NULL /\ ctxtsk = NULL
  /\ mask = SIGMASK_LOC /\ pending = {} /\ nest = <<>>
  /\ place = "startup" /\ stack = NULL /\ frame = SIGMASK_TASK
  /\ env = [t \in Task |-> Started]

(***************************************************************************)
(* The state of the processor, as the kernel finds it out.                 *)
(***************************************************************************)
in_indp == nest # <<>> \/ place = "startup"
in_ddsp == SIGUSR2 \in mask
in_loc == mask \cap Irq # {}

(* A signal that is pending and not masked comes before any other code.    *)
undisturbed == pending \subseteq mask
runs(p) == nest = <<>> /\ place = p /\ undisturbed
task_runs == runs("task")
handler_runs == nest # <<>> /\ undisturbed

(***************************************************************************)
(* What kernel calls do to the ready queue (task.c).                       *)
(***************************************************************************)
(* Mutated: the request is made only when dispatching is enabled.          *)
dispatch_request_when_enabled ==
  pending' = IF in_ddsp THEN pending ELSE pending \cup {SIGUSR2}

dispatch_request == pending' = pending \cup {SIGUSR2}

make_ready(t) ==
  /\ t \notin ready
  /\ ready' = ready \cup {t}
  /\ \/ schedtsk' = t /\ dispatch_request
     \/ schedtsk # NULL /\ UNCHANGED <<schedtsk, pending>>

make_non_ready(t) ==
  /\ t \in ready
  /\ ready' = ready \ {t}
  /\ IF schedtsk = t
     THEN /\ IF ready' = {} THEN schedtsk' = NULL ELSE schedtsk' \in ready'
          /\ dispatch_request
     ELSE UNCHANGED <<schedtsk, pending>>

reschedule(t) ==
  /\ t \in ready \ {schedtsk}
  /\ schedtsk' = t
  /\ dispatch_request
  /\ UNCHANGED ready

(* A task suspends or terminates another one; with setup_context when it   *)
(* terminates it.                                                          *)
stop_other(t) ==
  /\ t # ctxtsk
  /\ make_non_ready(t)
  /\ \/ UNCHANGED env
     \/ env' = [env EXCEPT ![t] = Started]

(* sta_tsk, wup_tsk, chg_pri and so on, from a task.                       *)
kernel_call(t) ==
  /\ task_runs
  /\ \/ make_ready(t) /\ UNCHANGED env
     \/ reschedule(t) /\ UNCHANGED env
     \/ stop_other(t)
  /\ UNCHANGED <<ctxtsk, sigvars, flowvars>>

(* The task waits: slp_tsk, wai_sem and so on.                             *)
wait_call ==
  /\ task_runs
  /\ ~in_ddsp
  /\ make_non_ready(ctxtsk)
  /\ UNCHANGED <<ctxtsk, sigvars, flowvars, env>>

(* ext_tsk and exd_tsk: force_dispatch leaves the task for good.  A task   *)
(* that was suspended while dispatching was disabled is not ready.         *)
ext_tsk ==
  /\ task_runs
  /\ IF ctxtsk \in ready THEN make_non_ready(ctxtsk) ELSE UNCHANGED <<readyvars, pending>>
  /\ env' = [env EXCEPT ![ctxtsk] = Started]
  /\ ctxtsk' = NULL
  /\ mask' = SIGMASK_LOC
  /\ place' = "save"
  /\ UNCHANGED <<nest, stack, frame>>

(* Calls of interrupt handlers, sus_tsk of the interrupted task included.  *)
handler_call(t) ==
  /\ handler_runs
  /\ make_ready(t) \/ reschedule(t) \/ make_non_ready(t)
  /\ UNCHANGED <<ctxtsk, sigvars, flowvars, env>>

(***************************************************************************)
(* The calls for the signal mask (cpu_calls.c).                            *)
(***************************************************************************)
set_mask(m) ==
  /\ mask' = m
  /\ UNCHANGED <<readyvars, ctxtsk, pending, nest, flowvars, env>>

dis_dsp == (task_runs \/ handler_runs) /\ ~in_loc /\ set_mask(SIGMASK_DDSP)
ena_dsp == (task_runs \/ handler_runs) /\ ~in_loc /\ set_mask(SIGMASK_TASK)
loc_cpu == task_runs /\ ~in_indp /\ set_mask(SIGMASK_LOC)
unl_cpu == task_runs /\ ~in_indp /\ set_mask(SIGMASK_TASK)

chg_ims(m) ==
  /\ \/ /\ handler_runs
        /\ m \in HANDLER_MASKS
        /\ SIGMASK_INDP \subseteq m
     \/ /\ task_runs
        /\ m \subseteq SIGMASK_DDSP \/ SIGMASK_DDSP \subseteq m
  /\ set_mask(m)

(***************************************************************************)
(* Interrupts (sys_timer.h, bsd_sigio.c).  sigpause of the idle loop masks *)
(* all signals again when the handler has returned, and the loop goes on.  *)
(***************************************************************************)
raise(i) ==
  /\ i \notin pending
  /\ pending' = pending \cup {i}
  /\ UNCHANGED <<readyvars, ctxtsk, sigvars, flowvars, env>>

(* Mutated: the idle loop sleeps on after an interrupt.                    *)
interrupt_sleeps_on(i) ==
  /\ i \in pending \ mask
  /\ pending' = pending \ {i}
  /\ mask' = mask \cup SIGMASK_INDP \cup {i}
  /\ nest' = <<mask>> \o nest
  /\ UNCHANGED <<readyvars, ctxtsk, flowvars, env>>

interrupt(i) ==
  /\ i \in pending \ mask
  /\ pending' = pending \ {i}
  /\ mask' = mask \cup SIGMASK_INDP \cup {i}
  /\ IF place = "idle" /\ nest = <<>>
     THEN nest' = <<SIGMASK_LOC>> /\ place' = "switch"
     ELSE nest' = <<mask>> \o nest /\ UNCHANGED place
  /\ UNCHANGED <<readyvars, ctxtsk, stack, frame, env>>

interrupt_return ==
  /\ handler_runs
  /\ mask' = Head(nest)
  /\ nest' = Tail(nest)
  /\ UNCHANGED <<readyvars, ctxtsk, pending, flowvars, env>>

(***************************************************************************)
(* The dispatcher (dispatch_handler).                                      *)
(***************************************************************************)
(* SIGUSR2 is delivered.                                                   *)
dispatch_handler ==
  /\ nest = <<>> /\ place = "task"
  /\ SIGUSR2 \in pending \ mask
  /\ pending' = pending \ {SIGUSR2}
  /\ frame' = mask
  /\ mask' = mask \cup {SIGUSR2}
  /\ place' = "test"
  /\ UNCHANGED <<readyvars, ctxtsk, nest, stack, env>>

(* The first test, with interrupts enabled, and _setjmp.                   *)
save_context ==
  /\ runs("test")
  /\ IF ctxtsk # schedtsk
     THEN /\ env' = [env EXCEPT ![ctxtsk] = Stopped(frame)]
          /\ place' = "save"
     ELSE /\ place' = "return"
          /\ UNCHANGED env
  /\ UNCHANGED <<readyvars, ctxtsk, pending, sigvars, stack, frame>>

lock ==
  /\ runs("save")
  /\ mask' = SIGMASK_LOC
  /\ place' = "switch"
  /\ UNCHANGED <<readyvars, ctxtsk, pending, nest, stack, frame, env>>

(* Mutated: ctxtsk is left as it was.                                      *)
switch_ctxtsk_kept ==
  /\ runs("switch")
  /\ IF schedtsk = NULL
     THEN /\ place' = "idle"
          /\ mask' = SIGMASK_DDSP
          /\ ctxtsk' = NULL
          /\ UNCHANGED <<stack, frame>>
     ELSE /\ place' = env[schedtsk].at
          /\ frame' = env[schedtsk].mask
          /\ stack' = schedtsk
          /\ UNCHANGED <<ctxtsk, mask>>
  /\ UNCHANGED <<readyvars, pending, nest, env>>

(* ctxtsk becomes schedtsk: idle when there is none, else _longjmp.        *)
switch ==
  /\ runs("switch")
  /\ ctxtsk' = schedtsk
  /\ IF schedtsk = NULL
     THEN /\ place' = "idle"
          /\ mask' = SIGMASK_DDSP
          /\ UNCHANGED <<stack, frame>>
     ELSE /\ place' = env[schedtsk].at
          /\ frame' = env[schedtsk].mask
          /\ stack' = schedtsk
          /\ UNCHANGED mask
  /\ UNCHANGED <<readyvars, pending, nest, env>>

(* Mutated: the task goes on with the mask of the dispatcher.              *)
handler_returns_masked ==
  /\ runs("return")
  /\ place' = "task"
  /\ UNCHANGED <<readyvars, ctxtsk, pending, mask, nest, stack, frame, env>>

handler_returns ==
  /\ runs("return")
  /\ mask' = frame
  /\ place' = "task"
  /\ UNCHANGED <<readyvars, ctxtsk, pending, nest, stack, frame, env>>

task_start ==
  /\ runs("start")
  /\ mask' = SIGMASK_TASK
  /\ place' = "task"
  /\ UNCHANGED <<readyvars, ctxtsk, pending, nest, stack, frame, env>>

(* main starts the initial task and calls force_dispatch.                  *)
main(t) ==
  /\ runs("startup")
  /\ make_ready(t)
  /\ place' = "save"
  /\ UNCHANGED <<ctxtsk, sigvars, stack, frame, env>>

Dispatcher ==
  dispatch_handler \/ save_context \/ lock \/ switch \/ handler_returns \/ task_start

Next ==
  \/ \E t \in Task : main(t) \/ kernel_call(t) \/ handler_call(t)
  \/ \E m \in SUBSET Signal : chg_ims(m)
  \/ wait_call \/ ext_tsk \/ dis_dsp \/ ena_dsp \/ loc_cpu \/ unl_cpu
  \/ \E i \in Irq : raise(i) \/ interrupt(i)
  \/ interrupt_return
  \/ Dispatcher

Spec == Init /\ [][Next]_vars

(* The handlers of interrupts end before the next interrupt comes, so that *)
(* the base flow has time; and it goes on in that time, although it may be *)
(* interrupted again and again (strong fairness).                          *)
TimelyNext == Next /\ (nest # <<>> => pending' \cap Irq \subseteq pending)

Fairness ==
  /\ SF_vars(dispatch_handler) /\ SF_vars(save_context) /\ SF_vars(lock)
  /\ SF_vars(switch) /\ SF_vars(handler_returns) /\ SF_vars(task_start)
  /\ SF_vars(interrupt_return)
  /\ \A i \in Irq : SF_vars(interrupt(i))

FairSpec == Init /\ [][TimelyNext]_vars /\ Fairness

(***************************************************************************)
(* Properties                                                              *)
(***************************************************************************)
(* Whenever the task that runs is not the first of the ready queue, a      *)
(* dispatch is on its way: requested and not lost, although requests do    *)
(* not count, may come while the handler of SIGUSR2 looks at schedtsk or   *)
(* idles, and stay masked for as long as dispatching is disabled.          *)
NeededDispatchPending ==
  place \in {"task", "return", "start"} /\ ctxtsk # schedtsk => SIGUSR2 \in pending

(* A task runs as itself: whenever code of a task runs, or a handler of an *)
(* interrupt on top of it, ctxtsk is the task on whose stack it runs.  The *)
(* checks of kernel calls read ctxtsk before their critical section begins *)
(* (check.h) and rely on that.                                             *)
RunsAsItself ==
  place \in {"task", "test", "return", "start"} => ctxtsk # NULL /\ stack = ctxtsk

(* The dispatcher is masked as long as a handler of an interrupt runs      *)
(* (cpu_status.h), so that it never jumps out of one; and no handler lies  *)
(* on top of the base flow while that chooses and resumes a task.          *)
HandlersUndispatched ==
  nest # <<>> => SIGUSR2 \in mask

(* Only a task that has enabled dispatching loses the processor to         *)
(* another, and it finds its signals as it left them, all unmasked.        *)
StoppedWithNothingMasked ==
  /\ \A t \in Task : env[t].at = "return" => env[t].mask = SIGMASK_TASK
  /\ place \in {"test", "save"} /\ ctxtsk # NULL => frame = SIGMASK_TASK

(* A task that begins, or that goes on after a dispatch, finds every       *)
(* signal unmasked, although _longjmp leaves it with the mask of the       *)
(* dispatcher, or of the task that ended.                                  *)
GoesOnUnmasked ==
  [][place # "task" /\ place' = "task" => mask' = SIGMASK_TASK]_vars

(* The first of the ready queue runs, unless dispatching is disabled: the  *)
(* dispatcher loses no request and no wake-up of the idle loop.            *)
ChosenTaskRuns ==
  (ctxtsk # schedtsk) ~> (ctxtsk = schedtsk \/ (place = "task" /\ SIGUSR2 \in mask))
=============================================================================
