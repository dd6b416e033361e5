---------------------------- MODULE NonblockingIO ----------------------------
(***************************************************************************)
(* Blocking calls on top of non-blocking files in the simulation on BSD:   *)
(* nb_read and nb_write (libitis/bsd_nbio.c) and the task that SIGIO wakes *)
(* to call the registered callbacks (systask/bsd_sigio.c).                 *)
(*                                                                         *)
(* A try of a file succeeds if it is ready, and takes what made it ready;  *)
(* nb_read and nb_write differ in what is tried.  The event block of a     *)
(* call is on the stack of its task, so a block is named by the task.  The *)
(* task of bsd_sigio.c has a higher priority than the tasks that call: it  *)
(* is not interrupted by them while it does not wait.                      *)
(***************************************************************************)
EXTENDS Integers, FiniteSets, SequencesExt

CONSTANTS
  Task, File,
  CHK_SELF,      (* the kernel refuses calls that name the calling task    *)
                 (* itself: so in the configurations of the repository     *)
  READY          (* bound: what a file may have for tries to come          *)

SIGIO_TASK == "bsd_sigio"

NonblockingAssumption ==
  /\ IsFiniteSet(Task) /\ SIGIO_TASK \notin Task
  /\ CHK_SELF \in BOOLEAN /\ READY \in Nat \ {0}

VARIABLES
  ready,         (* what each file has for tries to come                   *)
  sigio,         (* wakeups of the task of bsd_sigio.c, and SIGIO pending  *)
  sigio_task,    (* where this task is                                     *)
  q,             (* the block it looks at next, as a place in the queue    *)
  sigio_queue,   (* the registered event blocks                            *)
  sem,           (* count of SEM_BSD_SIGIO                                 *)
  sem_queue,     (* the tasks that wait for it                             *)
  at,            (* where each task is in nb_read                          *)
  args,          (* the file of its call                                   *)
  result,        (* whether the call has got its result, and who read or   *)
                 (* wrote for it: its own try or the callback (a history)  *)
  wupcnt         (* its queued wakeups                                     *)

queuevars == <<sigio_queue, sem, sem_queue>>
taskvars  == <<at, args, result, wupcnt>>
sigiovars == <<sigio, sigio_task, q>>
vars      == <<ready, sigiovars, queuevars, taskvars>>

Init ==
  /\ ready = [f \in File |-> 0]
  /\ sigio = FALSE
  /\ sigio_task = "sleeps"
  /\ q = 1
  /\ sigio_queue = <<>>
  /\ sem = 1
  /\ sem_queue = <<>>
  /\ at = [t \in Task |-> "idle"]
  /\ args \in [Task -> File]
  /\ result = [t \in Task |-> "none"]
  /\ wupcnt = [t \in Task |-> 0]
-----------------------------------------------------------------------------
sig_sem ==
  IF sem_queue = <<>> THEN sem' = sem + 1 /\ UNCHANGED sem_queue
  ELSE sem_queue' = Tail(sem_queue) /\ UNCHANGED sem

(* Where the tasks go on, given the places they are at, when sig_sem was called. *)
handed_on(place) ==
  IF sem_queue # <<>> /\ Head(sem_queue) # SIGIO_TASK
  THEN [place EXCEPT ![Head(sem_queue)] = "has_sem"] ELSE place

next_sigio_task(place) ==
  IF sem_queue # <<>> /\ Head(sem_queue) = SIGIO_TASK THEN "walks" ELSE place

(* The task of bsd_sigio.c leaves the processor to the others.             *)
others_run == sigio_task # "walks" /\ (sigio_task = "waits" \/ ~sigio)

(* Mutated: a task that does not sleep yet is not woken.                   *)
nb_callback_asleep_only(t, self) ==
  /\ ready[args[t]] > 0
  /\ ready' = [ready EXCEPT ![args[t]] = @ - 1]
  /\ result' = [result EXCEPT ![t] = IF self THEN "own_try" ELSE "callback"]
  /\ at' = IF self THEN [at EXCEPT ![t] = "returns"]
           ELSE IF at[t] = "asleep" THEN [at EXCEPT ![t] = "returns"] ELSE at
  /\ UNCHANGED wupcnt

(* The callback for t, which takes what it finds: wup_tsk wakes t, or      *)
(* counts, or refuses a call for the task itself (CHK_SELF), and nb_read   *)
(* goes on to slp_tsk all the same.                                        *)
nb_callback(t, self) ==
  /\ ready[args[t]] > 0
  /\ ready' = [ready EXCEPT ![args[t]] = @ - 1]
  /\ result' = [result EXCEPT ![t] = IF self THEN "own_try" ELSE "callback"]
  /\ \/ /\ ~self /\ at[t] = "asleep"
        /\ at' = [at EXCEPT ![t] = "returns"]
        /\ UNCHANGED wupcnt
     \/ /\ IF self THEN ~CHK_SELF ELSE at[t] # "asleep"
        /\ wupcnt' = [wupcnt EXCEPT ![t] = @ + 1]
        /\ at' = IF self THEN [at EXCEPT ![t] = "sleeps"] ELSE at
     \/ /\ self /\ CHK_SELF
        /\ at' = [at EXCEPT ![t] = "sleeps"]
        /\ UNCHANGED wupcnt

(* A task calls nb_read or nb_write.                                       *)
nb_call(t) ==
  /\ others_run /\ at[t] = "idle"
  /\ at' = [at EXCEPT ![t] = "tries"]
  /\ \E f \in File : args' = [args EXCEPT ![t] = f]
  /\ result' = [result EXCEPT ![t] = "none"]
  /\ UNCHANGED <<ready, sigiovars, queuevars, wupcnt>>

nb_try(t) ==
  /\ others_run /\ at[t] = "tries"
  /\ \/ nb_callback(t, TRUE)
     \/ /\ ready[args[t]] = 0
        /\ at' = [at EXCEPT ![t] = "enqueues"]
        /\ UNCHANGED <<ready, result, wupcnt>>
  /\ UNCHANGED <<sigiovars, queuevars, args>>

(* enqueue_sigioeb: first the semaphore, then the queue.                   *)
enqueue_wai_sem(t) ==
  /\ others_run /\ at[t] = "enqueues"
  /\ IF sem > 0
     THEN sem' = sem - 1 /\ at' = [at EXCEPT ![t] = "has_sem"] /\ UNCHANGED sem_queue
     ELSE sem_queue' = Append(sem_queue, t) /\ at' = [at EXCEPT ![t] = "waits"] /\ UNCHANGED sem
  /\ UNCHANGED <<ready, sigiovars, sigio_queue, args, result, wupcnt>>

enqueue_sigioeb(t) ==
  /\ others_run /\ at[t] = "has_sem"
  /\ sigio_queue' = Append(sigio_queue, t)
  /\ sig_sem
  /\ at' = handed_on([at EXCEPT ![t] = "sleeps"])
  /\ sigio_task' = next_sigio_task(sigio_task)
  /\ UNCHANGED <<ready, sigio, q, args, result, wupcnt>>

nb_slp_tsk(t) ==
  /\ others_run /\ at[t] = "sleeps"
  /\ IF wupcnt[t] > 0
     THEN at' = [at EXCEPT ![t] = "returns"] /\ wupcnt' = [wupcnt EXCEPT ![t] = @ - 1]
     ELSE at' = [at EXCEPT ![t] = "asleep"] /\ UNCHANGED wupcnt
  /\ UNCHANGED <<ready, sigiovars, queuevars, args, result>>

(* The call returns; what the block was is used for something else.        *)
nb_return(t) ==
  /\ others_run /\ at[t] = "returns"
  /\ at' = [at EXCEPT ![t] = "idle"]
  /\ UNCHANGED <<ready, sigiovars, queuevars, args, result, wupcnt>>
-----------------------------------------------------------------------------
(* The task of bsd_sigio.c is woken and takes the semaphore.               *)
bsd_sigio_task ==
  /\ sigio /\ sigio_task = "sleeps"
  /\ sigio' = FALSE
  /\ q' = 1
  /\ IF sem > 0
     THEN sem' = sem - 1 /\ sigio_task' = "walks" /\ UNCHANGED sem_queue
     ELSE sem_queue' = Append(sem_queue, SIGIO_TASK) /\ sigio_task' = "waits" /\ UNCHANGED sem
  /\ UNCHANGED <<ready, sigio_queue, taskvars>>

(* Mutated: the place in the queue moves on past the block that comes up.  *)
next_block_skips(deleted) == q + 1

next_block(deleted) == IF deleted THEN q ELSE q + 1

queue_delete(i) == RemoveAt(sigio_queue, i)

(* One callback; its block is deleted if it got something.                 *)
call_event ==
  /\ sigio_task = "walks" /\ q <= Len(sigio_queue)
  /\ LET t == sigio_queue[q] IN
     \/ /\ nb_callback(t, FALSE)
        /\ sigio_queue' = queue_delete(q)
        /\ q' = next_block(TRUE)
     \/ /\ ready[args[t]] = 0
        /\ q' = next_block(FALSE)
        /\ UNCHANGED <<ready, sigio_queue, at, result, wupcnt>>
  /\ UNCHANGED <<sigio, sigio_task, sem, sem_queue, args>>

walk_ends ==
  /\ sigio_task = "walks" /\ q > Len(sigio_queue)
  /\ sig_sem
  /\ at' = handed_on(at)
  /\ sigio_task' = "sleeps"
  /\ UNCHANGED <<ready, sigio, q, sigio_queue, args, result, wupcnt>>

(* A file becomes ready, or has more for the tries: SIGIO.                 *)
file_ready(f) ==
  /\ ready' = [ready EXCEPT ![f] = IF @ < READY THEN @ + 1 ELSE @]
  /\ sigio' = TRUE
  /\ UNCHANGED <<sigio_task, q, queuevars, taskvars>>

TaskStep(t) ==
  \/ nb_call(t) \/ nb_try(t) \/ enqueue_wai_sem(t) \/ enqueue_sigioeb(t)
  \/ nb_slp_tsk(t) \/ nb_return(t)

SigioStep == bsd_sigio_task \/ call_event \/ walk_ends

Next ==
  \/ \E t \in Task : TaskStep(t)
  \/ SigioStep
  \/ \E f \in File : file_ready(f)

Spec == Init /\ [][Next]_vars

(* The processor is given to the task of bsd_sigio.c when it can go on,    *)
(* and to each task in a call in the end.                                  *)
in_call(t) == at[t] # "idle" /\ TaskStep(t)

-----------------------------------------------------------------------------
Places == {"idle", "tries", "enqueues", "waits", "has_sem", "sleeps", "asleep", "returns"}

(* Every variable has its type.                                            *)
NonblockingTypeOK ==
  /\ ready \in [File -> 0 .. READY]
  /\ sigio \in BOOLEAN
  /\ sigio_task \in {"sleeps", "waits", "walks"}
  /\ q \in 1 .. Cardinality(Task) + 1
  /\ sem \in {0, 1}
  /\ ToSet(sigio_queue) \subseteq Task
  /\ ToSet(sem_queue) \subseteq Task \cup {SIGIO_TASK}
  /\ at \in [Task -> Places]
  /\ args \in [Task -> File]
  /\ result \in [Task -> {"none", "own_try", "callback"}]
  /\ wupcnt \in [Task -> 0 .. 1]

(* The event blocks in the queue are those of the calls that still go on   *)
(* and have no result, each once: the queue never runs through the stack   *)
(* of a task that has returned.                                            *)
QueuedBlocksLive ==
  /\ IsInjective(sigio_queue)
  /\ \A t \in Task :
       t \in ToSet(sigio_queue) <=> at[t] \in {"sleeps", "asleep"} /\ result[t] = "none"

(* The queue has one user at a time: a task in enqueue_sigioeb or the task *)
(* of bsd_sigio.c.                                                         *)
OneUserOfQueue ==
  Cardinality({t \in Task : at[t] = "has_sem"}) + (IF sigio_task = "walks" THEN 1 ELSE 0) + sem = 1

(* A call returns with a result.                                           *)
ReturnsWithResult == \A t \in Task : at[t] = "returns" => result[t] # "none"

(* A task does not sleep on when its call has got its result, except for   *)
(* one that got it by its own try where the kernel forbids tasks to wake   *)
(* themselves: whatever the callback finds for a task reaches it.          *)
ResultWakes ==
  \A t \in Task :
    at[t] = "asleep" => result[t] = "none" \/ (result[t] = "own_try" /\ CHK_SELF)

(* A call that finds its file ready returns, as read and write do.         *)
ReadyFileRead == \A t \in Task : at[t] = "asleep" => result[t] # "own_try"

(* Nobody waits for a file that is ready while SIGIO has been dealt with.  *)
NoReadyFileWaitedFor ==
  ~sigio /\ sigio_task = "sleeps" =>
    \A t \in Task : at[t] = "asleep" => ready[args[t]] = 0

=============================================================================
