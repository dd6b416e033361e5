# ItIs: models, model checking and proofs

ItIs is a µITRON kernel (Sakamura Lab) for the MC68030 and, on top of signals, for
BSD systems.  This directory holds TLA+ modules that model the kernel and its system
tasks, the TLC configurations that check them on small instances, and proofs that TLAPS
checks for every value of the constants.  `PROJECT.json` maps every definition to the
lines it models and lists the runs, the mutants, the hazards, the findings and the theorems.

    tlc -workers 2 -config Objects.cfg MCObjects
    tlapm TaskManagementProofs.tla

## 1. Inventory

One processor runs tasks and interrupt handlers.  Both call the kernel; a call runs
its body between `BEGIN_CRITICAL_SECTION` and `END_CRITICAL_SECTION`, with interrupts
masked, and the end of the section starts the dispatcher when the task that should run
(`schedtsk`) is not the one that runs (`ctxtsk`).  Everything that makes the kernel hard
follows: calls are atomic, but handlers come between any two of them, also in the window
between a section and its dispatch, and a dispatch can be held off for a long time
(`dis_dsp`, `loc_cpu`, a handler) while other calls go on changing who should run.
The system tasks (drivers, log, asynchronous files) are not atomic: they are
interleaved at every call they make.

| Component | State | Operations | Uses | What makes it correct |
|---|---|---|---|---|
| queues (`kernel/queue.h`) | doubly linked rings | insert, delete, search | - | an entry is in at most one ring |
| ready queue (`ready_queue.h`) | a queue per priority, bitmap, `top_priority` | insert, delete, top, rotate | queues | bitmap and top agree with the queues; FIFO in a priority |
| tasks (`task.c`, `task_manage.c`) | TCB table, `schedtsk`, `ctxtsk`, stacks | cre, del, sta, ext, exd, ter, chg_pri, rot_rdq, rel_wai | ready queue, wait, memory pool | ready queue = READY tasks; `schedtsk` is its head; nobody ends the running task; no stack leaks |
| task synchronisation (`task_sync.c`) | `wupcnt`, `suscnt` | sus, rsm, frsm, slp, tslp, wup, can_wup | tasks, wait | no wake-up lost; nesting and state agree |
| wait (`wait.c`) | `wspec`, `wgcb`, wait queues | make_wait, wait_cancel, wait_release, wait_delete, two hooks | tasks, timer | a task waits in one queue, with at most one time event |
| timer (`timer.c`, `time_calls.c`) | `timer_queue`, `current_time`, handler tables | insert, delete, tick; set_tim; cyclic and alarm handlers; vget_tim | callbacks into wait | every event in time, in order, none for a task that no longer waits |
| semaphore, event flag, mailboxes, fixed-length pool | control block, wait queue | create, delete, give, take with time-out, refer | wait | nothing given twice or lost; waiters in their order; nobody waits for what is there |
| message buffer, variable-length pool | ring or areas, one or two wait queues | the same; one call may serve several waiters | wait | messages and blocks intact; all that fit are served |
| rendezvous port (`rendezvous.c`) | two wait queues, rendezvous number | call, accept, forward, reply | wait | a reply ends the rendezvous it is for, and no other |
| priority inheritance semaphore (`prisem.c`) | holder, list per task | signal, wait, the two hooks | wait, change of priority | a holder has the priority of its most urgent waiter |
| dispatcher, CPU state (`m68k/`, `bsd/`) | `dispatch_disabled`, masks, handler nesting | dis_dsp, ena_dsp, loc_cpu, unl_cpu, chg_ipm, dispatch, ret_int | tasks | delayed dispatching; a requested dispatch happens; masks come back |
| extended SVC (`misc_calls.c`) | table of services, `sysmode` | def_svc, call of a service | tasks | a task has the rights of the portion it is in |
| start-up (`startup.c`) | - | initialise, create and start the first task | all | the state the invariants start from |
| serial drivers (`systask/serial.c`, `bsd_serial.c`) | two rings, flow control | read, write, ioctl, interrupt or SIGIO | semaphores, handlers | characters in order; nobody forgotten; the other side told |
| non-blocking files on BSD (`bsd_nbio.c`, `bsd_sigio.c`) | queue of event blocks | nb_read, nb_write, SIGIO | wait, wake-up, semaphore | calls return with their result; blocks in the queue live |
| log (`isyslog.c`, `logtask.c`) | message buffer, `logtask_alive` | syslog, the log task | message buffer | no message lost |
| configuration, C library, tron port, samples | - | - | - | not part of the kernel's behaviour |

Hard behaviours: interleaving of tasks and handlers; delayed dispatch; a handler that
suspends the running task while dispatching is off; time-outs against explicit releases,
termination and deletion; cached values (`schedtsk`, `top_priority`, bitmap,
`logtask_alive`); several waiters released by one call while the queue is walked; chains
and circles of priority inheritance; ring-buffer and pool arithmetic; creation that fails
half-way; masks that `_longjmp` does not restore; interrupts that come only for what is
new.  `PROJECT.json` lists them as hazards, at the lines where they bite, with the
properties that watch them.

## 2. Plan

Done, in this order: the scheduler and the calls on tasks (`ReadyQueue`, `TaskCore`,
`TaskManagement`, `Precedence`) with their proofs; semaphores; the timer; the other
synchronisation objects and pools; priority inheritance; the BSD dispatcher with its
proofs; services, stacks and the system clock; drivers, files and log.

Then the proofs about semaphores, event flags, mailboxes, both kinds of pools, message buffers,
rendezvous ports, priority inheritance semaphores, the system clock, services and stacks, of the
refinements of `Precedence` by the scheduler, of `MessageFifo` by the ring of bytes and of
`Deadlines` by the timer queue, and about both drivers, the files and the log.

Left: shutting down the pseudo serial port, PRISEM_SPEC2, and code 0 of services.

Abstract specifications, each refined by a detailed one: `Precedence` (order of service),
`Semaphore` (of a fixed-length pool, whose units are the blocks), `MessageQueues`
(mailboxes), `MessageFifo` (ring buffer), `Deadlines` (timer queue).

## 3. Modules

| Module | Models |
|---|---|
| `Queues`, `ReadyQueue` | `queue.h`, `ready_queue.h`: functions from a queue to a queue |
| `TaskCore` | TCB fields, `task.c`, `wait.c`, who may call: what the calls are built from |
| `TaskManagement` | the calls of `task_manage.c` and `task_sync.c`, `dly_tsk`, dispatch and interrupt control, dispatcher, handlers, time-outs |
| `Precedence` | what the user's manual promises of the order of service, without any queue |
| `Semaphore`, `EventFlag`, `Mailbox`, `TaskMailbox`, `FixedMemoryPool` | the objects that serve one waiter at a time (a set_flg: all whose condition holds); each EXTENDS `TaskManagement` and gives `Gcb` its queues |
| `MessageList`, `MessageQueues` | linked lists of packets, and the queues they stand for |
| `MessageBuffer`, `MessageRing`, `RingBuffer`, `MessageFifo` | the calls with the two queues; the ring as an operator library; the ring by itself, byte by byte; what it promises |
| `MemoryPool`, `MemoryAreas` | the calls; areas, headers and the free queue as operators |
| `Rendezvous` | `rendezvous.c` with numbers, forwarding and the time event used twice |
| `PriSem` | `prisem.c` with the hooks into every call of task management that can end a wait or change a priority; the calls of the hooks and of `change_task_priority` by each other, which are the last thing each does, are made one after the other |
| `Timer`, `Deadlines` | timer queue, clock, cyclic and alarm handlers; what they promise |
| `SystemTime` | `vget_tim` against the count of the hardware timer and its interrupt, read by read |
| `TaskStacks` | memory of tasks in `task_manage.c`: stacks, free control blocks, the stack the processor is on |
| `ExtendedSvc` | `misc_calls.c`, and `sysmode` on both ports |
| `BsdDispatcher` | `bsd/`: signals, masks, `_setjmp` and `_longjmp`, the idle loop, start of tasks |
| `SerialPort`, `Serial`, `BsdSerial` | what both drivers share; the driver for hardware ports with its MPSC; the one for a terminal with SIGIO |
| `NonblockingIO` | `bsd_nbio.c` and `bsd_sigio.c` |
| `SystemLog` | `isyslog.c`, `logtask.c`, `syslog` of the library |
| `QueueProofs`, `TaskManagementProofs`, `ObjectProofs`, `ExchangeProofs`, `DependenceProofs`, `KernelProofs`, `BsdDispatcherProofs`, `DeviceProofs` | the proofs (section 5) |
| `MC...` | instances: constants, views, symmetry, what a run leaves out |

How state corresponds to code:

- A TCB field is a function on `Task`.  `wspec` stands for the fields `wspec` and `wgcb`:
  the wait queue the task is in, or the name of a wait without a queue (`"slp"`, `"dly"`,
  `"tmb"`, `"rdv"`), and `"none"` when it does not wait (the code leaves the fields as they
  are; nothing reads them outside a wait).  `winfo` of a waiting task is a variable of the
  object's module.
- A doubly linked queue is a sequence; `queue_delete` of a task that is linked to itself
  only, which the code uses for waits without queue, is the test `wspec[t] \in Gcb`.  The
  lists of messages, the areas of a pool and the free blocks keep their links and tails.
- `bitmap` is the set of the priorities whose bit is 1; the search for the next priority
  keeps the two levels of the code, words of `BITMAPSZ` bits and the lowest bit in a word.
- In `TaskManagement` `timer_queue` is the set of the tasks with a pending `wtmeb`, any of
  which can be found due; `Timer` has the queue with its times.
- `ctxtsk = NoTask` is the dispatcher waiting for a handler.  The code holds
  `dispatch_disabled` set while it saves a context and while it waits, and reads
  `schedtsk` again with interrupts masked; taking `schedtsk` in one step shows the same
  task switches, because nothing that runs meanwhile can be switched out.
- `in_indp` is a running handler; nested handlers count as one in `TaskManagement`, since
  only the outermost `ret_int` dispatches and calls do not distinguish levels.  They nest
  in `BsdDispatcher`.
- A system call is one action: its body is a critical section.  `CHECK_CTX`, `CHECK_INTSK`,
  `CHECK_DISPATCH` and `CHECK_NONSELF` run before it, but what they read about the caller
  cannot be changed by anybody else while the caller runs.  A call that returns an error
  changes nothing and is not an action; error codes are left out.  In the system tasks
  every system call is a step of its own, as they may be preempted between two of them.
- An object ID keeps its attributes (order of waiters, of messages) whenever it is created:
  the attribute of a queue is a constant set (`TaTpri`, `TaMpri`, `TaWmul`).  v..._ calls
  create an object that is picked from a free list and are the same action.
- What programs have in hand (`lent` blocks, packets they may send) is modelled where the
  kernel relies on it, and the program is assumed to keep to it.
- Characters, messages and bytes carry numbers, so that order and loss can be seen;
  contents are abstracted.

The m68k port is in `TaskManagement`; the BSD port keeps the same contract with signal
masks and has a module of its own, in which the kernel calls are abstracted to what they
do to the ready queue.

## 4. What TLC checks

Several runs are unions: a variable (`kind` or `part`) chosen in the initial state says
which component works in the behaviour, the variables of the others stay as they are, and
the view leaves them out.  So every part is explored as completely as in a run of its own,
and each property is a conjunction by parts.

| Run | Instance | Properties |
|---|---|---|
| `tasks` | 2 tasks, 2 priorities in two words of 1 bit, counts up to 2, 2 interrupt levels; a third task while nothing is masked and no request is counted | `NoLostWakeup`, `TimeoutOnlyWhileWaiting`, `ReadyQueueExact`, `SchedtskIsTop`, `DelayedDispatch`, `ServedInOrder` (refinement of `Precedence`), `DispatchHappens` (liveness) |
| `objects` | 2 tasks and handlers, 2 priorities; 2 semaphores up to 2 units; event flags of 2 bits, one with TA_WMUL; 2 mailboxes and 3 packets of 2 priorities; task mailboxes; a pool of 1 or 2 blocks | `QueuesExact`, `NobodyWaitsForWhatIsThere`, `WaitQueueSorted`, `EveryBlockOnce`, `WaitersKeepTheirOrder`, `ConsumedOnce`, `ServesMail`, `ServesUnits` (refinements) |
| `exchanges` | 3 tasks, or 2 that are suspended and terminated too; a buffer of 0 or 10 bytes with headers of 2 and messages of 1 to 8; a pool of up to 6 units with blocks of 1 to 5; a pool of 16 units that nobody waits for; a ring of 12 bytes with messages of 1 to 5 from two senders | `NobodyWaitsInVain`, `BlocksSound`, `ServedInTurn`, `RingServesFifo` (refinement of `MessageFifo`) |
| `rendezvous` | 3 tasks at one port, or 2 at two ports with forwarding; 2 patterns, 3 rendezvous | `NoMissedRendezvous`, `AnsweredByOne`, `RepliesSound` |
| `prisem` | 3 tasks of 3 priorities; 3 semaphores in order, 2 with changes of priority, 2 with deadlocks | `OwnersSound`, `InheritsUnlessChanged`, `PisQueueSorted` |
| `kernel` | 3 tasks and 4 blocks for stacks; 3 tasks and services nested twice; a hardware timer of 6 ticks; 2 cyclic handlers, an alarm and a task in the timer queue | `MemorySound`, `RightsMatchServices`, `ReadsTheTime`, `ServesDeadlines` |
| `dispatcher` | BSD: 2 tasks, 2 interrupts that nest | `NeededDispatchPending`, `RunsAsItself`, `GoesOnUnmasked`, `ChosenTaskRuns` (liveness) |
| `devices` | rings of 3 places, which hold 2 characters, 2 tasks and flow control of all kinds; 3 tasks and 2 files that are ready at most twice, with CHK_SELF as in the configurations of the repository; 4 messages of 2 programs and room for 2 | `CharactersInOrder`, `PortGoesOn`, `CallsGetResults`, `LogComplete` |
| `devices_live` | smaller: rings of 2 places, which hold 1 character, and 1 task; 3 tasks and 1 file; 3 messages and room for 1 | `PortServed`, `CallbackCalled`, `PutOutInTheEnd` (liveness) |
| `fwd_por_timeout` | as `rendezvous` | `ForeverIsNotQueued`, violated |
| `prisem_terminate` | 3 tasks, 2 semaphores, termination in a circle | `QueuedTasksWait`, violated |
| `nb_read_ready` | the files of `devices` | `ReadyCallsReturn`, violated |

Why the bounds are enough.

- Two tasks give every pair of roles (caller and target, running and preempting), with a
  handler as the third actor that gives, deletes, releases or changes a priority while both
  wait.  Three are needed for order within a queue (`tasks`), for a waiter behind one that
  leaves or is skipped (`exchanges`), for a caller, an acceptor and a third that gets the
  call forwarded (`rendezvous`), and for chains and circles (`prisem`).
- Two priorities in two words give the search a bit in a later word and none, and three in words of
  two bits (`prisem`) one in the same word too; counts up to 2 separate "one less" from "zero" and
  reach the limit; level 1 of the interrupt mask is a partial mask and level 2 masks everything.
- A buffer of 10 bytes with headers of 2 holds three messages of 1 byte, a message of 4 and one of
  1, or just one of 8; 0 bytes is the synchronous buffer, which holds none.  In a ring of 12 bytes a
  message is split at every place where the rounding allows it.  A pool of 16 units has up to five
  areas, so that one can be merged with none, one or both neighbours; 4 blocks are one less than two
  user tasks and the initial one need, so that the first or the second stack fails.
- The clock runs to 2 and relative times to 2, which gives events before, at and after
  every tick, and several at one time; set_tim moves the clock in both directions.
- Rings that hold 2 characters can be empty, half full and full and wrap after every third
  character; the character numbers are taken modulo `LAST`, twice the size of the ring, so a
  character that is lost or doubled shows.  Up to `LINE` characters are on the line of the
  pseudo port.  In `devices_live` a ring of one character makes STOP due with every character
  that comes; START never becomes due there, because the code counts no room in an empty ring
  (`in_buf_area`, serial.c:288).  `devices` has rings in which both do.
- `MAX_CHAIN` bounds the changes of priority that follow each other in one call.  With tasks that
  take semaphores in order there is one for each task at most, which is proved; for the parts with
  circles 4 was compared with 6, which reaches the same states.
- MAX_TIME, MAXRDV, ALLRDV, MESSAGES, LINE, READY and DEPTH are bounds of the model; the
  system may stop there, which is why `rendezvous`, `kernel`, `devices` and `devices_live`
  do not check for deadlock.  All others do.

What a run leaves out: `tasks` has its third task only while interrupts and dispatching are not held
off and no request is counted, none of which touches the ready queue; the object runs leave out the
calls that only mask interrupts, hold off dispatching, count wake-ups or rotate queues
(`MCTaskManagement`): none of them touches a wait queue or an object.  With three tasks `exchanges`
and `rendezvous` also leave out suspension and termination, which the parts with two tasks have.
Views leave out fields that nothing reads before they are set (TCBs and control blocks not in use,
free bytes of rings, `winfo` of tasks that wait for something else).  Symmetry is used for tasks
that the specification does not tell apart, and never in a run with a liveness property.

Fairness, and why the code justifies it.

- `tasks`: weak fairness of `dispatch` and of `ret_int`.  The dispatcher is entered by the
  code that ends a critical section and cannot be delayed except by handlers; handlers
  return.  No task is assumed to make any call, and no interrupt to arrive.
- `dispatcher`: the steps of the dispatcher's own code are strongly fair, as a handler may
  come between any two of them; it returns before the next interrupt comes, without which
  interrupts alone could take the processor for ever.
- `devices_live`: a character in the transmitter is sent, a pending interrupt is served,
  SIGIO wakes its task, a task inside a call goes on, the log task and the senders run.
  The other side of the line and the programs are not assumed to do anything.

What the properties watch beyond one assignment:

- `ReadyQueueExact`, `SchedtskIsTop`, `ServedInOrder`: caches that every call updates
  incrementally, and the order of service over any sequence of calls.
- `QueuesExact`, `NobodyWaitsForWhatIsThere`, `NobodyWaitsInVain`: the state of an object
  against the tasks that wait for it, whatever ended other waits and whoever is suspended.
- `ServesUnits`, `ServesMail`, `RingServesFifo`, `ServesDeadlines`: refinements; lists,
  rings and sorted queues against what they stand for.
- `EveryBlockOnce`, `BlocksSound`, `MemorySound`: nothing lent twice, nothing lost.
- `AnsweredByOne`, `RepliesSound`: a late or forwarded reply meets only its rendezvous.
- `InheritsUnlessChanged`, `OwnersSound`, `PisQueueSorted`: priorities along chains, with a
  reference definition of the inherited priority.
- `ReadsTheTime`: three reads of a moving clock give a moment between call and return.
- `NeededDispatchPending`, `RunsAsItself`, `GoesOnUnmasked`: masks and pending signals
  against what should run.
- `PortGoesOn`, `CallsGetResults`, `LogComplete` and the liveness properties: whoever waits
  is served by somebody who is still going to run.

## 5. What is proved

The theorems hold for every value of the constants that the named assumptions of the
modules allow: `NoTask` is no task, names of waits are not wait queues, numbers are positive,
the sets of messages and of user tasks are finite, and so on.  Sets of tasks, blocks and
objects are otherwise arbitrary.  Where a theorem needs more it says so as a hypothesis,
listed at the end of this section.

| Module | Theorems that state a property of a run | Also |
|---|---|---|
| `TaskManagementProofs` | `WakeupNotLost`, `TimeoutMeetsWaiter`, `DispatchIsDelayed`, `ReadyQueueIsExact`, `SchedtskIsRight`, `TasksAreServedInOrder` | `Invariance`, `TypeCorrect`, `BitmapIsExact`, `SuspendNesting`, `FreshStart`, `RunningTaskStaysAlive`, `DispatchBeforeWait`, `PrecedenceIsTotal` |
| `ObjectProofs` | `QueuesAreExact`, `WhatIsThereIsTaken`, `WaitQueuesAreSorted`, `NoBlockIsLost`, `TurnsAreKept`, `EventsAreConsumedOnce`, `PoolsServeUnits`, `MailIsServed` | `ObjectsInvariance`, `InstancesArePrograms` |
| `DependenceProofs` | `NobodyIsMissed`, `OneTaskReplies`, `RepliesFitBuffers`; `OwnersStaySound`, `PisQueuesStaySorted`, `PrioritiesAreInherited` | `RendezvousInvariance`, `RendezvousInstances`, `PisInvariance` |
| `ExchangeProofs` | `NoWaitIsInVain`, `BlocksAreSound`, `AllAreServedInTurn`, `RingIsFifo` | `ExchangesInvariance`, `ExchangesArePrograms` |
| `KernelProofs` | `TimeIsReadSoundly`, `RightsAreThoseOfServices`, `MemoryIsSound`, `DeadlinesAreServed` | |
| `DeviceProofs` | `PortsKeepOrder`, `PortsGoOn`, `FilesGetResults`, `LogLosesNothing` | |
| `BsdDispatcherProofs` | `DispatchNotLost`, `TaskRunsAsItself`, `TasksGoOnUnmasked` | `InductiveInvariant`, `TypeCorrect`, `NoDispatchInHandlers`, `StoppedUnmasked` |

`QueueProofs` has the lemmas on sequences the others rest on: deleting, inserting and
rotating, the order of two entries, the least element of a set of naturals.

### The scheduler and the calls on tasks

`TaskManagementProofs` proves `Spec => []IInv`.  Its first part shows that each operation of
the ready queue keeps it consistent and what it does to its head, the heart being the search
in the bitmap after a queue became empty.  `IInv` is `TypeOK` with four groups, which need
each other:

- `SchedInv`: the ready queue is consistent with the set of READY tasks and `schedtsk` is
  its head.  `ReadyQueueExact` alone is not inductive: deleting a task finds it only if the queue
  of its priority holds it exactly once, and the new `top_priority` is right only if the
  bitmap was.
- `WaitInv`: a task waits iff `wspec` names a wait, wait queues hold exactly their waiters,
  and time events belong to waiting tasks.  It is needed to know that `wait_cancel` removes
  the task from the queue it is in.  No call of `TaskManagement` itself enters a wait queue;
  the group is stated for any content of the queues, so that the objects can build on it.
- `CountInv`: `SuspendCount`, `StartsFresh`, `NoLostWakeup`.  `StartsFresh` is what makes
  `SuspendCount` survive `sta_tsk`.
- `RunInv`: the running task is alive, and ready or suspended while dispatching is off.  It
  needs `SchedInv` (the dispatcher takes a READY task) and gives the calls their premise
  that the caller exists.

One lemma per group and kind of action (calls that name a task, calls of the running task,
processor steps) covers the induction step.  Part 3 has what the objects need of `wait.c`:
that `make_wait`, `wait_release` and `wait_release_all` keep `IInv`, and what they do to the
queues.  The release of all tasks of a queue is described by the result of the loop, the
ready queues after all of them were inserted, so no induction over the loop is needed.

Part 4 proves the refinement `TasksAreServedInOrder`.  The abstract order, who was made ready
before whom, is read off the places in the ready queues; each operation of the ready queue
moves, inserts or deletes one task and leaves the order of all others as it was, which is
`Precedence`'s step for that call.  `PrecedenceIsTotal` says that the order has no ties.

### The objects

`ProgramSpec` is the union of the calls of one kind of object with **all** calls of
`TaskManagement`; `InstancesArePrograms` shows that what the run `objects` explores, which
leaves some calls out, is part of it.  `ObjectsInv` has `IInv`, the order of TA_TPRI queues, and
for each kind what the object keeps and who waits for it.  Task management can take a waiting
task out of a queue at any time (rel_wai, ter_tsk, a time-out) and can move it within a sorted
queue (chg_pri).  So every statement about waiters is made of the tasks with a given `wspec`,
never of the queue: a step of task management only makes that set smaller.  `WaitInv` gives
the queue back.  With this the induction splits into lemmas about calls of the object, one
for each call, and one lemma for everything else.

- The action properties `TurnsAreKept` and `EventsAreConsumedOnce` are proved along with the
  invariant, as what each step does (`ObjectsStepOK`).
- `PoolsServeUnits` maps a pool to a semaphore of its blocks, step by step.
- `MailIsServed`: a mailbox keeps the address of the first message and of the last one, and
  each packet the address of the next one.  The relation to the queue (`Chain`) says that
  there is a queue of messages without repetition whose successive elements are linked from
  the first one; the links of other packets are free, and so is `mq_tail` of an empty list.
  `mq_tail` of a TA_MPRI mailbox is also free, as the code lets it go stale.  Several lists
  share the links, so `Boxed` says that no packet is in two of them: appending to one list
  writes the link of its last packet only, which no other list holds.

### Buffers and pools

The behaviours of `exchanges` are about a buffer, a pool or a ring; `ProgramSpec` of
`ExchangeProofs` has any number of buffers and pools at once and all calls of task
management.  `ExchangeInv` has one invariant for each of them.

- `PoolInv`: the areas of a pool are chained.  That is said without induction, by: the
  next area of an area is behind it and there is no area between (`Chained`), the headers
  link back, free areas are in the free queue once and are never neighbours (`FreeExact`),
  blocks in use begin at the areas in use and fit (`LentExact`).  Splitting and merging
  change the relation at two or three places (`SplitChained`, `MergedChained`).  That free
  areas are never neighbours is what makes the one merging on either side enough.
- The walk of `wakeup_mpl` along the queue (`WakeupServes`): what holds after each of its
  steps is that the areas are sound with the blocks lent so far, that the tasks served are
  a part of the queue and have their blocks, and that what the others behind the walk wait
  for does not fit.  The last follows although the walk skips every size not below one that
  failed: a free area never becomes longer by taking from it (`GetShrinks`).
- `RingInv`, and `HoldsMessages` of every buffer: there is a sequence of messages and of
  offsets behind the head (`Carries`) such that at each offset lies the header of its
  message, never split, with its bytes behind it, wrapped around the end of the buffer at most
  once; each offset is the one before it and the room of its message (`Room`); and the last
  one is what is not free.  `RingAppends` and `RingTakes` are the two operations; `ContentsIs`
  is that what the ring is read as, message by message from the head, is that sequence, and
  so the abstract queue of `MessageFifo`.  Offsets count from the head, so that only `place`
  deals with the wrapping.
- `BuffersPass`: a task waits to receive only at an empty buffer without senders, and a task
  waits to send only a message that does not fit.  `AdmitServes` has the walk of `trcv_mbf`
  along the senders, that a sender skipped earlier does not fit later on either, and what
  the walk does to the contents (`followed`).
- A call on a pool may let a task wait at it and leaves all buffers as they are, and
  the other way round (`NobodyComes`): so each invariant is kept by the other's calls.

### Rendezvous

`RdvInv` has `IInv` and says by `wspec` who may wait where: `NobodyMissed` (a caller and an
acceptor at one port have no pattern in common), `RepliesFit` and `CallsFit` (buffers against
the limits of the port a call is at, also after it was forwarded), `KnownByOne` and
`KnownIsOld`.  The last two are the argument for `OneTaskReplies`: a number is known to one
acceptor at most, because a new number is greater than all numbers of that caller that anybody
still remembers, although the code never looks at what is remembered.

### Priority inheritance semaphores

A call makes a sequence of records of the kernel's fields; `becomes` makes the last one the
next state.  So most lemmas are about any such record `k`, and not about states.

- `Sound(k, X)`: ready queue and wait queues are consistent and the latter sorted, where
  the tasks in X, which are about to end, have left them.  A change of the priority of a waiting
  task leaves this true of each record in between, since the hook moves the task in its queue
  before it goes on (`ChangeMade`, `ChangesStay`).
- `Owned(k, P, X, D)`: the lists of semaphores and their owners agree, only tasks that are alive own,
  a semaphore that is waited for is owned, and each task waits for a semaphore behind all it
  has in the order.  The last part gives: the tasks from the owner of p on along the chain have
  p or a semaphore behind it (`Above`), so a task that begins to wait for p is not among them
  (`NotAbove`), and each change is of a task that was not visited before (`VisitsOneMore`).  So
  the changes are over after one for each task, which is the bound `MAX_CHAIN` (`ChangesExact`).
- `AllExact(k, X)`: each priority is the least of the task's own and those of the tasks
  that wait for its semaphores.  It is not true inside a call; there `Pending` says that it is true of
  all tasks but the one whose change is still to be made, with the priority that the
  change is to, and `PendingStays` that the hook leaves it true of the next task.  The code looks at
  the heads of the queues only, which is enough as these are sorted (`Inherited`), and not at
  all when the priority that went away was not the one inherited (`SemaphoreLost`, `OwnerFalls`).
- `PriAtRest`: a dormant task has its initial priority, which is exact when it is started,
  since tasks that have ended own nothing.
- The loops of `signal_all_prisem` and `wait_delete` are walks again: a property of records that
  each step keeps holds at the end (`Along`).

### Clock, services, stacks, timer queue

The parts of the run `kernel` do not share variables; `KernelProofs` has an invariant for each.

- `ClockInv`: the clock, the count of the hardware timer and the pending interrupt together
  account for the time gone by (`NoTickIsLost`), and in each state between the three reads of
  `vget_tim` the values read so far determine an answer that lies between the call and now
  (`ReadsSound`).
- The services: the count of a task and its stack of services change together.
- `StacksIInv`: each block belongs to one task that exists or to another object
  (`BlocksOwned`), control blocks are free or in use (`FreeTasks`), and the processor is on a
  stack that nobody else has been given (`RunsOnStack`).  The last is needed for `exd_tsk`, which
  gives back the stack it runs on.
- `TimerIInv`: the queue is in the order of times (`InTime`), and the event of a handler is in it
  exactly while the handler is defined (`Defined`).  With the first, the head is due before all
  others (`HeadInTime`), so the loop of the timer interrupt, which only looks at the head, serves
  what is due first and leaves nothing due behind; it holds although handlers register,
  redefine and cancel events, their own among them, between two rounds of the loop, since
  every registration is for a time to come (`FromNow`).  With the second, a handler that is
  defined anew from the free list is not in the queue yet, so `enqueue_tmeb` never puts an event in
  twice, and a cyclic event that comes up has a period greater than 0.

### The dispatcher on BSD

`BsdDispatcherProofs` proves an inductive invariant (`InductiveInvariant`) for any sets of tasks
and interrupts and any depth of nesting.  It follows the mask of the base flow: the handlers
on top of it form a stack of saved masks, the last of which is the mask that comes back when
all have returned.  It has to say that every saved mask but that one masks SIGUSR2 and some
interrupt (`HandlersMasked`), and for each place of the base flow what its mask is (`BaseMask`),
since it is the mask, and not the code, that keeps the dispatcher from starting twice.

### Drivers, files and log

The parts of the run `devices` do not share state either; `DeviceProofs` proves an invariant of
each, for any tasks, files and programs and any sizes.  Every system call inside a driver is a
step of its own, so the invariants have to say what holds between any two of them.

- The rings (`InputRight`, `OutputRight`): the contents lie between the two pointers and are
  numbered without gaps.  The code takes pointers modulo the size of the buffer; the proofs use
  `Slot` and `Between`, which subtract the size at most once, and two lemmas that relate them to
  the code's remainders (`ModularStep`, `PointersMove`).
- The semaphores (`PortCounts`): `Given(total, n, place, go, wait)` says that the units of a
  semaphore and the tasks that have taken one and not used it yet are together what the ring
  has, and that a task waits only if there is no unit.  A reader that was let through finds a
  character, whoever came in between.
- Sending on a hardware port (`SendingRight`): with something to send it is enabled, and when it is
  enabled the transmitter is busy or its interrupt pending.  `Port!ToldRight` is inductive with it,
  and `Unused`: nobody uses a port that was not initialised.  On the pseudo port (`NothingToDo`)
  nothing can be sent or read unless SIGIO is pending or its callback runs.
- Files: the semaphore of the queue has a unit or exactly one user (`SemHeld`), and a block is in
  the queue from when it is put in until its call has a result; a call whose callback came before it
  sleeps has a wake-up counted (`CallsRun`).  That one task wakes another does not depend on
  `CHK_SELF`, so `FilesGetResults` holds for both settings; a call that wakes itself does.  The
  index of the walk stays inside the queue although blocks are taken out under it (`FilesBounds`).
- Log: each message is placed or in the hands of its sender (`LogRuns`).  A sender that gave up and
  asks again whether it must write by itself needs one thing more: if the log task still
  counts as alive, its message has been taken after all.

### Hypotheses

Each excludes what section 6 lists as a finding, and nothing else; the runs have them too.

| Hypothesis | Of | Means |
|---|---|---|
| `taken_in_order` | the theorems of `PisSpec` | tasks take semaphores in one order, so that nobody waits in a circle; the runs have circles too, but for those of two findings |
| `HandlersObey` | `BsdDispatcherProofs` | the masks handlers pass to `chg_ims` leave some interrupt masked |
| `TimerTrusted` | `TimeIsReadSoundly` | no handler reads the time in the middle of the timer's, and its interrupt is not held off for as long as `PERIOD - GET_TOLERANCE`, from where the code cannot tell a new period from an old one |
| `LeavesEarly = {}` | `RightsAreThoseOfServices` | services leave as `svc_ientry` expects |
| `StacksTrusted` | `MemoryIsSound` | no guard pages, and no creation by a handler while the processor idles |

### Only model-checked

- Liveness under fairness: out of the proof system's reach.
- Circles of tasks that wait for each other's semaphores (the parts "deadlock" of `prisem`): the
  order that the proofs rest on does not exist there.

The library's induction theorems cannot be used, as they take an operator.  Where the proofs
need induction over the naturals they take the least counterexample instead (`MinOfNaturals`
in `QueueProofs`), which works for recursive functions.


## 6. Findings

Three have runs that TLC finds violated.  The others can be shown with the configurations
at hand by the change in the last column.

| Where | What the code does | Shown by |
|---|---|---|
| `rendezvous.c:487` | fwd_por leaves a linked time event and initialises it | run `fwd_por_timeout` |
| `task_manage.c:335` | ter_tsk in a circle puts a dormant task into a wait queue | run `prisem_terminate` |
| `bsd_nbio.c:127` | with CHK_SELF, which both configurations set, nb_read of a ready file sleeps on with its data | run `nb_read_ready` |
| `rendezvous.c:306` | a polling call that meets an acceptor waits with a time-out of 0 | INVARIANT `TmoutPositive` in `Rendezvous.cfg` |
| `prisem.c:378` | vdel_pis in a circle leaves a priority raised | `Parts = {"delete"}` in `PriSem.cfg`, `InheritsUnlessChanged` |
| `mailbox.c:358` | ref_mbx has its branches swapped | INVARIANT `RefMbxReturnsNext` in `Objects.cfg` |
| `timer.c:150` | a nested handler reads a time one period in the past | `NESTED = TRUE`, `Parts = {"clock"}` in `Kernel.cfg`, `ReadsTheTime` |
| `bsd/cpu_task.h:101` | creation does not notice that memory ran out | `USE_MPROTECT_STACK = TRUE`, `Block = {b1, b2}`, INVARIANT `CreatedWithStacks` in `Kernel.cfg` |
| `task_manage.c:410` | the processor idles on a stack that was given back | `IDLE_CREATES = TRUE` in `Kernel.cfg`, `MemorySound` |
| `bsd_serial.c:390` | serial_read returns without leaving the service | `LeavesEarly = {serial_read}`, INVARIANT `RightsOnlyInside` in `Kernel.cfg` |
| `serial.c:356` | a wait that fails lets the task read from an empty ring | `wait_fails(t)` as one more step of `TaskStep`, `Port!ReadsFromNonEmpty` |
| `serial.c:495` | IXANY drops every character also when nothing is stopped | `Both == {{"IXON", "IXANY"}}` in `MCDevices`, `Port!InputKept` |
| `bsd_serial.c:466` | a character overtakes those in the buffer | `Parts = {"bsd_serial"}`, INVARIANT `BsdOutputInOrder` in `Devices.cfg` |
| `bsd_serial.c:417` | STOP follows the START that should end it | `Bsd!OtherSideKnows` in the same way |
| `bsd_serial.c:549` | START is not seen behind a full buffer | `Bsd!RestartSeen` in the same way |
| `bsd_nbio.c:130` | SIGIO before the registration is missed | `Files!NoReadyFileWaitedFor` |
| `logtask.c:118` | a message is put out twice | `Log!PutOutOnce` |
| `isyslog.c:84` | the log task is taken for dead when the buffer was full once | `Log!AliveMeansRuns` |
| `bsd/cpu_calls.c:64` | a handler can unmask the dispatcher | `HANDLER_MASKS <- NoLevel` in `BsdDispatcher.cfg`, INVARIANT `HandlersUndispatched` |
| `m68k/m68k_insn.h:121` | the C version of chg_ipm shifts the level to the wrong bits | reading; the model has the assembly version |

The models do what the code does in all of these cases; where a finding would hide
everything behind it, the runs keep to the part without it (`Parts` of `PriSem.cfg`, the
constants of `Kernel.cfg`), and `Rendezvous` ends a behaviour at the point where the code
destroys its timer queue or fails an assertion (`intact`).

## 7. Not modelled

- Saving of registers, exception vectors, def_int, vset_reg and vget_reg: below the level at
  which the model has a task.
- Quasi-task portions on the m68k beyond `sysmode`, `USE_SUSPEND_SELF` and other options that
  are off by default; PRISEM_SPEC2; `svc_ientry` with code 0.
- Error codes, access checks (`CHECK_..ACV`), `exinf`, calls that only read and have no
  property.
- Shutting down the pseudo serial port (the hardware port is shut down only when no task uses
  it, as its users have to see to), settings for echo and newlines, formatting of messages.
- Wrapping of rendezvous numbers after 65536 rendezvous, and products of sizes that overflow
  INT: no bound that TLC reaches tells them from wider ones.
- The initial task and start-up beyond the state they leave; the tron port, the C library,
  board support, configuration generators and samples.
