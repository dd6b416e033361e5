--------------------------- MODULE DependenceProofs ---------------------------
(***************************************************************************)
(* Where a task depends on what certain other tasks do: 1 rendezvous ports *)
(* and 2 priority inheritance semaphores.  What their runs check holds for *)
(* every number of tasks, ports, patterns, rendezvous and semaphores.      *)
(*                                                                         *)
(* 1 The inductive invariant says who may wait where in terms of wspec     *)
(* alone (the wait queues agree with it by the invariant of task           *)
(* management), and keeps the numbers that acceptors know apart: a new     *)
(* number is greater than all that were given for its caller before,       *)
(* although the counter is never looked up in what acceptors know.         *)
(*                                                                         *)
(* 2 The inductive invariant adds to the properties the order in which     *)
(* tasks take semaphores: so nobody is found twice on the way from a task  *)
(* to the one it waits for, and the changes of priorities along this way   *)
(* come to an end after at most one for each task.                         *)
(***************************************************************************)
EXTENDS MCRendezvous, PriSem, TaskManagementProofs, FiniteSetTheorems

(***************************************************************************)
(* 1. RENDEZVOUS PORTS                                                     *)
(***************************************************************************)
(* Every variable of the ports has its type.                               *)
PortTypes ==
  /\ pors \in SUBSET Por
  /\ ptn \in [Task -> Patterns]
  /\ rdvno \in [Task -> RDVNO]
  /\ rmax \in [Task -> Nat]
  /\ room \in [Task -> Nat]
  /\ wrdvno \in [Task -> 0 .. MAXRDV]
  /\ known \in [Task -> SUBSET RDVNO]

(* A caller and an acceptor that could meet do not wait at one port.       *)
NobodyMissed ==
  \A p \in Por, c, a \in Task :
    wspec[c] = call_queue[p] /\ wspec[a] = accept_queue[p] => ptn[c] \cap ptn[a] = {}

(* The buffer of a caller is large enough for the reply it waits for, and  *)
(* for those of the port where it waits to be accepted.                    *)
RepliesFit == \A c \in Task : wspec[c] = "rdv" => rmax[c] <= room[c]

CallsFit == \A p \in Por, c \in Task : wspec[c] = call_queue[p] => maxrmsz[p] <= room[c]

(* A number is known by one task at most, and was counted already.         *)
KnownByOne == \A a, b \in Task : known[a] \cap known[b] # {} => a = b

KnownIsOld == \A a \in Task : \A no \in known[a] : no[2] < wrdvno[no[1]]

PortInv   == NobodyMissed /\ RepliesFit /\ CallsFit
NumberInv == KnownByOne /\ KnownIsOld

RdvInv == IInv /\ PortTypes /\ PortInv /\ NumberInv

-----------------------------------------------------------------------------
(***************************************************************************)
(* What the calls do to the tasks.                                         *)
(***************************************************************************)
(* What the constants are.                                                 *)
LEMMA Ports ==
  /\ \A p \in Por : /\ call_queue[p] \in Gcb /\ call_queue[p] \notin TaTpri
                    /\ accept_queue[p] \in Gcb /\ accept_queue[p] \notin TaTpri
                    /\ maxrmsz[p] \in Nat
  /\ \A p, q \in Por : /\ call_queue[p] # accept_queue[q]
                       /\ call_queue[p] = call_queue[q] => p = q
                       /\ accept_queue[p] = accept_queue[q] => p = q
  /\ {"none", "slp", "dly", "tmb", "rdv"} \cap Gcb = {}
<1>1. \A p, q \in Por : /\ call_queue[p] = call_queue[q] => p = q
                        /\ accept_queue[p] = accept_queue[q] => p = q
  BY RendezvousAssumption DEF IsInjective
<1> QED BY <1>1, RendezvousAssumption, TaskCoreAssumption

(* first finds a task that waits in the queue and matches, if there is one.*)
LEMMA FirstMatching ==
  ASSUME IInv, NEW g \in Gcb, NEW pattern
  PROVE  /\ matching(g, pattern) = {} =>
              \A t \in Task : wspec[t] = g => ptn[t] \cap pattern = {}
         /\ matching(g, pattern) # {} =>
              LET t == first(g, matching(g, pattern)) IN
              t \in Task /\ wspec[t] = g /\ waiting(t)
<1> DEFINE q  == wait_queue[g]
           at == matching(g, pattern)
<1>1. /\ q \in Queue(Task) /\ \A t \in Task : t \in ToSet(q) <=> wspec[t] = g
      /\ \A t \in Task : waiting(t) <=> wspec[t] # "none"
      /\ g # "none"
  BY InWaitQueue, TaskCoreAssumption DEF IInv, WaitInv
<1>2. /\ Len(q) \in Nat /\ DOMAIN q = 1 .. Len(q) /\ \A j \in 1 .. Len(q) : q[j] \in Task
      /\ ToSet(q) = {q[j] : j \in 1 .. Len(q)}
  BY <1>1, QueueEntries
<1>3. at = {j \in 1 .. Len(q) : ptn[q[j]] \cap pattern # {}}
  BY <1>2 DEF matching
<1> HIDE DEF q, at
<1>4. ASSUME at = {}, NEW t \in Task, wspec[t] = g PROVE ptn[t] \cap pattern = {}
  <2>1. PICK j \in 1 .. Len(q) : q[j] = t
    BY <1>1, <1>2, <1>4
  <2> QED BY <1>3, <1>4, <2>1
<1>5. ASSUME at # {}
      PROVE  q[Min(at)] \in Task /\ wspec[q[Min(at)]] = g /\ waiting(q[Min(at)])
  <2>1. at \in SUBSET Nat
    BY <1>3
  <2>2. Min(at) \in at
    BY <1>5, <2>1, MinOfNaturals
  <2>3. Min(at) \in 1 .. Len(q)
    BY <1>3, <2>2
  <2>4. q[Min(at)] \in Task /\ q[Min(at)] \in ToSet(q)
    BY <1>2, <2>3
  <2> QED BY <1>1, <2>4
<1> QED BY <1>4, <1>5 DEF q, at, first

(* A waiting task waits for something else from now on, and is not made    *)
(* ready.                                                                  *)
LEMMA WaitGoesOn ==
  ASSUME IInv, NEW c \in Task, waiting(c), NEW w \in Gcb \cup {"rdv"},
         wspec' = [wspec EXCEPT ![c] = w], WaitQueues', timer_queue' \subseteq timer_queue,
         UNCHANGED <<state, schedvars, countvars, privars, cpuvars>>
  PROVE  IInv'
<1>i. /\ TypeOK /\ SchedInv /\ WaitInv /\ CountInv /\ RunInv
      /\ w \in Gcb \cup {"none", "slp", "dly", "tmb", "rdv"} /\ w # "none" /\ w # "slp"
  BY TaskCoreAssumption DEF IInv
<1>u. UNCHANGED <<state, ready_queue, schedtsk, wupcnt, suscnt, priority, ipriority,
                  ctxtsk, dispatch_disabled, ipm, in_indp>>
  BY DEF schedvars, countvars, privars, cpuvars
<1>1. TypeOK'
  <2>1. wspec' \in [Task -> Gcb \cup {"none", "slp", "dly", "tmb", "rdv"}]
    BY <1>i DEF TypeOK
  <2>2. wait_queue' \in [Gcb -> Seq(Task)]
    BY DEF WaitQueues
  <2>3. timer_queue' \in SUBSET Task
    BY <1>i DEF TypeOK
  <2> QED BY <1>i, <1>u, <2>1, <2>2, <2>3 DEF TypeOK
<1>2. SchedInv'
  BY <1>i, SchedUnchanged DEF privars
<1>3. WaitInv'
  <2>1. /\ \A t \in Task : waiting(t) <=> wspec[t] # "none"
        /\ \A t \in timer_queue : waiting(t)
    BY <1>i DEF WaitInv, TimeoutOnlyWhileWaiting
  <2>2. \A t \in Task : waiting(t)' <=> wspec'[t] # "none"
    <3>1. wspec \in [Task -> Gcb \cup {"none", "slp", "dly", "tmb", "rdv"}]
      BY <1>i DEF TypeOK
    <3> QED BY <1>i, <1>u, <2>1, <3>1 DEF waiting
  <2>3. TimeoutOnlyWhileWaiting'
    BY <1>u, <2>1 DEF TimeoutOnlyWhileWaiting, waiting
  <2> QED BY <2>2, <2>3 DEF WaitInv
<1>4. CountInv'
  <2>1. \A t \in Task : wspec'[t] = "slp" => wspec[t] = "slp"
    BY <1>i DEF TypeOK
  <2> QED BY <1>i, <1>u, <2>1
          DEF CountInv, SuspendCount, StartsFresh, NoLostWakeup, task_alive, waiting
<1>5. RunInv'
  BY <1>i, <1>u DEF RunInv, RunningTaskAlive, NoWaitWithoutDispatch, task_alive, dispatch_enabled
<1> QED BY <1>1, <1>2, <1>3, <1>4, <1>5 DEF IInv

(* A caller that is accepted leaves the queue of callers.                  *)
LEMMA Accepted ==
  ASSUME IInv, NEW c \in Task, waiting(c), wspec[c] \in Gcb, accepted(c), UNCHANGED <<countvars, privars, cpuvars>>
  PROVE  IInv' /\ wspec' = [wspec EXCEPT ![c] = "rdv"]
<1> DEFINE g == wspec[c]
           q == wait_queue[g]
           d == queue_delete(q, c)
<1>1. /\ WaitQueues /\ wait_queue \in [Gcb -> Seq(Task)]
      /\ wspec \in [Task -> Gcb \cup {"none", "slp", "dly", "tmb", "rdv"}]
      /\ "rdv" \notin Gcb
  BY TaskCoreAssumption DEF IInv, TypeOK, WaitInv
<1>2. /\ wspec' = [wspec EXCEPT ![c] = "rdv"]
      /\ wait_queue' = [wait_queue EXCEPT ![g] = d]
      /\ timer_queue' \subseteq timer_queue /\ UNCHANGED <<state, schedvars>>
  BY DEF accepted
<1>3. q \in Queue(Task) /\ c \in ToSet(q)
  BY <1>1, InWaitQueue
<1>4. d \in Queue(Task) /\ ToSet(d) = ToSet(q) \ {c}
  BY <1>3, QueueDelete
<1> HIDE DEF d
<1>5. WaitQueues'
  <2>1. ASSUME NEW h \in Gcb
        PROVE  /\ IsInjective(wait_queue'[h])
               /\ ToSet(wait_queue'[h]) = {t \in Task : wspec'[t] = h}
    <3>0. {t \in Task : wspec'[t] = h} = {t \in Task : wspec[t] = h} \ {c}
      BY <1>1, <1>2
    <3>1. CASE h = g
      BY <1>1, <1>2, <1>4, <3>0, <3>1 DEF Queue, WaitQueues
    <3>2. CASE h # g
      BY <1>1, <1>2, <3>0, <3>2 DEF WaitQueues
    <3> QED BY <3>1, <3>2
  <2>2. wait_queue' \in [Gcb -> Seq(Task)]
    BY <1>1, <1>2, <1>4 DEF Queue
  <2> QED BY <2>1, <2>2 DEF WaitQueues
<1> QED BY <1>2, <1>5, WaitGoesOn

(* A caller that is forwarded enters a queue of callers again.             *)
LEMMA Forwarded ==
  ASSUME IInv, NEW c \in Task, wspec[c] = "rdv", NEW g \in Gcb,
         wspec' = [wspec EXCEPT ![c] = g], wait_queue' = [wait_queue EXCEPT ![g] = Append(@, c)],
         UNCHANGED <<state, schedvars, timer_queue, countvars, privars, cpuvars>>
  PROVE  IInv'
<1> DEFINE q == wait_queue[g]
           d == Append(q, c)
<1>1. /\ WaitQueues /\ wait_queue \in [Gcb -> Seq(Task)]
      /\ wspec \in [Task -> Gcb \cup {"none", "slp", "dly", "tmb", "rdv"}]
      /\ "rdv" \notin Gcb /\ waiting(c)
  BY TaskCoreAssumption DEF IInv, TypeOK, WaitInv
<1>3. q \in Queue(Task) /\ c \in Task \ ToSet(q)
  BY <1>1, InWaitQueue
<1>4. d \in Queue(Task) /\ ToSet(d) = ToSet(q) \cup {c}
  BY <1>3, QueueAppend
<1>2. wait_queue' = [wait_queue EXCEPT ![g] = d]
  OBVIOUS
<1> HIDE DEF d
<1>5. WaitQueues'
  <2>1. ASSUME NEW h \in Gcb
        PROVE  /\ IsInjective(wait_queue'[h])
               /\ ToSet(wait_queue'[h]) = {t \in Task : wspec'[t] = h}
    <3>1. CASE h = g
      <4>1. {t \in Task : wspec'[t] = h} = {t \in Task : wspec[t] = h} \cup {c}
        BY <1>1, <3>1
      <4> QED BY <1>1, <1>2, <1>4, <3>1, <4>1 DEF Queue, WaitQueues
    <3>2. CASE h # g
      <4>1. {t \in Task : wspec'[t] = h} = {t \in Task : wspec[t] = h}
        BY <1>1, <3>2
      <4> QED BY <1>1, <1>2, <3>2, <4>1 DEF WaitQueues
    <3> QED BY <3>1, <3>2
  <2>2. wait_queue' \in [Gcb -> Seq(Task)]
    BY <1>1, <1>2, <1>4 DEF Queue
  <2> QED BY <2>1, <2>2 DEF WaitQueues
<1> QED BY <1>1, <1>5, WaitGoesOn

(* The running task meets an acceptor that waits: both change their state  *)
(* in one call.                                                            *)
LEMMA Exchange ==
  ASSUME IInv, in_task, ~in_ddsp, NEW a \in Task, waiting(a), wspec[a] \in Gcb, NEW timed,
         exchange(a, timed), UNCHANGED <<countvars, privars, cpuvars>>
  PROVE  /\ IInv'
         /\ ctxtsk \in Task /\ ctxtsk # a /\ wspec[ctxtsk] = "none"
         /\ wspec' = [wspec EXCEPT ![a] = "none", ![ctxtsk] = "rdv"]
<1>i. /\ TypeOK /\ StateType /\ SchedInv /\ WaitInv /\ WaitQueues /\ CountInv /\ RunInv
      /\ schedtsk \in Task \cup {NoTask}
  BY DEF IInv, TypeOK, StateType, WaitInv
<1>c. ctxtsk \in Task /\ state[ctxtsk] = "READY" /\ dispatch_enabled
  BY CallerTask DEF in_ddsp, in_loc, dispatch_enabled, in_task, IInv, TypeOK
<1>d. ctxtsk # a /\ wspec[ctxtsk] = "none"
  BY <1>i, <1>c DEF waiting, TS_WAIT, WaitInv
<1>t. /\ state \in [Task -> TSTAT] /\ timer_queue \in SUBSET Task
      /\ wspec \in [Task -> Gcb \cup {"none", "slp", "dly", "tmb", "rdv"}]
      /\ "none" \notin Gcb /\ "rdv" \notin Gcb
      /\ priority \in PriorityMap /\ state[a] \in {"WAIT", "WAITSUS"}
  BY <1>i, TaskCoreAssumption DEF TypeOK, PriorityMap, waiting, TS_WAIT
<1>u. UNCHANGED <<wupcnt, suscnt, priority, ipriority, ctxtsk, dispatch_disabled, ipm, in_indp>>
  BY DEF countvars, privars, cpuvars
<1> DEFINE start == [sched |-> [rq |-> ready_queue, top |-> schedtsk], queues |-> wait_queue]
           walk  == wait_ended(start, a)
           woken == walk.sched
           S     == ReadyTasks \cup {t \in {a} : state[t] = "WAIT"}
<1>1. /\ state' = [t \in Task |-> IF t = ctxtsk THEN "WAIT"
                                  ELSE IF t = a THEN (IF state[a] = "WAIT" THEN "READY" ELSE "SUSPEND")
                                  ELSE state[t]]
      /\ ready_queue' = ready_queue_delete(woken.rq, ctxtsk, priority[ctxtsk])
      /\ schedtsk' = IF woken.top = ctxtsk THEN ready_queue_top(ready_queue') ELSE woken.top
      /\ wspec' = [wspec EXCEPT ![a] = "none", ![ctxtsk] = "rdv"]
      /\ wait_queue' = walk.queues
      /\ timer_queue' \subseteq (timer_queue \ {a}) \cup {ctxtsk}
  <2>1. state' = [state EXCEPT ![a] = IF @ = "WAIT" THEN "READY" ELSE "SUSPEND",
                               ![ctxtsk] = IF @ = "READY" THEN "WAIT" ELSE "WAITSUS"]
    BY DEF exchange
  <2>2. state' = [t \in Task |-> IF t = ctxtsk THEN "WAIT"
                                  ELSE IF t = a THEN (IF state[a] = "WAIT" THEN "READY" ELSE "SUSPEND")
                                  ELSE state[t]]
    BY <1>c, <1>d, <1>t, <2>1
  <2>3. walk.queues = [wait_queue EXCEPT ![wspec[a]] = queue_delete(@, a)]
    BY DEF wait_ended
  <2>4. woken = IF state[a] = "WAIT"
                THEN made_ready([rq |-> ready_queue, top |-> schedtsk], a)
                ELSE [rq |-> ready_queue, top |-> schedtsk]
    BY DEF wait_ended
  <2> DEFINE both == IF state[a] = "WAIT"
                     THEN made_ready([rq |-> ready_queue, top |-> schedtsk], a)
                     ELSE [rq |-> ready_queue, top |-> schedtsk]
  <2>5. /\ ready_queue' = IF state[ctxtsk] = "READY"
                          THEN ready_queue_delete(both.rq, ctxtsk, priority[ctxtsk])
                          ELSE both.rq
        /\ schedtsk' = IF both.top = ctxtsk THEN ready_queue_top(ready_queue') ELSE both.top
        /\ wspec' = [wspec EXCEPT ![a] = "none", ![ctxtsk] = "rdv"]
        /\ wait_queue' = [wait_queue EXCEPT ![wspec[a]] = queue_delete(@, a)]
        /\ timer_queue' = (timer_queue \ {a}) \cup IF timed THEN {ctxtsk} ELSE {}
    BY Zenon DEF exchange
  <2>6. both = woken
    BY <2>4
  <2> HIDE DEF both, walk
  <2>7. /\ ready_queue' = ready_queue_delete(woken.rq, ctxtsk, priority[ctxtsk])
        /\ schedtsk' = IF woken.top = ctxtsk THEN ready_queue_top(ready_queue') ELSE woken.top
    BY <1>c, <2>5, <2>6
  <2> QED BY <2>2, <2>3, <2>5, <2>7
<1>2. ReleasedSoFar(walk, {a})
  <2>1. ReadyTasks \cup {t \in {} : state[t] = "WAIT"} = ReadyTasks
    OBVIOUS
  <2>2. Consistent(ready_queue, ReadyTasks \cup {t \in {} : state[t] = "WAIT"}, priority)
    BY <1>i, <2>1 DEF SchedInv
  <2>3. \A g \in Gcb : wait_queue[g] \in Queue(Task)
    BY <1>i, InWaitQueue
  <2>4. ReleasedSoFar(start, {})
    BY <1>i, <2>2, <2>3 DEF ReleasedSoFar, SchedInv, SchedtskIsTop, WaitQueues
  <2> HIDE DEF start
  <2>5. ReleasedSoFar(wait_ended(start, a), {} \cup {a})
    BY <1>i, <2>4, ReleaseOne
  <2> QED BY <2>5
<1> HIDE DEF walk
<1>3. Consistent(woken.rq, S, priority) /\ woken.top = ready_queue_top(woken.rq)
  BY <1>2 DEF ReleasedSoFar
<1>4. S \in SUBSET Task /\ ctxtsk \in S
  BY <1>c DEF ReadyTasks
<1>5. ReadyTasks' = S \ {ctxtsk}
  BY <1>1, <1>c, <1>d, <1>t DEF ReadyTasks
<1> HIDE DEF S, woken
<1>6. /\ Consistent(ready_queue', S \ {ctxtsk}, priority)
      /\ ctxtsk # ready_queue_top(woken.rq) => ready_queue_top(ready_queue') = ready_queue_top(woken.rq)
  BY <1>1, <1>3, <1>4, <1>t, ReadyQueueDelete
<1>7. StateType'
  BY <1>i, <1>t, <1>1, <1>u DEF StateType, TSTAT
<1>8. SchedInv' /\ ready_queue' \in RDYQUE /\ schedtsk' \in Task \cup {NoTask}
  <2>1. SchedInv'
    BY <1>1, <1>3, <1>5, <1>6, <1>u DEF SchedInv, SchedtskIsTop
  <2> QED BY <1>7, <2>1, SchedtskReadyNext
<1>9. WaitQueues'
  <2>1. wait_queue' \in [Gcb -> Seq(Task)]
    BY <1>1, <1>2 DEF ReleasedSoFar
  <2>2. ASSUME NEW g \in Gcb
        PROVE  /\ IsInjective(wait_queue'[g])
               /\ ToSet(wait_queue'[g]) = {t \in Task : wspec'[t] = g}
    <3>1. {t \in Task : wspec'[t] = g} = {t \in Task : wspec[t] = g} \ {a}
      BY <1>1, <1>c, <1>d, <1>t
    <3>2. /\ wait_queue'[g] \in Queue(Task)
          /\ ToSet(wait_queue'[g]) = ToSet(wait_queue[g]) \ {a}
      BY <1>1, <1>2, Zenon DEF ReleasedSoFar
    <3> QED BY <1>i, <3>1, <3>2 DEF WaitQueues, Queue
  <2> QED BY <2>1, <2>2 DEF WaitQueues
<1>10. WaitInv'
  <2>1. /\ \A t \in Task : waiting(t) <=> wspec[t] # "none"
        /\ \A t \in timer_queue : waiting(t)
    BY <1>i DEF WaitInv, TimeoutOnlyWhileWaiting
  <2>2. \A t \in Task : waiting(t)' <=> wspec'[t] # "none"
    BY <1>c, <1>d, <1>t, <1>1, <2>1 DEF waiting, TS_WAIT
  <2>3. TimeoutOnlyWhileWaiting'
    BY <1>c, <1>d, <1>t, <1>1, <2>1 DEF TimeoutOnlyWhileWaiting, waiting, TS_WAIT
  <2> QED BY <1>9, <2>2, <2>3 DEF WaitInv
<1>11. CountInv'
  <2>1. /\ \A t \in Task : task_alive(t) => (suscnt[t] > 0 <=> state[t] \in TS_SUSPEND)
        /\ \A t \in Task : state[t] = "DORMANT" => wupcnt[t] = 0 /\ suscnt[t] = 0
        /\ \A t \in Task : waiting(t) /\ wspec[t] = "slp" => wupcnt[t] = 0
    BY <1>i DEF CountInv, SuspendCount, StartsFresh, NoLostWakeup
  <2> QED BY <1>c, <1>d, <1>t, <1>1, <1>u, <2>1
          DEF CountInv, SuspendCount, StartsFresh, NoLostWakeup, task_alive, waiting, TS_WAIT, TS_SUSPEND
<1>12. RunInv'
  <2>1. dispatch_enabled' /\ state'[ctxtsk] = "WAIT"
    BY <1>c, <1>t, <1>1, <1>u DEF dispatch_enabled
  <2> QED BY <1>u, <2>1 DEF RunInv, RunningTaskAlive, NoWaitWithoutDispatch, task_alive, TS_WAIT
<1>13. TypeOK'
  <2>1. /\ wspec' \in [Task -> Gcb \cup {"none", "slp", "dly", "tmb", "rdv"}]
        /\ timer_queue' \in SUBSET Task /\ wait_queue' \in [Gcb -> Seq(Task)]
    BY <1>c, <1>t, <1>1, <1>9 DEF WaitQueues
  <2> QED BY <1>i, <1>7, <1>8, <1>u, <2>1 DEF TypeOK, StateType
<1> QED BY <1>1, <1>c, <1>d, <1>8, <1>10, <1>11, <1>12, <1>13 DEF IInv

-----------------------------------------------------------------------------
(***************************************************************************)
(* What the calls do to who waits where.                                   *)
(***************************************************************************)
(* Nobody begins to wait for an object or for the end of a rendezvous.     *)
Quiet == \A t \in Task : wspec'[t] \in Gcb \cup {"rdv"} => wspec[t] = wspec'[t]

(* So it is in the steps of task management,                               *)
LEMMA NextQuiet ==
  ASSUME IInv, [Next]_vars
  PROVE  IInv' /\ Quiet
<1>1. IInv'
  BY StepInv
<1>2. ASSUME NEW t \in Task, wspec'[t] \in Gcb PROVE wspec[t] = wspec'[t]
  <2> DEFINE g == wspec'[t]
  <2>1. t \in ToSet(wait_queue'[g])
    BY <1>1, <1>2 DEF IInv, WaitInv, WaitQueues
  <2>2. ToSet(wait_queue'[g]) \subseteq ToSet(wait_queue[g])
    BY <1>2, NextThins
  <2>3. ToSet(wait_queue[g]) = {u \in Task : wspec[u] = g}
    BY <1>2 DEF IInv, WaitInv, WaitQueues
  <2> QED BY <2>1, <2>2, <2>3
<1>3. ASSUME NEW t \in Task, wspec'[t] = "rdv" PROVE wspec[t] = wspec'[t]
  BY <1>3, NextStateSteps DEF StateSteps
<1> QED BY <1>1, <1>2, <1>3 DEF Quiet

(* in the end of the wait of one task,                                     *)
LEMMA ReleaseQuiet ==
  ASSUME IInv, caller, NEW t \in Task, waiting(t), wait_release(t),
         UNCHANGED <<countvars, privars, cpuvars>>
  PROVE  IInv' /\ wspec' = [wspec EXCEPT ![t] = "none"]
<1>1. rel_wai(t)
  BY DEF rel_wai
<1>2. Next
  BY <1>1 DEF Next, TaskCall
<1>3. IInv'
  BY <1>2, StepInv
<1> QED BY <1>3 DEF wait_release, wait_cancel

(* and at the deletion of a port.                                          *)
LEMMA DeleteQuiet ==
  ASSUME IInv, NEW p \in Por,
         wait_release_all(wait_queue[call_queue[p]] \o wait_queue[accept_queue[p]]),
         UNCHANGED <<countvars, privars, cpuvars>>
  PROVE  IInv' /\ Quiet
<1> DEFINE q == wait_queue[call_queue[p]]
           r == wait_queue[accept_queue[p]]
           W == ToSet(q) \cup ToSet(r)
           both == q \o r
<1>1. call_queue[p] \in Gcb /\ accept_queue[p] \in Gcb /\ call_queue[p] # accept_queue[p]
  BY Ports
<1>2. /\ q \in Queue(Task) /\ \A t \in Task : t \in ToSet(q) <=> wspec[t] = call_queue[p]
      /\ r \in Queue(Task) /\ \A t \in Task : t \in ToSet(r) <=> wspec[t] = accept_queue[p]
  BY <1>1, InWaitQueue DEF IInv, WaitInv
<1>3. ToSet(q) \subseteq Task /\ ToSet(r) \subseteq Task
  BY <1>2, QueueEntries
<1>4. ToSet(q) \cap ToSet(r) = {}
  BY <1>1, <1>2, <1>3
<1>5. \A t \in W : waiting(t) /\ wspec[t] \in Gcb
  BY <1>1, <1>2, <1>3, TaskCoreAssumption DEF IInv, WaitInv
<1>6. wait_release_those(both, ToSet(both))
  BY DEF wait_release_all
<1> HIDE DEF q, r
<1>7. both \in Queue(Task) /\ ToSet(both) = W
  BY <1>2, <1>4, QueueConcat
<1>8. wspec' = [t \in Task |-> IF t \in W THEN "none" ELSE wspec[t]]
  BY <1>6, <1>7 DEF wait_release_those
<1> HIDE DEF both, W
<1>9. wait_release_those(both, W)
  BY <1>6, <1>7
<1>10. IInv'
  BY <1>5, <1>7, <1>9, WaitReleaseThose
<1> QED BY <1>8, <1>10, Ports DEF Quiet

(* Then those who wait still have what they need.                          *)
LEMMA QuietPorts ==
  ASSUME PortInv, Quiet, UNCHANGED <<ptn, rmax, room>>
  PROVE  PortInv'
<1>1. NobodyMissed'
  BY Ports DEF PortInv, NobodyMissed, Quiet
<1>2. RepliesFit'
  BY DEF PortInv, RepliesFit, Quiet
<1>3. CallsFit'
  BY Ports DEF PortInv, CallsFit, Quiet
<1> QED BY <1>1, <1>2, <1>3 DEF PortInv

(* What is known of the ports and of the tasks before a call.              *)
LEMMA PortFacts ==
  ASSUME IInv, PortTypes, PortInv
  PROVE  /\ wspec \in [Task -> Gcb \cup {"none", "slp", "dly", "tmb", "rdv"}]
         /\ ptn \in [Task -> Patterns] /\ rmax \in [Task -> Nat] /\ room \in [Task -> Nat]
         /\ \A q \in Por, x, y \in Task :
              wspec[x] = call_queue[q] /\ wspec[y] = accept_queue[q] => ptn[x] \cap ptn[y] = {}
         /\ \A x \in Task : wspec[x] = "rdv" => rmax[x] <= room[x]
         /\ \A q \in Por, x \in Task : wspec[x] = call_queue[q] => maxrmsz[q] <= room[x]
  BY DEF IInv, TypeOK, PortTypes, PortInv, NobodyMissed, RepliesFit, CallsFit

(* A task begins to wait for an acceptor that does not wait yet.           *)
LEMMA CallerComes ==
  ASSUME IInv, PortTypes, PortInv, NEW c \in Task, NEW p \in Por, NEW pattern \in Patterns,
         \A t \in Task : wspec[t] = accept_queue[p] => ptn[t] \cap pattern = {},
         wspec' = [wspec EXCEPT ![c] = call_queue[p]], ptn' = [ptn EXCEPT ![c] = pattern],
         UNCHANGED rmax, \A t \in Task \ {c} : room'[t] = room[t], maxrmsz[p] <= room'[c]
  PROVE  PortInv'
<1>1. /\ \A t \in Task : wspec'[t] = IF t = c THEN call_queue[p] ELSE wspec[t]
      /\ \A t \in Task : ptn'[t] = IF t = c THEN pattern ELSE ptn[t]
  BY PortFacts
<1>2. NobodyMissed'
  <2> SUFFICES ASSUME NEW q \in Por, NEW x \in Task, NEW y \in Task,
                      wspec'[x] = call_queue[q], wspec'[y] = accept_queue[q]
               PROVE  ptn'[x] \cap ptn'[y] = {}
    BY DEF NobodyMissed
  <2>1. y # c /\ wspec[y] = accept_queue[q]
    BY <1>1, Ports
  <2>2. CASE x = c
    <3>1. q = p
      BY <1>1, <2>2, Ports
    <3> QED BY <1>1, <2>1, <2>2, <3>1
  <2>3. CASE x # c
    BY <1>1, <2>1, <2>3, PortFacts
  <2> QED BY <2>2, <2>3
<1>3. RepliesFit'
  BY <1>1, PortFacts, Ports DEF RepliesFit
<1>4. CallsFit'
  <2> SUFFICES ASSUME NEW q \in Por, NEW x \in Task, wspec'[x] = call_queue[q]
               PROVE  maxrmsz[q] <= room'[x]
    BY DEF CallsFit
  <2>1. CASE x = c
    <3>1. q = p
      BY <1>1, <2>1, Ports
    <3> QED BY <2>1, <3>1
  <2>2. CASE x # c
    BY <1>1, <2>2, PortFacts
  <2> QED BY <2>1, <2>2
<1> QED BY <1>2, <1>3, <1>4 DEF PortInv

(* A task begins to wait for a caller that does not wait yet.              *)
LEMMA AcceptorComes ==
  ASSUME IInv, PortTypes, PortInv, NEW a \in Task, NEW p \in Por, NEW pattern \in Patterns,
         \A t \in Task : wspec[t] = call_queue[p] => ptn[t] \cap pattern = {},
         wspec' = [wspec EXCEPT ![a] = accept_queue[p]], ptn' = [ptn EXCEPT ![a] = pattern],
         UNCHANGED <<rmax, room>>
  PROVE  PortInv'
<1>1. /\ \A t \in Task : wspec'[t] = IF t = a THEN accept_queue[p] ELSE wspec[t]
      /\ \A t \in Task : ptn'[t] = IF t = a THEN pattern ELSE ptn[t]
  BY PortFacts
<1>2. NobodyMissed'
  <2> SUFFICES ASSUME NEW q \in Por, NEW x \in Task, NEW y \in Task,
                      wspec'[x] = call_queue[q], wspec'[y] = accept_queue[q]
               PROVE  ptn'[x] \cap ptn'[y] = {}
    BY DEF NobodyMissed
  <2>1. x # a /\ wspec[x] = call_queue[q]
    BY <1>1, Ports
  <2>2. CASE y = a
    <3>1. q = p
      BY <1>1, <2>2, Ports
    <3> QED BY <1>1, <2>1, <2>2, <3>1
  <2>3. CASE y # a
    BY <1>1, <2>1, <2>3, PortFacts
  <2> QED BY <2>2, <2>3
<1>3. RepliesFit'
  BY <1>1, PortFacts, Ports DEF RepliesFit
<1>4. CallsFit'
  BY <1>1, PortFacts, Ports DEF CallsFit
<1> QED BY <1>2, <1>3, <1>4 DEF PortInv

(* A rendezvous begins, or goes on with another acceptor: the reply that   *)
(* the caller waits for fits its buffer.                                   *)
LEMMA RendezvousBegins ==
  ASSUME IInv, PortTypes, PortInv, NEW c \in Task, NEW size \in Nat,
         \A t \in Task \ {c} : wspec'[t] \in Gcb \cup {"rdv"} => wspec[t] = wspec'[t],
         wspec'[c] = "rdv", UNCHANGED ptn, rmax' = [rmax EXCEPT ![c] = size],
         \A t \in Task \ {c} : room'[t] = room[t], size <= room'[c]
  PROVE  PortInv'
<1>1. \A t \in Task \ {c} : rmax'[t] = rmax[t]
  BY PortFacts
<1>2. rmax'[c] = size
  BY PortFacts
<1>3. NobodyMissed'
  <2> SUFFICES ASSUME NEW q \in Por, NEW x \in Task, NEW y \in Task,
                      wspec'[x] = call_queue[q], wspec'[y] = accept_queue[q]
               PROVE  ptn'[x] \cap ptn'[y] = {}
    BY DEF NobodyMissed
  <2>1. x # c /\ y # c
    BY Ports
  <2> QED BY <2>1, PortFacts, Ports
<1>4. RepliesFit'
  BY <1>1, <1>2, PortFacts DEF RepliesFit
<1>5. CallsFit'
  <2> SUFFICES ASSUME NEW q \in Por, NEW x \in Task, wspec'[x] = call_queue[q]
               PROVE  maxrmsz[q] <= room'[x]
    BY DEF CallsFit
  <2>1. x # c
    BY Ports
  <2> QED BY <2>1, PortFacts, Ports
<1> QED BY <1>3, <1>4, <1>5 DEF PortInv

-----------------------------------------------------------------------------
(***************************************************************************)
(* The numbers of the rendezvous.                                          *)
(***************************************************************************)
(* Nobody learns a number.                                                 *)
LEMMA NothingLearnt ==
  ASSUME NumberInv, UNCHANGED wrdvno, \A a \in Task : known'[a] \subseteq known[a]
  PROVE  NumberInv'
<1>1. \A a, b \in Task : known'[a] \cap known'[b] # {} => known[a] \cap known[b] # {}
  OBVIOUS
<1> QED BY <1>1 DEF NumberInv, KnownByOne, KnownIsOld

(* A task learns the next number of a caller, which nobody knows.          *)
LEMMA NumberGiven ==
  ASSUME PortTypes, NumberInv, NEW a \in Task, NEW c \in Task, gen_rdvno(c),
         known' = [known EXCEPT ![a] = @ \cup {new_rdvno(c)}]
  PROVE  /\ NumberInv'
         /\ new_rdvno(c) \in RDVNO
         /\ wrdvno' \in [Task -> 0 .. MAXRDV]
         /\ known' \in [Task -> SUBSET RDVNO]
<1> DEFINE new == new_rdvno(c)
<1>1. /\ wrdvno \in [Task -> 0 .. MAXRDV] /\ known \in [Task -> SUBSET RDVNO]
      /\ wrdvno[c] < MAXRDV /\ wrdvno' = [wrdvno EXCEPT ![c] = @ + 1] /\ MAXRDV \in Nat
  BY RendezvousAssumption DEF PortTypes, gen_rdvno
<1>2. new \in RDVNO /\ new[1] = c /\ new[2] = wrdvno[c]
  BY <1>1 DEF new_rdvno, RDVNO
<1>3. wrdvno' \in [Task -> 0 .. MAXRDV]
  BY <1>1
<1>4. \A t \in Task : wrdvno[t] <= wrdvno'[t] /\ wrdvno[t] \in Nat /\ wrdvno'[t] \in Nat
  BY <1>1
<1>5. wrdvno'[c] = wrdvno[c] + 1
  BY <1>1
<1>6. \A b \in Task : new \notin known[b]
  <2> SUFFICES ASSUME NEW b \in Task, new \in known[b] PROVE FALSE
    OBVIOUS
  <2>1. new[2] < wrdvno[new[1]]
    BY DEF NumberInv, KnownIsOld
  <2> QED BY <1>2, <1>4, <2>1
<1> HIDE DEF new
<1>7. known' = [known EXCEPT ![a] = known[a] \cup {new}]
  BY DEF new
<1>8. known' \in [Task -> SUBSET RDVNO]
  BY <1>1, <1>2, <1>7
<1>9. ASSUME NEW b \in Task, NEW no \in known'[b]
      PROVE  (no # new => no \in known[b]) /\ (no = new => b = a)
  <2>1. CASE b = a
    BY <1>1, <1>7, <1>9, <2>1
  <2>2. CASE b # a
    BY <1>1, <1>6, <1>7, <1>9, <2>2
  <2> QED BY <2>1, <2>2
<1>10. KnownByOne'
  <2> SUFFICES ASSUME NEW x \in Task, NEW y \in Task, NEW no \in known'[x], no \in known'[y]
               PROVE  x = y
    BY DEF KnownByOne
  <2>1. CASE no = new
    BY <1>9, <2>1
  <2>2. CASE no # new
    <3>1. no \in known[x] \cap known[y]
      BY <1>9, <2>2
    <3> QED BY <3>1 DEF NumberInv, KnownByOne
  <2> QED BY <2>1, <2>2
<1>11. KnownIsOld'
  <2> SUFFICES ASSUME NEW x \in Task, NEW no \in known'[x]
               PROVE  no[2] < wrdvno'[no[1]]
    BY DEF KnownIsOld
  <2>1. no[1] \in Task /\ no[2] \in Nat
    BY <1>8 DEF RDVNO
  <2>2. CASE no = new
    BY <1>2, <1>4, <1>5, <2>2
  <2>3. CASE no # new
    <3>1. no \in known[x]
      BY <1>9, <2>3
    <3>2. no[2] < wrdvno[no[1]]
      BY <3>1 DEF NumberInv, KnownIsOld
    <3> QED BY <1>4, <2>1, <3>2
  <2> QED BY <2>2, <2>3
<1> QED BY <1>2, <1>3, <1>8, <1>10, <1>11 DEF NumberInv, new

-----------------------------------------------------------------------------
(***************************************************************************)
(* The calls.                                                              *)
(***************************************************************************)
(* The initial state has what the invariant says.                          *)
LEMMA RdvInitInv ==
  ASSUME RdvInit
  PROVE  RdvInv
<1>1. IInv /\ wspec = [t \in Task |-> "none"]
  BY InitInv DEF RdvInit, Init
<1>2. (CHOOSE x \in Patterns : TRUE) \in Patterns
  BY RendezvousAssumption
<1>3. PortTypes
  BY <1>2, RendezvousAssumption DEF RdvInit, rendezvous_initialize, PortTypes, RDVNO
<1>4. PortInv
  BY <1>1, Ports DEF PortInv, NobodyMissed, RepliesFit, CallsFit
<1>5. NumberInv
  BY DEF RdvInit, rendezvous_initialize, NumberInv, KnownByOne, KnownIsOld
<1> QED BY <1>1, <1>3, <1>4, <1>5 DEF RdvInv

(* A call that only ends waits keeps it.                                   *)
LEMMA QuietKeeps ==
  ASSUME RdvInv, IInv', Quiet, pors' \in SUBSET Por, UNCHANGED <<ptn, rdvno, rmax, room, wrdvno>>,
         \A t \in Task : known'[t] \subseteq known[t], known' \in [Task -> SUBSET RDVNO]
  PROVE  RdvInv'
<1>1. PortInv'
  BY QuietPorts DEF RdvInv
<1>2. NumberInv'
  BY NothingLearnt DEF RdvInv
<1>3. PortTypes'
  BY DEF RdvInv, PortTypes
<1> QED BY <1>1, <1>2, <1>3 DEF RdvInv

(* The creation and the deletion of ports.                                 *)
LEMMA PortsKeep ==
  ASSUME RdvInv, NEW p \in Por, cre_por(p) \/ del_por(p)
  PROVE  RdvInv'
<1>1. /\ UNCHANGED <<ptn, rdvno, rmax, room, wrdvno, known>>
      /\ pors' \in SUBSET Por /\ known' \in [Task -> SUBSET RDVNO] /\ IInv
  BY DEF cre_por, del_por, winfovars, RdvInv, PortTypes
<1>2. CASE cre_por(p)
  <2>1. UNCHANGED vars
    BY <1>2 DEF cre_por
  <2>2. IInv' /\ Quiet
    BY <1>1, <2>1, NextQuiet
  <2> QED BY <1>1, <2>2, QuietKeeps
<1>3. CASE del_por(p)
  <2>1. IInv' /\ Quiet
    BY <1>1, <1>3, DeleteQuiet DEF del_por
  <2> QED BY <1>1, <2>1, QuietKeeps
<1> QED BY <1>2, <1>3

(* A reply.                                                                *)
LEMMA ReplyKeeps ==
  ASSUME RdvInv, NEW no \in RDVNO, rpl_rdv(no)
  PROVE  RdvInv'
<1>1. /\ IInv /\ no[1] \in Task /\ waiting(no[1]) /\ wait_release(no[1]) /\ caller
      /\ UNCHANGED <<countvars, privars, cpuvars>>
  BY DEF RdvInv, rpl_rdv, in_rdv, RDVNO, caller
<1>2. IInv' /\ wspec' = [wspec EXCEPT ![no[1]] = "none"]
  BY <1>1, ReleaseQuiet
<1>3. Quiet
  BY <1>1, <1>2, Ports DEF Quiet, IInv, TypeOK
<1>4. /\ UNCHANGED <<ptn, rdvno, rmax, room, wrdvno, known>>
      /\ pors' \in SUBSET Por /\ known' \in [Task -> SUBSET RDVNO]
  BY DEF rpl_rdv, porvars, RdvInv, PortTypes
<1> QED BY <1>2, <1>3, <1>4, QuietKeeps

(* A call.                                                                 *)
LEMMA CallKeeps ==
  ASSUME RdvInv, NEW p \in Por, NEW pattern \in Patterns, NEW tmout, tcal_por(p, pattern, tmout)
  PROVE  RdvInv'
<1> DEFINE g  == accept_queue[p]
           at == matching(g, pattern)
           a  == first(g, at)
           c  == ctxtsk
<1>1. /\ IInv /\ PortTypes /\ PortInv /\ NumberInv /\ in_task /\ ~in_ddsp
      /\ UNCHANGED <<countvars, privars, cpuvars>>
      /\ pors' \in SUBSET Por /\ c \in Task
      /\ room' = [room EXCEPT ![c] = maxrmsz[p]]
      /\ wspec \in [Task -> Gcb \cup {"none", "slp", "dly", "tmb", "rdv"}]
  BY CallerTask DEF RdvInv, tcal_por, PortTypes, IInv, TypeOK
<1>2. /\ g \in Gcb /\ call_queue[p] \in Gcb /\ call_queue[p] \notin TaTpri /\ maxrmsz[p] \in Nat
      /\ "none" \notin Gcb /\ "rdv" \notin Gcb
  BY Ports
<1>3. /\ room' \in [Task -> Nat] /\ room'[c] = maxrmsz[p]
      /\ \A t \in Task \ {c} : room'[t] = room[t]
  BY <1>1, <1>2 DEF PortTypes
<1>4. CASE at # {}
  <2>1. /\ gen_rdvno(c) /\ exchange(a, tmout # "FEVR")
        /\ rdvno' = [rdvno EXCEPT ![c] = new_rdvno(c)]
        /\ rmax' = [rmax EXCEPT ![c] = maxrmsz[p]]
        /\ known' = [known EXCEPT ![a] = @ \cup {new_rdvno(c)}]
        /\ UNCHANGED ptn
    BY <1>4 DEF tcal_por
  <2>2. a \in Task /\ wspec[a] = g /\ waiting(a)
    BY <1>1, <1>2, <1>4, FirstMatching
  <2> HIDE DEF a, at, c
  <2>3. /\ IInv'
        /\ wspec' = [wspec EXCEPT ![a] = "none", ![c] = "rdv"]
    BY <1>1, <1>2, <2>1, <2>2, Exchange DEF c
  <2>4. /\ NumberInv' /\ new_rdvno(c) \in RDVNO
        /\ wrdvno' \in [Task -> 0 .. MAXRDV] /\ known' \in [Task -> SUBSET RDVNO]
    BY <1>1, <2>1, <2>2, NumberGiven
  <2>5. PortTypes'
    BY <1>1, <1>2, <1>3, <2>1, <2>4 DEF PortTypes
  <2>6. wspec'[c] = "rdv" /\ \A t \in Task \ {c} : wspec'[t] \in Gcb \cup {"rdv"} => wspec[t] = wspec'[t]
    BY <1>1, <1>2, <2>3
  <2>7. maxrmsz[p] <= room'[c]
    BY <1>2, <1>3
  <2>8. PortInv'
    BY <1>1, <1>2, <1>3, <2>1, <2>6, <2>7, RendezvousBegins
  <2> QED BY <2>3, <2>4, <2>5, <2>8 DEF RdvInv
<1>5. CASE at = {}
  <2>1. /\ gcb_make_wait(call_queue[p], tmout = "timed")
        /\ ptn' = [ptn EXCEPT ![c] = pattern]
        /\ UNCHANGED <<rdvno, rmax, wrdvno, known>>
    BY <1>5 DEF tcal_por
  <2>2. \A t \in Task : wspec[t] = g => ptn[t] \cap pattern = {}
    BY <1>1, <1>2, <1>5, FirstMatching
  <2> HIDE DEF at
  <2>3. IInv' /\ wspec' = [wspec EXCEPT ![c] = call_queue[p]]
    <3>1. IInv'
      BY <1>1, <1>2, <2>1, GcbMakeWait
    <3> QED BY <2>1, <3>1 DEF gcb_make_wait, make_wait
  <2>4. NumberInv'
    BY <1>1, <2>1, NothingLearnt
  <2>5. PortTypes'
    BY <1>1, <1>3, <2>1 DEF PortTypes
  <2>6. PortInv'
    <3>1. maxrmsz[p] <= room'[c]
      BY <1>2, <1>3
    <3> HIDE DEF c
    <3> QED BY <1>1, <1>3, <2>1, <2>2, <2>3, <3>1, CallerComes
  <2> QED BY <2>3, <2>4, <2>5, <2>6 DEF RdvInv
<1> QED BY <1>4, <1>5

(* An acceptance.                                                          *)
LEMMA AcceptanceKeeps ==
  ASSUME RdvInv, NEW p \in Por, NEW pattern \in Patterns, NEW timed, tacp_por(p, pattern, timed)
  PROVE  RdvInv'
<1> DEFINE g  == call_queue[p]
           at == matching(g, pattern)
           c  == first(g, at)
           a  == ctxtsk
<1>1. /\ IInv /\ PortTypes /\ PortInv /\ NumberInv /\ in_task /\ ~in_ddsp
      /\ UNCHANGED <<countvars, privars, cpuvars>>
      /\ pors' \in SUBSET Por /\ a \in Task
      /\ UNCHANGED room
      /\ wspec \in [Task -> Gcb \cup {"none", "slp", "dly", "tmb", "rdv"}]
  BY CallerTask DEF RdvInv, tacp_por, PortTypes, IInv, TypeOK
<1>2. /\ g \in Gcb /\ accept_queue[p] \in Gcb /\ maxrmsz[p] \in Nat
      /\ "none" \notin Gcb /\ "rdv" \notin Gcb
  BY Ports
<1>4. CASE at # {}
  <2>1. /\ gen_rdvno(c) /\ accepted(c)
        /\ rdvno' = [rdvno EXCEPT ![c] = new_rdvno(c)]
        /\ rmax' = [rmax EXCEPT ![c] = maxrmsz[p]]
        /\ known' = [known EXCEPT ![a] = @ \cup {new_rdvno(c)}]
        /\ UNCHANGED ptn
    BY <1>4 DEF tacp_por
  <2>2. c \in Task /\ wspec[c] = g /\ waiting(c)
    BY <1>1, <1>2, <1>4, FirstMatching
  <2> HIDE DEF a, at, c
  <2>3. IInv' /\ wspec' = [wspec EXCEPT ![c] = "rdv"]
    BY <1>1, <1>2, <2>1, <2>2, Accepted
  <2>4. /\ NumberInv' /\ new_rdvno(c) \in RDVNO
        /\ wrdvno' \in [Task -> 0 .. MAXRDV] /\ known' \in [Task -> SUBSET RDVNO]
    BY <1>1, <2>1, <2>2, NumberGiven
  <2>5. PortTypes'
    BY <1>1, <1>2, <2>1, <2>4 DEF PortTypes
  <2>6. wspec'[c] = "rdv" /\ \A t \in Task \ {c} : wspec'[t] \in Gcb \cup {"rdv"} => wspec[t] = wspec'[t]
    BY <1>1, <1>2, <2>2, <2>3
  <2>7. maxrmsz[p] <= room'[c]
    BY <1>1, <2>2, PortFacts
  <2>8. PortInv'
    BY <1>1, <1>2, <2>1, <2>2, <2>6, <2>7, RendezvousBegins
  <2> QED BY <2>3, <2>4, <2>5, <2>8 DEF RdvInv
<1>5. CASE at = {}
  <2>1. /\ gcb_make_wait(accept_queue[p], timed)
        /\ ptn' = [ptn EXCEPT ![a] = pattern]
        /\ UNCHANGED <<rdvno, rmax, wrdvno, known>>
    BY <1>5 DEF tacp_por
  <2>2. \A t \in Task : wspec[t] = g => ptn[t] \cap pattern = {}
    BY <1>1, <1>2, <1>5, FirstMatching
  <2> HIDE DEF at
  <2>3. IInv' /\ wspec' = [wspec EXCEPT ![a] = accept_queue[p]]
    <3>1. IInv'
      BY <1>1, <1>2, <2>1, GcbMakeWait
    <3> QED BY <2>1, <3>1 DEF gcb_make_wait, make_wait
  <2>4. NumberInv'
    BY <1>1, <2>1, NothingLearnt
  <2>5. PortTypes'
    BY <1>1, <2>1 DEF PortTypes
  <2>6. PortInv'
    <3> HIDE DEF a
    <3> QED BY <1>1, <2>1, <2>2, <2>3, AcceptorComes
  <2> QED BY <2>3, <2>4, <2>5, <2>6 DEF RdvInv
<1> QED BY <1>4, <1>5

(* A call that is forwarded.                                               *)
LEMMA ForwardKeeps ==
  ASSUME RdvInv, NEW p \in Por, NEW pattern \in Patterns, NEW no \in RDVNO, fwd_por(p, pattern, no)
  PROVE  RdvInv'
<1> DEFINE g  == accept_queue[p]
           at == matching(g, pattern)
           a  == first(g, at)
           c  == no[1]
<1>1. /\ IInv /\ PortTypes /\ PortInv /\ NumberInv /\ in_task /\ caller
      /\ UNCHANGED <<countvars, privars, cpuvars>>
      /\ pors' \in SUBSET Por /\ c \in Task
      /\ UNCHANGED room
      /\ wspec \in [Task -> Gcb \cup {"none", "slp", "dly", "tmb", "rdv"}]
      /\ wspec[c] = "rdv" /\ maxrmsz[p] <= rmax[c]
  BY DEF RdvInv, fwd_por, PortTypes, IInv, TypeOK, caller, may_forward, in_rdv, RDVNO
<1>2. /\ g \in Gcb /\ call_queue[p] \in Gcb /\ maxrmsz[p] \in Nat
      /\ "none" \notin Gcb /\ "rdv" \notin Gcb
  BY Ports
<1>3. maxrmsz[p] <= room'[c]
  <2>1. rmax[c] <= room[c] /\ rmax[c] \in Nat /\ room[c] \in Nat
    BY <1>1, PortFacts
  <2> QED BY <1>1, <1>2, <2>1
<1>4. CASE at # {}
  <2>1. fwd_to_acceptor(a, c, p)
    BY <1>4 DEF fwd_por
  <2>2. a \in Task /\ wspec[a] = g /\ waiting(a)
    BY <1>1, <1>2, <1>4, FirstMatching
  <2> HIDE DEF a, at, c
  <2>3. /\ gen_rdvno(c) /\ wait_release(a)
        /\ rdvno' = [rdvno EXCEPT ![c] = new_rdvno(c)]
        /\ rmax' = [rmax EXCEPT ![c] = maxrmsz[p]]
        /\ known' = [known EXCEPT ![a] = @ \cup {new_rdvno(c)}]
        /\ UNCHANGED ptn
    BY <2>1 DEF fwd_to_acceptor
  <2>4. IInv' /\ wspec' = [wspec EXCEPT ![a] = "none"]
    BY <1>1, <2>2, <2>3, ReleaseQuiet
  <2>5. /\ NumberInv' /\ new_rdvno(c) \in RDVNO
        /\ wrdvno' \in [Task -> 0 .. MAXRDV] /\ known' \in [Task -> SUBSET RDVNO]
    BY <1>1, <2>2, <2>3, NumberGiven
  <2>6. PortTypes'
    BY <1>1, <1>2, <2>3, <2>5 DEF PortTypes
  <2>7. wspec'[c] = "rdv" /\ \A t \in Task \ {c} : wspec'[t] \in Gcb \cup {"rdv"} => wspec[t] = wspec'[t]
    BY <1>1, <1>2, <2>2, <2>4
  <2>8. PortInv'
    BY <1>1, <1>2, <1>3, <2>3, <2>7, RendezvousBegins
  <2> QED BY <2>4, <2>5, <2>6, <2>8 DEF RdvInv
<1>5. CASE at = {}
  <2>1. fwd_to_queue(c, pattern, p)
    BY <1>5 DEF fwd_por
  <2>2. \A t \in Task : wspec[t] = g => ptn[t] \cap pattern = {}
    BY <1>1, <1>2, <1>5, FirstMatching
  <2> HIDE DEF at, c
  <2>3. /\ wspec' = [wspec EXCEPT ![c] = call_queue[p]]
        /\ wait_queue' = [wait_queue EXCEPT ![call_queue[p]] = Append(@, c)]
        /\ ptn' = [ptn EXCEPT ![c] = pattern]
        /\ UNCHANGED <<state, schedvars, timer_queue, rdvno, rmax, wrdvno, known>>
    BY <2>1 DEF fwd_to_queue
  <2>4. IInv'
    BY <1>1, <1>2, <2>3, Forwarded
  <2>5. NumberInv'
    BY <1>1, <2>3, NothingLearnt
  <2>6. PortTypes'
    BY <1>1, <2>3 DEF PortTypes
  <2>7. PortInv'
    BY <1>1, <1>3, <2>2, <2>3, CallerComes
  <2> QED BY <2>4, <2>5, <2>6, <2>7 DEF RdvInv
<1> QED BY <1>4, <1>5

(* Every step keeps the invariant.                                         *)
LEMMA RdvStepInv ==
  ASSUME RdvInv, [RdvNext]_<<vars, porvars>>
  PROVE  RdvInv'
<1>1. ASSUME Next, ends PROVE RdvInv'
  <2>1. IInv' /\ Quiet
    BY <1>1, NextQuiet DEF RdvInv
  <2>2. /\ UNCHANGED <<ptn, rdvno, rmax, room, wrdvno>> /\ pors' \in SUBSET Por
        /\ known \in [Task -> SUBSET RDVNO]
        /\ known' = [t \in Task |-> IF task_alive(t)' THEN known[t] ELSE {}]
    BY <1>1 DEF ends, winfovars, RdvInv, PortTypes
  <2>3. known' \in [Task -> SUBSET RDVNO] /\ \A t \in Task : known'[t] \subseteq known[t]
    BY <2>2
  <2> QED BY <2>1, <2>2, <2>3, QuietKeeps
<1>2. ASSUME UNCHANGED <<vars, porvars>> PROVE RdvInv'
  <2>1. IInv' /\ Quiet
    BY <1>2, NextQuiet DEF RdvInv
  <2>2. /\ UNCHANGED <<ptn, rdvno, rmax, room, wrdvno, known>> /\ pors' \in SUBSET Por
        /\ known' \in [Task -> SUBSET RDVNO]
    BY <1>2 DEF porvars, RdvInv, PortTypes
  <2> QED BY <2>1, <2>2, QuietKeeps
<1>3. ASSUME RdvCall PROVE RdvInv'
  BY <1>3, PortsKeep, CallKeeps, AcceptanceKeeps, ForwardKeeps, ReplyKeeps DEF RdvCall
<1> QED BY <1>1, <1>2, <1>3 DEF RdvNext

-----------------------------------------------------------------------------
(* Whatever calls of rendezvous ports and of task management come, the     *)
(* invariant holds.                                                        *)
THEOREM RendezvousInvariance == RdvSpec => []RdvInv
<1>1. RdvInit => RdvInv
  BY RdvInitInv
<1>2. RdvInv /\ [RdvNext]_<<vars, porvars>> => RdvInv'
  BY RdvStepInv
<1> QED BY <1>1, <1>2, PTL DEF RdvSpec

(* The behaviours of the instances are some of these.                      *)
THEOREM RendezvousInstances == MCSpec => RdvSpec
<1>1. MCInit => RdvInit
  BY DEF MCInit
<1>2. [MCNext]_<<vars, porvars, part>> => [RdvNext]_<<vars, porvars>>
  BY InstanceSteps DEF MCNext, ThreeTasksStep, TwoTasksStep, RdvNext
<1> QED BY <1>1, <1>2, PTL DEF MCSpec, RdvSpec

(* A caller and an acceptor that could meet never both wait at a port.     *)
THEOREM NobodyIsMissed == RdvSpec => []NoMissedRendezvous
<1>1. ASSUME RdvInv PROVE NoMissedRendezvous
  <2>1. /\ \A g \in Gcb : ToSet(wait_queue[g]) = {t \in Task : wspec[t] = g}
        /\ NobodyMissed
    BY <1>1 DEF RdvInv, IInv, WaitInv, WaitQueues, PortInv
  <2> QED BY <2>1, Ports DEF NobodyMissed, NoMissedRendezvous
<1> QED BY <1>1, RendezvousInvariance, PTL

(* At most one task can reply to a caller.                                 *)
THEOREM OneTaskReplies == RdvSpec => []AnsweredByOne
<1>1. ASSUME RdvInv PROVE AnsweredByOne
  <2> SUFFICES ASSUME NEW c \in Task
               PROVE  Cardinality({a \in Task : rdvno[c] \in known[a]}) <= 1
    BY DEF AnsweredByOne
  <2> DEFINE A == {a \in Task : rdvno[c] \in known[a]}
  <2>1. \A a, b \in A : a = b
    BY <1>1 DEF RdvInv, NumberInv, KnownByOne
  <2>2. A = {} \/ \E a \in A : A = {a}
    BY <2>1
  <2> HIDE DEF A
  <2>3. Cardinality(A) = 0 \/ Cardinality(A) = 1
    BY <2>2, FS_EmptySet, FS_Singleton
  <2> QED BY <2>3 DEF A
<1> QED BY <1>1, RendezvousInvariance, PTL

(* The variables have their types, and no reply is longer than the buffer  *)
(* of the caller, wherever its call was forwarded to.                      *)
THEOREM RepliesFitBuffers == RdvSpec => []RepliesSound
<1>1. ASSUME RdvInv PROVE RepliesSound
  <2>1. RdvTypeOK
    BY <1>1 DEF RdvInv, IInv, PortTypes, RdvTypeOK
  <2>2. ReplyFits
    BY <1>1 DEF RdvInv, PortInv, RepliesFit, ReplyFits, in_rdv
  <2> QED BY <2>1, <2>2 DEF RepliesSound
<1> QED BY <1>1, RendezvousInvariance, PTL

-----------------------------------------------------------------------------
(***************************************************************************)
(* 2. PRIORITY INHERITANCE SEMAPHORES                                      *)
(*                                                                         *)
(* Steps that are repeated.                                                *)
(***************************************************************************)
(* What holds at the start of a walk and is kept by each step holds all    *)
(* along it.                                                               *)
LEMMA Along ==
  ASSUME NEW N \in Nat, NEW P \in [0 .. N -> BOOLEAN], P[0],
         \A n \in 1 .. N : P[n - 1] => P[n]
  PROVE  \A n \in 0 .. N : P[n]
<1> DEFINE Bad == {n \in 0 .. N : ~P[n]}
<1> SUFFICES ASSUME Bad # {} PROVE FALSE
  OBVIOUS
<1>1. Bad \in SUBSET Nat /\ \A n \in 0 .. N : n \in Bad <=> ~P[n]
  OBVIOUS
<1>2. Bad \subseteq 0 .. N
  OBVIOUS
<1> HIDE DEF Bad
<1>3. PICK n \in Bad : \A m \in Bad : n <= m
  BY <1>1, MinOfNaturals
<1>4. n \in 1 .. N
  BY <1>1, <1>2, <1>3
<1>5. n - 1 \in 0 .. N /\ n - 1 \notin Bad
  BY <1>3, <1>4
<1> QED BY <1>1, <1>3, <1>4, <1>5

(* The changes of priorities that change_priority makes one after the      *)
(* other, in a set that change_made does not leave.                        *)
LEMMA ChangeWalk ==
  ASSUME NEW S, NEW c \in S, \A x \in S : change_made(x) \in S
  PROVE  \E after \in [0 .. MAX_CHAIN -> S] :
           /\ change_priority(c) = after[MAX_CHAIN].k
           /\ after[0] = c
           /\ \A n \in 1 .. MAX_CHAIN : after[n] = change_made(after[n - 1])
<1> DEFINE N     == MAX_CHAIN
           step  == [n \in 1 .. N |-> [x \in S |-> change_made(x)]]
           F(g)  == [n \in 0 .. N |-> IF n = 0 THEN c ELSE change_made(g[n - 1])]
           after == CHOOSE g : g = F(g)
<1>1. N \in Nat
  BY PriSemAssumption
<1>2. step \in [1 .. N -> [S -> S]]
  OBVIOUS
<1>3. change_priority(c) = after[N].k
  BY DEF change_priority
<1>4. \E g : g = F(g)
  <2>a. \A n \in 1 .. N, x \in S : step[n][x] = change_made(x)
    OBVIOUS
  <2> HIDE DEF step, N
  <2>1. PICK g \in [0 .. N -> S] : Walks(g, N, c, step)
    BY <1>1, <1>2, Walk
  <2>2. ASSUME NEW n \in 0 .. N
        PROVE  g[n] = IF n = 0 THEN c ELSE change_made(g[n - 1])
    <3>1. CASE n = 0
      BY <2>1, <3>1 DEF Walks
    <3>2. CASE n # 0
      <4>1. n \in 1 .. N /\ n - 1 \in 0 .. N
        BY <1>1, <3>2
      <4>2. g[n - 1] \in S /\ g[n] = step[n][g[n - 1]]
        BY <2>1, <4>1 DEF Walks
      <4> QED BY <2>a, <3>2, <4>1, <4>2
    <3> QED BY <3>1, <3>2
  <2>3. g = F(g)
    BY <2>1, <2>2
  <2> QED BY <2>3
<1>5. after = F(after)
  <2> HIDE DEF F
  <2> QED BY <1>4, Zenon
<1> HIDE DEF after, N, step
<1>6. after[0] = c /\ \A n \in 1 .. N : after[n] = change_made(after[n - 1])
  <2>1. after[0] = c
    BY <1>1, <1>5
  <2>2. ASSUME NEW n \in 1 .. N PROVE after[n] = change_made(after[n - 1])
    <3>1. n \in 0 .. N /\ n # 0
      BY <1>1
    <3> QED BY <1>5, <3>1
  <2> QED BY <2>1, <2>2
<1>7. \A n \in 0 .. N : after[n] \in S
  <2> DEFINE Q(x) == x \in S
             P    == [n \in 0 .. N |-> Q(after[n])]
  <2>a. \A x : Q(x) \in BOOLEAN
    OBVIOUS
  <2>b. \A x : Q(x) <=> x \in S
    OBVIOUS
  <2> HIDE DEF Q
  <2>c. P \in [0 .. N -> BOOLEAN] /\ \A n \in 0 .. N : P[n] = Q(after[n])
    BY <2>a
  <2>1. P \in [0 .. N -> BOOLEAN] /\ \A n \in 0 .. N : P[n] <=> after[n] \in S
    BY <2>b, <2>c
  <2>2. P[0]
    BY <1>1, <1>6, <2>1
  <2>3. ASSUME NEW n \in 1 .. N, P[n - 1] PROVE P[n]
    <3>1. n \in 0 .. N /\ n - 1 \in 0 .. N
      BY <1>1
    <3> QED BY <1>6, <2>1, <2>3, <3>1
  <2> HIDE DEF P
  <2>4. \A n \in 0 .. N : P[n]
    BY <1>1, <2>1, <2>2, <2>3, Along
  <2> QED BY <2>1, <2>4
<1>8. after \in [0 .. N -> S]
  <2> HIDE DEF F
  <2>1. after = [n \in 0 .. N |-> after[n]]
    BY <1>5 DEF F
  <2> QED BY <1>7, <2>1
<1> QED BY <1>3, <1>6, <1>8 DEF N
-----------------------------------------------------------------------------
(***************************************************************************)
(* The states of the kernel between two steps of one call.                 *)
(***************************************************************************)
KernelStates ==
  [state : [Task -> TSTAT], priority : PriorityMap, wspec : [Task -> Pis \cup {"none"}],
   wait_queue : [Gcb -> Seq(Task)], timer_queue : SUBSET Task,
   ready_queue : RDYQUE, schedtsk : Task \cup {NoTask},
   pistsk : [Pis -> Task \cup {NoTask}], pislist : [Task -> Queue(Pis)]]

ReadyIn(k, X) == {u \in Task \ X : k.state[u] = "READY"}
WaitIn(k, X)  == {u \in Task \ X : k.state[u] \in TS_WAIT}

(* The tasks in X are about to end, and have left all queues.              *)
Scheduled(k, X) ==
  /\ Consistent(k.ready_queue, ReadyIn(k, X), k.priority)
  /\ k.schedtsk = ready_queue_top(k.ready_queue)

Queued(k, X) ==
  /\ \A u \in Task : k.state[u] \in TS_WAIT <=> k.wspec[u] # "none"
  /\ k.timer_queue \subseteq WaitIn(k, X)
  /\ \A g \in Gcb : /\ k.wait_queue[g] \in Queue(Task)
                    /\ ToSet(k.wait_queue[g]) = {u \in Task \ X : k.wspec[u] = g}
                    /\ SortedBy(k.wait_queue[g], k.priority)

Sound(k, X) == k \in KernelStates /\ Scheduled(k, X) /\ Queued(k, X)

(* The semaphores are synchronisation objects.                             *)
LEMMA PisAreObjects ==
  Pis \subseteq Gcb /\ Pis \subseteq TaTpri /\ "none" \notin Pis
BY PriSemAssumption, TaskCoreAssumption

(* The fields of a kernel state have their types.                          *)
LEMMA KernelFields ==
  ASSUME NEW k \in KernelStates
  PROVE  /\ k.state \in [Task -> TSTAT]
         /\ k.priority \in PriorityMap
         /\ k.wspec \in [Task -> Pis \cup {"none"}]
         /\ k.wait_queue \in [Gcb -> Seq(Task)]
         /\ k.timer_queue \in SUBSET Task
         /\ k.ready_queue \in RDYQUE
         /\ k.schedtsk \in Task \cup {NoTask}
         /\ k.pistsk \in [Pis -> Task \cup {NoTask}]
         /\ k.pislist \in [Task -> Queue(Pis)]
BY DEF KernelStates

(* A task that waits is in the queue of its semaphore and in no other.     *)
LEMMA InQueue ==
  ASSUME NEW X \in SUBSET Task, NEW k, Sound(k, X), NEW g \in Gcb
  PROVE  /\ k.wait_queue[g] \in Queue(Task)
         /\ SortedBy(k.wait_queue[g], k.priority)
         /\ \A u : u \in ToSet(k.wait_queue[g]) <=> u \in Task \ X /\ k.wspec[u] = g
BY DEF Sound, Queued

(* A waiting task waits for a semaphore.                                   *)
LEMMA WaitsForPis ==
  ASSUME NEW X \in SUBSET Task, NEW k, Sound(k, X), NEW t \in Task
  PROVE  /\ k.state[t] \in TS_WAIT => k.wspec[t] \in Pis
         /\ k.state[t] \notin TS_WAIT => k.wspec[t] = "none"
BY KernelFields DEF Sound, Queued

(* A queue that loses t stays sorted, also if the priority of t changes.   *)
LEMMA DeleteSorted ==
  ASSUME NEW q \in Queue(Task), NEW t \in ToSet(q), NEW pri, NEW pri2, SortedBy(q, pri),
         \A u \in Task \ {t} : pri2[u] = pri[u]
  PROVE  SortedBy(queue_delete(q, t), pri2)
<1> DEFINE d == queue_delete(q, t)
<1>1. ASSUME NEW u, NEW v, before(d, u, v) PROVE pri2[u] <= pri2[v]
  <2>1. before(q, u, v) /\ u # t /\ v # t
    BY <1>1, DeleteKeepsOrder
  <2>2. u \in Task /\ v \in Task
    BY <2>1, BeforeIn, QueueEntries
  <2> QED BY <2>1, <2>2 DEF SortedBy
<1> HIDE DEF d
<1>2. SortedBy(d, pri2)
  BY <1>1 DEF SortedBy
<1> QED BY <1>2 DEF d

(* A queue stays sorted if no priority of its entries changes.             *)
LEMMA SameSorted ==
  ASSUME NEW q \in Queue(Task), NEW pri, NEW pri2, SortedBy(q, pri),
         \A u \in ToSet(q) : pri2[u] = pri[u]
  PROVE  SortedBy(q, pri2)
BY ThinnedSelf, ThinnedSorted

(* The first of a sorted queue has the least priority.                     *)
LEMMA HeadLeast ==
  ASSUME NEW q \in Queue(Task), q # << >>, NEW pri \in PriorityMap, SortedBy(q, pri)
  PROVE  Head(q) \in ToSet(q) /\ \A u \in ToSet(q) : pri[Head(q)] <= pri[u]
<1> DEFINE h == Head(q)
<1>1. h \in ToSet(q)
  BY QueueTail
<1>2. /\ Len(q) \in Nat /\ DOMAIN q = 1 .. Len(q) /\ h = q[1]
      /\ ToSet(q) = {q[j] : j \in 1 .. Len(q)}
      /\ \A u \in ToSet(q) : u \in Task
  BY QueueEntries
<1>3. pri[h] \in Nat
  BY <1>1, <1>2, PriorityRange DEF PriorityMap
<1>4. ASSUME NEW u \in ToSet(q) PROVE pri[h] <= pri[u]
  <2>1. PICK j \in 1 .. Len(q) : q[j] = u
    BY <1>2
  <2>2. CASE j = 1
    BY <1>2, <1>3, <2>1, <2>2
  <2>3. CASE j # 1
    <3>1. before(q, h, u)
      BY <1>2, <2>1, <2>3 DEF before
    <3> QED BY <3>1 DEF SortedBy
  <2> QED BY <2>2, <2>3
<1> QED BY <1>1, <1>4

(* A READY task more in the ready queue is one with a valid index.         *)
LEMMA InsertType ==
  ASSUME NEW rq \in RDYQUE, NEW t \in Task, NEW p \in Priority
  PROVE  ready_queue_insert(rq, t, p) \in RDYQUE
<1>1. /\ rq.top_priority \in 0 .. NUM_PRI /\ rq.bitmap \in SUBSET Priority
      /\ rq.tskque \in [Priority -> Seq(Task)] /\ Append(rq.tskque[p], t) \in Seq(Task)
  BY DEF RDYQUE
<1>2. p \in 0 .. NUM_PRI
  BY ReadyQueueAssumption DEF Priority
<1> QED BY <1>1, <1>2 DEF ready_queue_insert, RDYQUE

-----------------------------------------------------------------------------
(***************************************************************************)
(* The end of a wait.                                                      *)
(***************************************************************************)
(* The wait of t ends, and the priorities stay.                            *)
WaitEnds(k, t, k2) ==
  /\ k2.state = [k.state EXCEPT ![t] = IF k.state[t] = "WAIT" THEN "READY" ELSE "SUSPEND"]
  /\ k2.wspec = [k.wspec EXCEPT ![t] = "none"]
  /\ k2.priority = k.priority
  /\ k2.pistsk = k.pistsk
  /\ k2.pislist = k.pislist

(* The fields that wait_release sets.                                      *)
LEMMA ReleasedFields ==
  ASSUME NEW k \in KernelStates, NEW t \in Task, k.wspec[t] \in Pis
  PROVE  /\ released(k, t) \in KernelStates
         /\ WaitEnds(k, t, released(k, t))
         /\ released(k, t).timer_queue = k.timer_queue \ {t}
         /\ released(k, t).wait_queue =
              [k.wait_queue EXCEPT ![k.wspec[t]] = queue_delete(k.wait_queue[k.wspec[t]], t)]
         /\ released(k, t).ready_queue =
              IF k.state[t] = "WAIT" THEN ready_queue_insert(k.ready_queue, t, k.priority[t])
              ELSE k.ready_queue
         /\ released(k, t).schedtsk =
              IF k.state[t] = "WAIT" /\ k.priority[t] < k.ready_queue.top_priority THEN t
              ELSE k.schedtsk
<1>1. /\ k.wspec[t] \in Gcb /\ k.priority[t] \in Priority
      /\ k.wait_queue[k.wspec[t]] \in Seq(Task)
  BY PisAreObjects, KernelFields DEF PriorityMap
<1>2. ready_queue_insert(k.ready_queue, t, k.priority[t]) \in RDYQUE
  BY <1>1, KernelFields, InsertType
<1>3. queue_delete(k.wait_queue[k.wspec[t]], t) \in Seq(Task)
  BY <1>1, DeleteType
<1>4. released(k, t) \in KernelStates
  BY <1>1, <1>2, <1>3 DEF KernelStates, released, TSTAT
<1>5. WaitEnds(k, t, released(k, t))
  BY DEF KernelStates, released, WaitEnds
<1>6. /\ released(k, t).timer_queue = k.timer_queue \ {t}
      /\ released(k, t).wait_queue =
              [k.wait_queue EXCEPT ![k.wspec[t]] = queue_delete(k.wait_queue[k.wspec[t]], t)]
  BY DEF KernelStates, released
<1>7. /\ released(k, t).ready_queue =
              IF k.state[t] = "WAIT" THEN ready_queue_insert(k.ready_queue, t, k.priority[t])
              ELSE k.ready_queue
      /\ released(k, t).schedtsk =
              IF k.state[t] = "WAIT" /\ k.priority[t] < k.ready_queue.top_priority THEN t
              ELSE k.schedtsk
  BY DEF KernelStates, released
<1> QED BY <1>4, <1>5, <1>6, <1>7

(* The tasks that are ready are in the ready queue, with their priorities. *)
LEMMA ReadyHolds ==
  ASSUME NEW X \in SUBSET Task, NEW k, Sound(k, X)
  PROVE  /\ Consistent(k.ready_queue, ReadyIn(k, X), k.priority)
         /\ ReadyIn(k, X) \in SUBSET Task
         /\ k.priority \in PriorityMap
         /\ k.schedtsk = ready_queue_top(k.ready_queue)
BY KernelFields DEF Sound, Scheduled, ReadyIn

(* wait_release leaves the queues and the scheduled task sound.            *)
LEMMA Released ==
  ASSUME NEW X \in SUBSET Task, NEW k, Sound(k, X), NEW t \in Task \ X, k.state[t] \in TS_WAIT
  PROVE  Sound(released(k, t), X) /\ WaitEnds(k, t, released(k, t))
<1> DEFINE k2 == released(k, t)
           p  == k.wspec[t]
<1>1. k \in KernelStates /\ p \in Pis /\ p \in Gcb /\ p # "none"
  BY WaitsForPis, PisAreObjects DEF Sound
<1>2. /\ k2 \in KernelStates
      /\ WaitEnds(k, t, k2)
      /\ k2.timer_queue = k.timer_queue \ {t}
      /\ k2.wait_queue = [k.wait_queue EXCEPT ![p] = queue_delete(k.wait_queue[p], t)]
      /\ k2.ready_queue = IF k.state[t] = "WAIT"
                          THEN ready_queue_insert(k.ready_queue, t, k.priority[t])
                          ELSE k.ready_queue
      /\ k2.schedtsk = IF k.state[t] = "WAIT" /\ k.priority[t] < k.ready_queue.top_priority THEN t
                       ELSE k.schedtsk
  BY <1>1, ReleasedFields
<1> HIDE DEF k2
<1>3. /\ k2.state = [k.state EXCEPT ![t] = IF k.state[t] = "WAIT" THEN "READY" ELSE "SUSPEND"]
      /\ k2.wspec = [k.wspec EXCEPT ![t] = "none"]
      /\ k2.priority = k.priority
  BY <1>2 DEF WaitEnds
<1>4. k.state \in [Task -> TSTAT] /\ k.wspec \in [Task -> Pis \cup {"none"}]
      /\ k.wait_queue \in [Gcb -> Seq(Task)]
  BY <1>1, KernelFields
<1>5. Scheduled(k2, X)
  <2> DEFINE S == ReadyIn(k, X)
             pri == k.priority
             rq  == k.ready_queue
  <2>1. /\ Consistent(rq, S, pri) /\ S \in SUBSET Task /\ pri \in PriorityMap
        /\ k.schedtsk = ready_queue_top(rq)
    BY ReadyHolds
  <2>2. CASE k.state[t] = "WAIT"
    <3>1. t \in Task \ S /\ ReadyIn(k2, X) = S \cup {t}
      BY <1>3, <1>4, <2>2 DEF ReadyIn
    <3>2. /\ k2.ready_queue = ready_queue_insert(rq, t, pri[t])
          /\ k2.schedtsk = IF pri[t] < rq.top_priority THEN t ELSE ready_queue_top(rq)
      BY <1>2, <2>1, <2>2
    <3> DEFINE rq2 == ready_queue_insert(rq, t, pri[t])
    <3>. Consistent(rq, S, pri)
      BY <2>1
    <3>a. S \in SUBSET Task /\ pri \in PriorityMap
      BY <2>1
    <3> HIDE DEF S, pri, rq
    <3>3. /\ Consistent(rq2, S \cup {t}, pri)
          /\ ready_queue_top(rq2) = IF pri[t] < rq.top_priority THEN t ELSE ready_queue_top(rq)
      BY <3>1, <3>a, ReadyQueueInsert
    <3>4. k2.priority = pri
      BY <1>3 DEF pri
    <3> QED BY <3>1, <3>2, <3>3, <3>4 DEF Scheduled
  <2>3. CASE k.state[t] # "WAIT"
    <3>1. ReadyIn(k2, X) = S /\ k2.ready_queue = rq /\ k2.schedtsk = k.schedtsk
      BY <1>2, <1>3, <1>4, <2>3 DEF ReadyIn, TS_WAIT
    <3> QED BY <1>3, <2>1, <3>1 DEF Scheduled
  <2> QED BY <2>2, <2>3
<1>6. Queued(k2, X)
  <2>1. \A u \in Task : k2.state[u] \in TS_WAIT <=> k2.wspec[u] # "none"
    BY <1>3, <1>4 DEF Sound, Queued, TS_WAIT
  <2>2. k2.timer_queue \subseteq WaitIn(k2, X)
    BY <1>2, <1>3, <1>4 DEF Sound, Queued, WaitIn
  <2>3. ASSUME NEW g \in Gcb
        PROVE  /\ k2.wait_queue[g] \in Queue(Task)
               /\ ToSet(k2.wait_queue[g]) = {u \in Task \ X : k2.wspec[u] = g}
               /\ SortedBy(k2.wait_queue[g], k2.priority)
    <3> DEFINE q == k.wait_queue[g]
    <3>1. /\ q \in Queue(Task) /\ SortedBy(q, k.priority)
          /\ \A u : u \in ToSet(q) <=> u \in Task \ X /\ k.wspec[u] = g
      BY InQueue
    <3>2. CASE g = p
      <4>1. t \in ToSet(q) /\ k2.wait_queue[g] = queue_delete(q, t)
        BY <1>2, <1>4, <3>1, <3>2
      <4> HIDE DEF q
      <4>2. /\ queue_delete(q, t) \in Queue(Task)
            /\ ToSet(queue_delete(q, t)) = ToSet(q) \ {t}
        BY <3>1, <4>1, QueueDelete
      <4>3. SortedBy(queue_delete(q, t), k2.priority)
        BY <1>3, <3>1, <4>1, DeleteSorted
      <4>4. ToSet(q) \ {t} = {u \in Task \ X : k2.wspec[u] = g}
        BY <1>1, <1>3, <1>4, <3>1, <3>2
      <4> QED BY <4>1, <4>2, <4>3, <4>4
    <3>3. CASE g # p
      <4>1. k2.wait_queue[g] = q
        BY <1>2, <1>4, <3>3
      <4>2. ToSet(q) = {u \in Task \ X : k2.wspec[u] = g}
        BY <1>1, <1>3, <1>4, <3>1, <3>3, TaskCoreAssumption
      <4> QED BY <1>3, <3>1, <4>1, <4>2
    <3> QED BY <3>2, <3>3
  <2> QED BY <2>1, <2>2, <2>3 DEF Queued
<1> QED BY <1>2, <1>5, <1>6 DEF Sound, k2
-----------------------------------------------------------------------------
(***************************************************************************)
(* One change of a priority.                                               *)
(***************************************************************************)
WithPriority(k, t, p) == [k EXCEPT !.priority[t] = p]

Moved(k, t) ==
  [k EXCEPT !.wait_queue[k.wspec[t]] = queue_insert_tpri(queue_delete(@, t), t, k.priority)]

Requeue(k, t, old) ==
  LET rq == ready_queue_insert(ready_queue_delete(k.ready_queue, t, old), t, k.priority[t])
  IN  [k EXCEPT !.ready_queue = rq, !.schedtsk = ready_queue_top(rq)]

(* A change of priorities changes nothing else but the order of queues.    *)
Same(k, k2) ==
  /\ k2.state = k.state
  /\ k2.wspec = k.wspec
  /\ k2.timer_queue = k.timer_queue
  /\ k2.pistsk = k.pistsk
  /\ k2.pislist = k.pislist

(* A task that is neither ready nor waiting is in no queue.                *)
LEMMA ChangedOther ==
  ASSUME NEW X \in SUBSET Task, NEW k, Sound(k, X), NEW t \in Task \ X, NEW p \in Priority,
         k.state[t] \notin TS_WAIT \cup {"READY"}
  PROVE  /\ Sound(WithPriority(k, t, p), X)
         /\ Same(k, WithPriority(k, t, p))
         /\ WithPriority(k, t, p).priority = [k.priority EXCEPT ![t] = p]
<1> DEFINE k2 == WithPriority(k, t, p)
<1>0. k \in KernelStates /\ k.priority \in PriorityMap
  BY KernelFields DEF Sound
<1>1. /\ k2.priority = [k.priority EXCEPT ![t] = p]
      /\ k2.state = k.state /\ k2.wspec = k.wspec /\ k2.timer_queue = k.timer_queue
      /\ k2.wait_queue = k.wait_queue /\ k2.ready_queue = k.ready_queue
      /\ k2.schedtsk = k.schedtsk /\ k2.pistsk = k.pistsk /\ k2.pislist = k.pislist
  BY <1>0 DEF KernelStates, WithPriority
<1>2. k2 \in KernelStates
  <2>1. [k.priority EXCEPT ![t] = p] \in PriorityMap
    BY <1>0 DEF PriorityMap
  <2> QED BY <1>0, <2>1 DEF KernelStates, WithPriority
<1> HIDE DEF k2
<1>3. \A u \in Task \ {t} : k2.priority[u] = k.priority[u]
  BY <1>0, <1>1 DEF PriorityMap
<1>4. Scheduled(k2, X)
  <2>1. /\ Consistent(k.ready_queue, ReadyIn(k, X), k.priority)
        /\ ReadyIn(k, X) \in SUBSET Task /\ k.schedtsk = ready_queue_top(k.ready_queue)
    BY ReadyHolds
  <2>2. \A u \in ReadyIn(k, X) : k2.priority[u] = k.priority[u]
    BY <1>3 DEF ReadyIn
  <2>3. Consistent(k.ready_queue, ReadyIn(k, X), k2.priority)
    BY <2>1, <2>2, OtherPriorities
  <2>4. ReadyIn(k2, X) = ReadyIn(k, X)
    BY <1>1 DEF ReadyIn
  <2> QED BY <1>1, <2>1, <2>3, <2>4 DEF Scheduled
<1>5. Queued(k2, X)
  <2>1. ASSUME NEW g \in Gcb PROVE SortedBy(k2.wait_queue[g], k2.priority)
    <3>1. /\ k.wait_queue[g] \in Queue(Task) /\ SortedBy(k.wait_queue[g], k.priority)
          /\ \A u \in ToSet(k.wait_queue[g]) : u \in Task /\ k.wspec[u] = g
      BY InQueue
    <3>2. k.wspec[t] = "none" /\ g # "none"
      BY WaitsForPis, TaskCoreAssumption
    <3>3. \A u \in ToSet(k.wait_queue[g]) : k2.priority[u] = k.priority[u]
      BY <1>3, <3>1, <3>2
    <3>4. SortedBy(k.wait_queue[g], k2.priority)
      BY <3>1, <3>3, SameSorted, Zenon
    <3> QED BY <1>1, <3>4
  <2> QED BY <1>1, <2>1 DEF Sound, Queued, WaitIn
<1>6. Sound(k2, X)
  BY <1>2, <1>4, <1>5 DEF Sound
<1>7. Same(k, k2)
  BY <1>1 DEF Same
<1> QED BY <1>1, <1>6, <1>7 DEF k2

(* A ready task goes to the end of the ready queue of its new priority.    *)
LEMMA ChangedReady ==
  ASSUME NEW X \in SUBSET Task, NEW k, Sound(k, X), NEW t \in Task \ X, NEW p \in Priority,
         k.state[t] = "READY"
  PROVE  LET k2 == Requeue(WithPriority(k, t, p), t, k.priority[t]) IN
         /\ Sound(k2, X)
         /\ Same(k, k2)
         /\ k2.priority = [k.priority EXCEPT ![t] = p]
<1> DEFINE k2   == Requeue(WithPriority(k, t, p), t, k.priority[t])
           S    == ReadyIn(k, X)
           pri  == k.priority
           pri2 == [k.priority EXCEPT ![t] = p]
           rq1  == ready_queue_delete(k.ready_queue, t, pri[t])
           rq2  == ready_queue_insert(rq1, t, p)
<1>0. k \in KernelStates /\ pri \in PriorityMap /\ pri2 \in PriorityMap /\ pri2[t] = p
      /\ \A u \in Task \ {t} : pri2[u] = pri[u]
  BY KernelFields DEF Sound, PriorityMap
<1>1. /\ k2.priority = pri2
      /\ k2.state = k.state /\ k2.wspec = k.wspec /\ k2.timer_queue = k.timer_queue
      /\ k2.wait_queue = k.wait_queue /\ k2.pistsk = k.pistsk /\ k2.pislist = k.pislist
  BY <1>0 DEF KernelStates, WithPriority, Requeue
<1>2. k2.ready_queue = rq2 /\ k2.schedtsk = ready_queue_top(rq2)
  BY <1>0 DEF KernelStates, WithPriority, Requeue, PriorityMap
<1>3. Consistent(rq2, S, pri2) /\ rq2 \in RDYQUE
  <2>1. /\ Consistent(k.ready_queue, S, pri) /\ S \in SUBSET Task /\ t \in S
    BY ReadyHolds DEF ReadyIn
  <2> HIDE DEF S, pri2, rq2
  <2>2. Consistent(rq1, S \ {t}, pri)
    BY <1>0, <2>1, ReadyQueueDelete
  <2> HIDE DEF rq1, pri
  <2>3. Consistent(rq1, S \ {t}, pri2)
    <3>1. \A u \in S \ {t} : pri2[u] = pri[u]
      BY <1>0, <2>1
    <3>2. S \ {t} \in SUBSET Task
      BY <2>1
    <3> QED BY <2>2, <3>1, <3>2, OtherPriorities
  <2>4. Consistent(ready_queue_insert(rq1, t, pri2[t]), (S \ {t}) \cup {t}, pri2)
    <3>1. t \in Task \ (S \ {t}) /\ S \ {t} \in SUBSET Task
      BY <2>1
    <3> QED BY <1>0, <2>3, <3>1, ReadyQueueInsert
  <2>5. (S \ {t}) \cup {t} = S
    BY <2>1
  <2>6. Consistent(rq2, S, pri2)
    BY <1>0, <2>4, <2>5 DEF rq2
  <2> QED BY <2>6 DEF Consistent
<1>4. ready_queue_top(rq2) \in Task \cup {NoTask}
  <2>1. S \in SUBSET Task
    BY DEF ReadyIn
  <2> HIDE DEF S, pri2, rq2
  <2> QED BY <1>0, <1>3, <2>1, ReadyQueueTop
<1>5. k2 \in KernelStates
  <2> HIDE DEF rq2, pri2
  <2>1. k2 = [k EXCEPT !.priority = pri2, !.ready_queue = rq2, !.schedtsk = ready_queue_top(rq2)]
    BY <1>0 DEF KernelStates, WithPriority, Requeue, PriorityMap, rq2, pri2
  <2> HIDE DEF k2
  <2> QED BY <1>0, <1>3, <1>4, <2>1 DEF KernelStates
<1> HIDE DEF k2
<1>6. Scheduled(k2, X)
  <2>1. ReadyIn(k2, X) = S
    BY <1>1 DEF ReadyIn
  <2> QED BY <1>1, <1>2, <1>3, <2>1 DEF Scheduled
<1>7. Queued(k2, X)
  <2>1. ASSUME NEW g \in Gcb PROVE SortedBy(k2.wait_queue[g], k2.priority)
    <3>1. /\ k.wait_queue[g] \in Queue(Task) /\ SortedBy(k.wait_queue[g], k.priority)
          /\ \A u \in ToSet(k.wait_queue[g]) : u \in Task /\ k.wspec[u] = g
      BY InQueue
    <3>2. k.wspec[t] = "none" /\ g # "none"
      BY WaitsForPis, TaskCoreAssumption DEF TS_WAIT
    <3>3. \A u \in ToSet(k.wait_queue[g]) : k2.priority[u] = k.priority[u]
      BY <1>0, <1>1, <3>1, <3>2
    <3> DEFINE q   == k.wait_queue[g]
               new == k2.priority
    <3>a. q \in Queue(Task) /\ SortedBy(q, k.priority) /\ \A u \in ToSet(q) : new[u] = k.priority[u]
      BY <3>1, <3>3
    <3> HIDE DEF q, new
    <3>b. SortedBy(q, new)
      BY <3>a, SameSorted
    <3>4. SortedBy(k.wait_queue[g], k2.priority)
      BY <3>b DEF q, new
    <3> QED BY <1>1, <3>4
  <2> QED BY <1>1, <2>1 DEF Sound, Queued, WaitIn
<1>8. Sound(k2, X)
  BY <1>5, <1>6, <1>7 DEF Sound
<1>9. Same(k, k2)
  BY <1>1 DEF Same
<1> QED BY <1>1, <1>8, <1>9 DEF k2
(* A waiting task moves to the place in its queue that its new priority    *)
(* gives it.                                                               *)
LEMMA ChangedWaiting ==
  ASSUME NEW X \in SUBSET Task, NEW k, Sound(k, X), NEW t \in Task \ X, NEW p \in Priority,
         k.state[t] \in TS_WAIT
  PROVE  LET k2 == Moved(WithPriority(k, t, p), t) IN
         /\ Sound(k2, X)
         /\ Same(k, k2)
         /\ k2.priority = [k.priority EXCEPT ![t] = p]
<1> DEFINE k2   == Moved(WithPriority(k, t, p), t)
           h    == k.wspec[t]
           pri2 == [k.priority EXCEPT ![t] = p]
           d    == queue_delete(k.wait_queue[h], t)
           q2   == queue_insert_tpri(d, t, pri2)
<1>0. /\ k \in KernelStates /\ k.priority \in PriorityMap /\ pri2 \in PriorityMap /\ pri2[t] = p
      /\ \A u \in Task \ {t} : pri2[u] = k.priority[u]
      /\ h \in Pis /\ h \in Gcb /\ k.wait_queue \in [Gcb -> Seq(Task)]
  BY KernelFields, WaitsForPis, PisAreObjects DEF Sound, PriorityMap
<1>1. /\ k2.priority = pri2
      /\ k2.state = k.state /\ k2.wspec = k.wspec /\ k2.timer_queue = k.timer_queue
      /\ k2.ready_queue = k.ready_queue /\ k2.schedtsk = k.schedtsk
      /\ k2.pistsk = k.pistsk /\ k2.pislist = k.pislist
  BY <1>0 DEF KernelStates, WithPriority, Moved
<1>2. k2.wait_queue = [k.wait_queue EXCEPT ![h] = q2]
  BY <1>0 DEF KernelStates, WithPriority, Moved
<1>3. /\ q2 \in Queue(Task)
      /\ ToSet(q2) = ToSet(k.wait_queue[h])
      /\ SortedBy(q2, pri2)
  <2> DEFINE q == k.wait_queue[h]
  <2>h. h \in Gcb /\ k.wspec[t] = h
    BY <1>0
  <2> HIDE DEF h, k2, d, q2, pri2
  <2>0. /\ q \in Queue(Task) /\ SortedBy(q, k.priority)
        /\ \A u : u \in ToSet(q) <=> u \in Task \ X /\ k.wspec[u] = h
    BY <2>h, InQueue
  <2>1. /\ q \in Queue(Task) /\ SortedBy(q, k.priority) /\ t \in ToSet(q)
    BY <2>h, <2>0
  <2>2. d = queue_delete(q, t)
    BY DEF q, d
  <2> HIDE DEF q
  <2>3. d \in Queue(Task) /\ ToSet(d) = ToSet(q) \ {t}
    BY <2>1, <2>2, QueueDelete
  <2>4. SortedBy(d, pri2)
    BY <1>0, <2>1, <2>2, DeleteSorted
  <2> USE DEF q2
  <2>5. /\ q2 \in Queue(Task) /\ ToSet(q2) = ToSet(d) \cup {t} /\ SortedBy(q2, pri2)
    BY <1>0, <2>3, <2>4, InsertSorted
  <2>6. ToSet(d) \cup {t} = ToSet(q)
    BY <2>1, <2>3
  <2> QED BY <2>5, <2>6 DEF q
<1>4. k2 \in KernelStates
  <2>1. k2 = [k EXCEPT !.priority = pri2, !.wait_queue = [k.wait_queue EXCEPT ![h] = q2]]
    BY <1>0 DEF KernelStates, WithPriority, Moved
  <2> HIDE DEF k2, q2, pri2
  <2>2. q2 \in Seq(Task)
    BY <1>3 DEF Queue
  <2>3. [k.wait_queue EXCEPT ![h] = q2] \in [Gcb -> Seq(Task)]
    BY <1>0, <2>2
  <2> QED BY <1>0, <2>1, <2>3 DEF KernelStates
<1> HIDE DEF k2, q2, pri2
<1>5. Scheduled(k2, X)
  <2>1. /\ Consistent(k.ready_queue, ReadyIn(k, X), k.priority)
        /\ ReadyIn(k, X) \in SUBSET Task /\ k.schedtsk = ready_queue_top(k.ready_queue)
    BY ReadyHolds
  <2>2. \A u \in ReadyIn(k, X) : pri2[u] = k.priority[u]
    BY <1>0 DEF ReadyIn, TS_WAIT
  <2>3. Consistent(k.ready_queue, ReadyIn(k, X), pri2)
    BY <2>1, <2>2, OtherPriorities
  <2>4. ReadyIn(k2, X) = ReadyIn(k, X)
    BY <1>1 DEF ReadyIn
  <2> QED BY <1>1, <2>1, <2>3, <2>4 DEF Scheduled
<1>6. Queued(k2, X)
  <2>1. ASSUME NEW g \in Gcb
        PROVE  /\ k2.wait_queue[g] \in Queue(Task)
               /\ ToSet(k2.wait_queue[g]) = {u \in Task \ X : k2.wspec[u] = g}
               /\ SortedBy(k2.wait_queue[g], k2.priority)
    <3>1. /\ k.wait_queue[g] \in Queue(Task) /\ SortedBy(k.wait_queue[g], k.priority)
          /\ \A u : u \in ToSet(k.wait_queue[g]) <=> u \in Task \ X /\ k.wspec[u] = g
      BY InQueue
    <3>2. ToSet(k.wait_queue[g]) = {u \in Task \ X : k2.wspec[u] = g}
      BY <1>1, <3>1
    <3>3. CASE g = h
      BY <1>0, <1>1, <1>2, <1>3, <3>2, <3>3
    <3>4. CASE g # h
      <4>1. k2.wait_queue[g] = k.wait_queue[g]
        BY <1>0, <1>2, <3>4
      <4>2. \A u \in ToSet(k.wait_queue[g]) : pri2[u] = k.priority[u]
        BY <1>0, <3>1, <3>4
      <4>3. SortedBy(k.wait_queue[g], pri2)
        BY <3>1, <4>2, SameSorted
      <4> QED BY <1>1, <3>1, <3>2, <4>1, <4>3
    <3> QED BY <3>3, <3>4
  <2> QED BY <1>1, <2>1 DEF Sound, Queued, WaitIn
<1>7. Sound(k2, X)
  BY <1>4, <1>5, <1>6 DEF Sound
<1>8. Same(k, k2)
  BY <1>1 DEF Same
<1> QED BY <1>1, <1>7, <1>8 DEF k2, pri2

(* W tells what each task waits for.  The priorities that decide that of   *)
(* t are its initial one and those of the tasks that wait for list.        *)
Donors(W, list) == {u \in Task : W[u] \in ToSet(list)}

Shares(k, W, t, list) == {ipriority[t]} \cup {k.priority[u] : u \in Donors(W, list)}

Least(v, S) == v \in S /\ \A x \in S : v <= x

Agrees(k, X, W) == \A u \in Task : W[u] = IF u \in X THEN "none" ELSE k.wspec[u]

(* The heads of the sorted queues are enough to find it.                   *)
LEMMA Inherited ==
  ASSUME NEW X \in SUBSET Task, NEW k, Sound(k, X), NEW t \in Task, NEW list \in Queue(Pis),
         ipriority \in PriorityMap
  PROVE  /\ inherited(k, t, list) \in Priority
         /\ \A W : Agrees(k, X, W) => Least(inherited(k, t, list), Shares(k, W, t, list))
<1> DEFINE H == {ipriority[t]} \cup
                {pis_head_pri(k, p) : p \in {q \in ToSet(list) : pis_waited(k, q)}}
           m == Min(H)
<1>0. k.priority \in PriorityMap /\ ToSet(list) \subseteq Pis
  BY KernelFields, QueueEntries DEF Sound
<1>1. ASSUME NEW p \in ToSet(list), pis_waited(k, p)
      PROVE  /\ Head(k.wait_queue[p]) \in Task \ X /\ k.wspec[Head(k.wait_queue[p])] = p
             /\ \A u \in Task \ X : k.wspec[u] = p => pis_head_pri(k, p) <= k.priority[u]
  <2> DEFINE q == k.wait_queue[p]
             h == Head(q)
  <2>1. /\ q \in Queue(Task) /\ SortedBy(q, k.priority) /\ q # << >>
        /\ \A u : u \in ToSet(q) <=> u \in Task \ X /\ k.wspec[u] = p
    BY <1>0, <1>1, InQueue, PisAreObjects DEF pis_waited
  <2>2. h \in ToSet(q) /\ \A u \in ToSet(q) : k.priority[h] <= k.priority[u]
    <3> HIDE DEF q
    <3> QED BY <1>0, <2>1, HeadLeast
  <2> QED BY <2>1, <2>2 DEF pis_head_pri
<1>2. H \in SUBSET Nat /\ H # {} /\ H \subseteq Priority
  <2>1. \A p \in ToSet(list) : pis_waited(k, p) => pis_head_pri(k, p) \in Priority
    BY <1>0, <1>1 DEF pis_head_pri, PriorityMap
  <2> QED BY <2>1, PriorityRange DEF PriorityMap
<1>3. m \in H /\ \A n \in H : m <= n
  <2> HIDE DEF H
  <2> QED BY <1>2, MinOfNaturals
<1>4. m \in Priority /\ m \in Nat
  BY <1>2, <1>3
<1>5. inherited(k, t, list) = m
  BY DEF inherited
<1> HIDE DEF m
<1>6. ASSUME NEW W, Agrees(k, X, W) PROVE Least(m, Shares(k, W, t, list))
  <2>0. \A u \in Task : W[u] \in ToSet(list) <=> u \in Task \ X /\ k.wspec[u] \in ToSet(list)
    BY <1>0, <1>6, PisAreObjects DEF Agrees
  <2>1. m \in Shares(k, W, t, list)
    <3>1. CASE m = ipriority[t]
      BY <3>1 DEF Shares
    <3>2. CASE m # ipriority[t]
      <4>1. PICK p \in ToSet(list) : pis_waited(k, p) /\ m = pis_head_pri(k, p)
        BY <1>3, <3>2
      <4>2. Head(k.wait_queue[p]) \in Donors(W, list)
        BY <1>1, <2>0, <4>1 DEF Donors
      <4> QED BY <4>1, <4>2 DEF Shares, pis_head_pri
    <3> QED BY <3>1, <3>2
  <2>2. ASSUME NEW x \in Shares(k, W, t, list) PROVE m <= x
    <3>1. CASE x = ipriority[t]
      BY <1>3, <3>1
    <3>2. CASE x # ipriority[t]
      <4>1. PICK u \in Donors(W, list) : x = k.priority[u]
        BY <2>2, <3>2 DEF Shares
      <4> DEFINE p == k.wspec[u]
      <4>2. u \in Task \ X /\ p \in ToSet(list)
        BY <2>0, <4>1 DEF Donors
      <4>3. pis_waited(k, p)
        <5>0. p \in Gcb
          BY <1>0, <4>2, PisAreObjects
        <5>1. u \in ToSet(k.wait_queue[p])
          BY <4>2, <5>0, InQueue
        <5> QED BY <5>1 DEF pis_waited, ToSet
      <4>4. pis_head_pri(k, p) \in H /\ pis_head_pri(k, p) <= k.priority[u]
        BY <1>1, <4>2, <4>3
      <4>5. m <= pis_head_pri(k, p)
        BY <1>3, <4>4
      <4>6. pis_head_pri(k, p) \in Nat /\ k.priority[u] \in Nat
        BY <1>0, <1>2, <4>2, <4>4, PriorityRange DEF PriorityMap
      <4> QED BY <1>4, <4>1, <4>4, <4>5, <4>6
    <3> QED BY <3>1, <3>2
  <2> QED BY <2>1, <2>2 DEF Least
<1> QED BY <1>4, <1>5, <1>6

-----------------------------------------------------------------------------
(* What change_made makes of the change c, of a task that waits or not,    *)
(* and what is left to be done then.                                       *)
Follows(c, d) ==
  LET t == c.t
      o == c.k.pistsk[c.k.wspec[t]]
      left == inherited(d.k, o, d.k.pislist[o])
  IN  IF c.k.state[t] \notin TS_WAIT THEN d.t = NoTask
      ELSE IF d.k.priority[o] > c.pri THEN d.t = o /\ d.pri = c.pri
      ELSE IF d.k.priority[o] = c.k.priority[t] /\ left # d.k.priority[o]
           THEN d.t = o /\ d.pri = left
      ELSE d.t = NoTask

(* It changes one priority and leaves the queues sound.                    *)
LEMMA ChangeMade ==
  ASSUME NEW X \in SUBSET Task, NEW c, Sound(c.k, X), c.t \in Task \ X, c.pri \in Priority,
         c.k.state[c.t] \in TS_WAIT => c.k.pistsk[c.k.wspec[c.t]] \in Task,
         ipriority \in PriorityMap
  PROVE  LET d == change_made(c) IN
         /\ d \in [k : KernelStates, t : Task \cup {NoTask}, pri : Priority]
         /\ Sound(d.k, X)
         /\ Same(c.k, d.k)
         /\ d.k.priority = [c.k.priority EXCEPT ![c.t] = c.pri]
         /\ Follows(c, d)
<1> DEFINE k   == c.k
           t   == c.t
           p   == c.pri
           old == k.priority[t]
           k1  == WithPriority(k, t, p)
           d   == change_made(c)
<1>0. /\ k \in KernelStates /\ t \in Task /\ t # NoTask
      /\ k.state \in [Task -> TSTAT] /\ k.priority \in PriorityMap /\ 0 \in Priority
  BY KernelFields, ReadyQueueAssumption DEF Sound, Priority
<1>a. Sound(k, X) /\ t \in Task \ X /\ p \in Priority
      /\ (k.state[t] \in TS_WAIT => k.pistsk[k.wspec[t]] \in Task)
  OBVIOUS
<1> HIDE DEF k, t, p
<1>1. /\ k1.state = k.state /\ k1.wspec = k.wspec /\ k1.ready_queue = k.ready_queue
      /\ k1.priority[t] = p /\ k1.pistsk = k.pistsk
  BY <1>0, <1>a DEF KernelStates, WithPriority, PriorityMap
<1>2. CASE k.state[t] = "READY"
  <2> DEFINE k2 == Requeue(k1, t, old)
  <2>1. d = no_change(k2)
    BY <1>0, <1>1, <1>2 DEF change_made, Requeue, WithPriority, k, t, p
  <2>2. Sound(k2, X) /\ Same(k, k2) /\ k2.priority = [k.priority EXCEPT ![t] = p]
    BY <1>a, <1>2, ChangedReady
  <2> HIDE DEF k2
  <2>3. d.k = k2 /\ d.t = NoTask /\ d.pri = 0 /\ d = [k |-> k2, t |-> NoTask, pri |-> 0]
    BY <2>1 DEF no_change, to_change
  <2>4. Follows(c, d)
    BY <1>2, <2>3 DEF Follows, TS_WAIT, k, t
  <2>5. k2 \in KernelStates
    BY <2>2 DEF Sound
  <2> QED BY <1>0, <2>2, <2>3, <2>4, <2>5 DEF k, t, p
<1>3. CASE k.state[t] \notin TS_WAIT \cup {"READY"}
  <2>1. d = no_change(k1)
    BY <1>0, <1>1, <1>3 DEF change_made, WithPriority, k, t, p
  <2>2. Sound(k1, X) /\ Same(k, k1) /\ k1.priority = [k.priority EXCEPT ![t] = p]
    BY <1>a, <1>3, ChangedOther
  <2> HIDE DEF k1
  <2>3. d.k = k1 /\ d.t = NoTask /\ d.pri = 0 /\ d = [k |-> k1, t |-> NoTask, pri |-> 0]
    BY <2>1 DEF no_change, to_change
  <2>4. Follows(c, d)
    BY <1>3, <2>3 DEF Follows, k, t
  <2>5. k1 \in KernelStates
    BY <2>2 DEF Sound
  <2> QED BY <1>0, <2>2, <2>3, <2>4, <2>5 DEF k, t, p
<1>4. CASE k.state[t] \in TS_WAIT
  <2> DEFINE k2 == Moved(k1, t)
             o  == k.pistsk[k.wspec[t]]
             left == inherited(k2, o, k2.pislist[o])
  <2>1. d = pis_chg_pri(k1, t, old)
    <3>1. k.wspec[t] \in Pis /\ k.state[t] # "READY"
      BY <1>a, <1>4, WaitsForPis DEF TS_WAIT
    <3> QED BY <1>0, <1>1, <1>4, <3>1 DEF change_made, WithPriority, k, t, p
  <2>2. Sound(k2, X) /\ Same(k, k2) /\ k2.priority = [k.priority EXCEPT ![t] = p]
    BY <1>a, <1>4, ChangedWaiting
  <2>3. k2.priority = k1.priority /\ k2 \in KernelStates
    BY <1>0, <2>2 DEF Sound, WithPriority, KernelStates
  <2>4. d = IF k2.priority[o] > p THEN to_change(k2, o, p)
            ELSE IF k2.priority[o] = old THEN reset_priority(k2, o)
            ELSE no_change(k2)
    BY <1>1, <2>1, <2>3 DEF pis_chg_pri, Moved
  <2>5. o \in Task /\ k2.pislist[o] \in Queue(Pis)
    BY <1>a, <1>4, <2>3, KernelFields
  <2>6. left \in Priority
    BY <2>2, <2>5, Inherited
  <2>7. reset_priority(k2, o) = IF left # k2.priority[o] THEN to_change(k2, o, left) ELSE no_change(k2)
    BY DEF reset_priority
  <2> HIDE DEF k2, left
  <2>8. d.k = k2 /\ d \in [k : KernelStates, t : Task \cup {NoTask}, pri : Priority]
    <3> HIDE DEF d, o
    <3> QED BY <1>0, <1>a, <2>3, <2>4, <2>5, <2>6, <2>7 DEF to_change, no_change
  <2>9. Follows(c, d)
    <3>1. left = inherited(d.k, o, d.k.pislist[o])
      BY <2>8 DEF left
    <3>2. \/ k2.priority[o] > p /\ d.t = o /\ d.pri = p
          \/ ~(k2.priority[o] > p) /\ k2.priority[o] = old /\ left # k2.priority[o] /\ d.t = o /\ d.pri = left
          \/ ~(k2.priority[o] > p) /\ ~(k2.priority[o] = old /\ left # k2.priority[o]) /\ d.t = NoTask
      <4> HIDE DEF d, o, old
      <4> QED BY <2>4, <2>7 DEF to_change, no_change
    <3> HIDE DEF d
    <3> QED BY <1>4, <2>8, <3>1, <3>2 DEF Follows, k, t, p
  <2> QED BY <2>2, <2>8, <2>9 DEF k, t, p
<1> QED BY <1>2, <1>3, <1>4

-----------------------------------------------------------------------------
(***************************************************************************)
(* The changes along a chain of waiting tasks.                             *)
(***************************************************************************)
(* The tasks that wait in T wait for a semaphore of a task in T.           *)
Closed(k, X, T) ==
  /\ T \subseteq Task \ X
  /\ \A u \in T : k.state[u] \in TS_WAIT => k.pistsk[k.wspec[u]] \in T

(* The changes that may follow one in the state k of a task in T.          *)
ChangesOf(k, X, T) ==
  {c \in [k : KernelStates, t : T \cup {NoTask}, pri : Priority] :
     /\ Sound(c.k, X) /\ Same(k, c.k)
     /\ \A u \in Task \ T : c.k.priority[u] = k.priority[u]}

(* change_made goes from one of them to another.                           *)
LEMMA ChangesStay ==
  ASSUME NEW X \in SUBSET Task, NEW k, NEW T, Closed(k, X, T), ipriority \in PriorityMap,
         NEW c \in ChangesOf(k, X, T)
  PROVE  /\ change_made(c) \in ChangesOf(k, X, T)
         /\ c.t = NoTask => change_made(c) = c
         /\ c.t # NoTask =>
              /\ c.t \in T /\ c.pri \in Priority
              /\ change_made(c).k.priority = [c.k.priority EXCEPT ![c.t] = c.pri]
              /\ Follows(c, change_made(c))
<1>0. /\ c.k \in KernelStates /\ c.t \in T \cup {NoTask} /\ c.pri \in Priority
      /\ Sound(c.k, X) /\ Same(k, c.k)
      /\ \A u \in Task \ T : c.k.priority[u] = k.priority[u]
  BY DEF ChangesOf
<1>1. CASE c.t = NoTask
  <2>1. change_made(c) = c
    BY <1>1 DEF change_made
  <2> QED BY <1>1, <2>1
<1>2. CASE c.t # NoTask
  <2> DEFINE d == change_made(c)
  <2>1. /\ c.t \in Task \ X
        /\ c.k.state[c.t] \in TS_WAIT => c.k.pistsk[c.k.wspec[c.t]] \in T
        /\ T \subseteq Task
    BY <1>0, <1>2 DEF Closed, Same
  <2>2. /\ d \in [k : KernelStates, t : Task \cup {NoTask}, pri : Priority]
        /\ Sound(d.k, X)
        /\ Same(c.k, d.k)
        /\ d.k.priority = [c.k.priority EXCEPT ![c.t] = c.pri]
        /\ Follows(c, d)
    BY <1>0, <2>1, ChangeMade
  <2> HIDE DEF d
  <2>3. d.t \in T \cup {NoTask}
    BY <2>1, <2>2 DEF Follows
  <2>4. Same(k, d.k)
    BY <1>0, <2>2 DEF Same
  <2>5. \A u \in Task \ T : d.k.priority[u] = k.priority[u]
    BY <1>0, <1>2, <2>2, KernelFields DEF PriorityMap
  <2>6. d \in [k : KernelStates, t : T \cup {NoTask}, pri : Priority]
    BY <2>2, <2>3
  <2>7. d \in ChangesOf(k, X, T)
    BY <2>2, <2>4, <2>5, <2>6 DEF ChangesOf
  <2> QED BY <1>0, <1>2, <2>2, <2>7 DEF d
<1> QED BY <1>1, <1>2

(* A change of a priority leaves the queues sound, and the priorities of   *)
(* the tasks that the chain does not reach.                                *)
LEMMA PrioritiesChanged ==
  ASSUME NEW X \in SUBSET Task, NEW T, NEW c, Sound(c.k, X), Closed(c.k, X, T),
         c \in [k : KernelStates, t : T \cup {NoTask}, pri : Priority],
         ipriority \in PriorityMap
  PROVE  /\ Sound(change_priority(c), X)
         /\ Same(c.k, change_priority(c))
         /\ \A u \in Task \ T : change_priority(c).priority[u] = c.k.priority[u]
<1> DEFINE S == ChangesOf(c.k, X, T)
<1>1. c \in S
  BY DEF ChangesOf, Same
<1>2. \A x \in S : change_made(x) \in S
  BY ChangesStay
<1> HIDE DEF S
<1>3. PICK after \in [0 .. MAX_CHAIN -> S] : change_priority(c) = after[MAX_CHAIN].k
  BY <1>1, <1>2, ChangeWalk
<1>4. after[MAX_CHAIN] \in S
  BY <1>3, PriSemAssumption
<1> QED BY <1>3, <1>4 DEF S, ChangesOf

-----------------------------------------------------------------------------
(***************************************************************************)
(* Priorities are inherited exactly along the chain.                       *)
(***************************************************************************)
StrictOrder ==
  /\ \A p \in Pis : <<p, p>> \notin IsBefore
  /\ \A p, q, r \in Pis : <<p, q>> \in IsBefore /\ <<q, r>> \in IsBefore => <<p, r>> \in IsBefore

(* u waits for a semaphore that one task in A has, and that is behind all  *)
(* that u has.                                                             *)
Link(k, A, u) ==
  LET w == k.wspec[u]
      o == k.pistsk[w]
  IN  /\ w \in ToSet(k.pislist[o])
      /\ \A v \in A \ {o} : w \notin ToSet(k.pislist[v])
      /\ \A q \in ToSet(k.pislist[u]) : <<q, w>> \in IsBefore

Links(k, A, W, T) ==
  \A u \in T : /\ u \in A /\ W[u] = k.wspec[u]
               /\ k.state[u] \in TS_WAIT => Link(k, A, u)

ExactFor(k, W, t) == Least(k.priority[t], Shares(k, W, t, k.pislist[t]))

(* Only the change that is to be made is missing.                          *)
Pending(c, A, W) ==
  /\ \A u \in A : u # c.t => ExactFor(c.k, W, u)
  /\ c.t # NoTask => Least(c.pri, Shares(c.k, W, c.t, c.k.pislist[c.t]))

Raises(c) == c.t # NoTask => c.pri < c.k.priority[c.t]

(* change_made leaves the next change pending, or none.                    *)
LEMMA PendingStays ==
  ASSUME NEW X \in SUBSET Task, NEW k, NEW T, Closed(k, X, T), ipriority \in PriorityMap,
         NEW A \in SUBSET Task, NEW W, Links(k, A, W, T), StrictOrder,
         NEW c \in ChangesOf(k, X, T), Pending(c, A, W), Agrees(k, X, W) \/ Raises(c)
  PROVE  /\ Pending(change_made(c), A, W)
         /\ Agrees(k, X, W) \/ Raises(change_made(c))
<1>1. CASE c.t = NoTask
  <2>1. change_made(c) = c
    BY <1>1, ChangesStay
  <2> QED BY <2>1
<1>2. CASE c.t # NoTask
  <2> DEFINE d  == change_made(c)
             t  == c.t
             p  == c.pri
             w  == k.wspec[t]
             o  == k.pistsk[w]
             L  == k.pislist
             k1 == c.k
             k2 == d.k
             old == k1.priority[t]
  <2>1. /\ d \in ChangesOf(k, X, T) /\ t \in T /\ p \in Priority
        /\ k2.priority = [k1.priority EXCEPT ![t] = p]
        /\ Follows(c, d)
    BY <1>2, ChangesStay
  <2>2. /\ Sound(k1, X) /\ Same(k, k1) /\ Sound(k2, X) /\ Same(k, k2)
        /\ k1 \in KernelStates /\ k2 \in KernelStates
    <3> HIDE DEF d
    <3> QED BY <2>1 DEF ChangesOf
  <2>a. k1.priority \in PriorityMap /\ k2.priority \in PriorityMap
        /\ k1.wspec \in [Task -> Pis \cup {"none"}] /\ k1.pislist \in [Task -> Queue(Pis)]
    BY <2>2, KernelFields
  <2>b. /\ k1.pislist = L /\ k2.pislist = L
        /\ k1.wspec = k.wspec /\ k1.pistsk = k.pistsk /\ k1.state = k.state
    BY <2>2 DEF Same
  <2>l. t \in T /\ p \in Priority
    BY <2>1
  <2>m. \A u \in T : /\ u \in A /\ W[u] = k.wspec[u]
                     /\ k.state[u] \in TS_WAIT => Link(k, A, u)
    BY DEF Links
  <2>n. T \subseteq Task /\ \A u \in T : k.state[u] \in TS_WAIT => k.pistsk[k.wspec[u]] \in T
    BY DEF Closed
  <2>o. Follows(c, d) /\ k2.priority = [k1.priority EXCEPT ![t] = p]
    BY <2>1
  <2>c. t \in A /\ W[t] = w /\ t \in Task
    BY <2>l, <2>m, <2>n
  <2>3. /\ k1.priority \in PriorityMap /\ k2.priority \in PriorityMap
        /\ k1.pislist = L /\ k2.pislist = L /\ L \in [Task -> Queue(Pis)]
        /\ k1.wspec = k.wspec /\ k1.pistsk = k.pistsk /\ k1.state = k.state
        /\ t \in Task /\ t \in A /\ W[t] = w /\ w \in Pis \cup {"none"} /\ T \subseteq Task
    BY <2>a, <2>b, <2>c, <2>n
  <2>4. \A u \in Task : ToSet(L[u]) \subseteq Pis
    BY <2>3, QueueEntries
  <2>d. k.state[t] \in TS_WAIT => Link(k, A, t) /\ o \in T
    BY <2>l, <2>m, <2>n
  <2>e. k.state[t] \in TS_WAIT =>
          /\ w \in ToSet(L[o]) /\ \A v \in A \ {o} : w \notin ToSet(L[v])
          /\ \A q \in ToSet(L[t]) : <<q, w>> \in IsBefore
    BY <2>d DEF Link
  <2>f. k.state[t] \notin TS_WAIT => w = "none"
    <3>1. k1.state[t] \notin TS_WAIT => k1.wspec[t] = "none"
      BY <2>2, <2>c, WaitsForPis
    <3> QED BY <2>b, <3>1
  <2>g. /\ \A u \in A : u # t => ExactFor(k1, W, u)
        /\ Least(p, Shares(k1, W, t, L[t]))
    BY <1>2, <2>3 DEF Pending
  <2>h. /\ k2.priority[t] = p /\ \A u \in Task \ {t} : k2.priority[u] = k1.priority[u]
        /\ p \in Nat /\ old \in Nat
        /\ \A u \in Task : k1.priority[u] \in Nat /\ ipriority[u] \in Nat
    BY <2>l, <2>o, <2>3, PriorityRange DEF PriorityMap
  <2>i. Raises(c) => p < old
    BY <1>2 DEF Raises
  <2>j. Follows(c, d) =
          IF k.state[t] \notin TS_WAIT THEN d.t = NoTask
          ELSE IF k2.priority[o] > p THEN d.t = o /\ d.pri = p
          ELSE IF k2.priority[o] = old /\ inherited(k2, o, L[o]) # k2.priority[o]
               THEN d.t = o /\ d.pri = inherited(k2, o, L[o])
          ELSE d.t = NoTask
    BY <2>3 DEF Follows
  <2>p. A \subseteq Task
    OBVIOUS
  <2>k. /\ Pending(d, A, W) <=> /\ \A u \in A : u # d.t => ExactFor(k2, W, u)
                                /\ d.t # NoTask => Least(d.pri, Shares(k2, W, d.t, L[d.t]))
        /\ Raises(d) <=> (d.t # NoTask => d.pri < k2.priority[d.t])
    BY <2>b DEF Pending, Raises
  <2> HIDE DEF d, t, p, w, o, L, k1, k2, old
  <2>5. t \notin Donors(W, L[t])
    <3>1. CASE k.state[t] \in TS_WAIT
      <4>1. w \in ToSet(L[t]) => w \in Pis /\ <<w, w>> \in IsBefore
        BY <2>3, <2>4, <2>e, <3>1
      <4>2. w \notin ToSet(L[t])
        BY <4>1 DEF StrictOrder
      <4> QED BY <2>3, <4>2 DEF Donors
    <3>2. CASE k.state[t] \notin TS_WAIT
      BY <2>3, <2>4, <2>f, <3>2, PisAreObjects DEF Donors
    <3> QED BY <3>1, <3>2
  <2>6. ASSUME NEW u \in A, t \notin Donors(W, L[u])
        PROVE  ExactFor(k2, W, u)
    <3>1. Shares(k2, W, u, L[u]) = Shares(k1, W, u, L[u])
      <4>1. \A v \in Donors(W, L[u]) : k2.priority[v] = k1.priority[v]
        BY <2>6, <2>h DEF Donors
      <4> QED BY <4>1 DEF Shares
    <3>2. CASE u = t
      BY <2>3, <2>g, <2>h, <3>1, <3>2 DEF ExactFor
    <3>3. CASE u # t
      BY <2>3, <2>g, <2>h, <3>1, <3>3 DEF ExactFor
    <3> QED BY <3>2, <3>3
  <2>7. CASE k.state[t] \notin TS_WAIT
    <3>1. \A u \in A : t \notin Donors(W, L[u])
      BY <2>3, <2>4, <2>7, <2>f, PisAreObjects DEF Donors
    <3>2. d.t = NoTask
      BY <2>o, <2>7, <2>j
    <3>3. Pending(d, A, W) /\ Raises(d)
      BY <2>6, <2>k, <3>1, <3>2
    <3> QED BY <3>3 DEF d
  <2>8. CASE k.state[t] \in TS_WAIT
    <3> DEFINE left == inherited(k2, o, L[o])
               D    == Donors(W, L[o])
    <3>1. /\ o \in T /\ o \in A /\ o \in Task /\ w \in ToSet(L[o])
          /\ \A v \in A \ {o} : w \notin ToSet(L[v])
      <4>1. o \in T
        BY <2>8, <2>d
      <4> QED BY <2>8, <2>e, <2>m, <2>n, <4>1
    <3>2. \A u \in A \ {o} : t \notin Donors(W, L[u])
      BY <2>3, <3>1 DEF Donors
    <3>3. t \in D /\ o # t
      BY <2>3, <2>5, <3>1 DEF Donors
    <3>4. \A u \in A \ {o} : ExactFor(k2, W, u)
      BY <2>6, <3>2
    <3>5. /\ k2.priority[t] = p /\ k2.priority[o] = k1.priority[o]
          /\ \A u \in Task \ {t} : k2.priority[u] = k1.priority[u]
          /\ p \in Nat /\ old \in Nat /\ k1.priority[o] \in Nat
          /\ \A u \in Task : k1.priority[u] \in Nat /\ ipriority[u] \in Nat
      BY <2>h, <3>1, <3>3
    <3>6. /\ k1.priority[o] \in Shares(k1, W, o, L[o])
          /\ \A x \in Shares(k1, W, o, L[o]) : k1.priority[o] <= x
      BY <2>3, <2>g, <3>1, <3>3 DEF ExactFor, Least
    <3>7. /\ k1.priority[o] <= ipriority[o]
          /\ \A u \in D : k1.priority[o] <= k1.priority[u] /\ u \in Task
      BY <3>6 DEF Shares, Donors
    <3>8. Agrees(k, X, W) => Least(left, Shares(k2, W, o, L[o]))
      <4>1. Agrees(k, X, W) => Agrees(k2, X, W)
        BY <2>2 DEF Agrees, Same
      <4>2. L[o] \in Queue(Pis)
        BY <2>3, <3>1
      <4> QED BY <2>2, <3>1, <4>1, <4>2, Inherited
    <3>9. IF k2.priority[o] > p THEN d.t = o /\ d.pri = p
          ELSE IF k2.priority[o] = old /\ left # k2.priority[o] THEN d.t = o /\ d.pri = left
          ELSE d.t = NoTask
      BY <2>o, <2>8, <2>j
    <3> HIDE DEF left
    <3>10. CASE k2.priority[o] > p
      <4>1. ASSUME NEW x \in Shares(k2, W, o, L[o]) PROVE p <= x
        <5>1. CASE x = ipriority[o]
          BY <3>1, <3>5, <3>7, <3>10, <5>1
        <5>2. CASE x # ipriority[o]
          <6>1. PICK u \in D : x = k2.priority[u]
            BY <4>1, <5>2 DEF Shares
          <6>2. u \in Task /\ k1.priority[o] <= k1.priority[u]
            BY <3>7
          <6> QED BY <3>1, <3>5, <3>10, <6>1, <6>2
        <5> QED BY <5>1, <5>2
      <4>2. p \in Shares(k2, W, o, L[o])
        BY <3>3, <3>5 DEF Shares
      <4>3. d.t = o /\ d.pri = p
        BY <3>9, <3>10
      <4>4. Least(p, Shares(k2, W, o, L[o]))
        BY <4>1, <4>2 DEF Least
      <4>5. Pending(d, A, W)
        BY <2>k, <3>4, <4>3, <4>4
      <4>6. Raises(d)
        BY <2>k, <3>5, <3>10, <4>3
      <4> QED BY <4>5, <4>6 DEF d
    <3>11. CASE k2.priority[o] <= p /\ k2.priority[o] = old
      <4>1. ~Raises(c)
        BY <2>i, <3>5, <3>11
      <4>2. Agrees(k, X, W) /\ Least(left, Shares(k2, W, o, L[o]))
        BY <3>8, <4>1
      <4>3. ~(k2.priority[o] > p)
        BY <3>5, <3>11
      <4>4. CASE left # k2.priority[o]
        <5>1. d.t = o /\ d.pri = left
          BY <3>9, <3>11, <4>3, <4>4
        <5>2. Pending(d, A, W)
          BY <2>k, <3>4, <4>2, <5>1
        <5> QED BY <4>2, <5>2 DEF d
      <4>5. CASE left = k2.priority[o]
        <5>1. d.t = NoTask
          BY <3>9, <4>3, <4>5
        <5>2. ExactFor(k2, W, o)
          BY <2>3, <4>2, <4>5 DEF ExactFor
        <5>3. Pending(d, A, W)
          BY <2>k, <3>4, <5>1, <5>2
        <5> QED BY <4>2, <5>3 DEF d
      <4> QED BY <4>4, <4>5
    <3>12. CASE k2.priority[o] <= p /\ k2.priority[o] # old
      <4>1. d.t = NoTask
        BY <3>5, <3>9, <3>12
      <4>2. k2.priority[o] \in Shares(k2, W, o, L[o])
        <5>1. CASE k1.priority[o] = ipriority[o]
          BY <3>5, <5>1 DEF Shares
        <5>2. CASE k1.priority[o] # ipriority[o]
          <6>1. PICK u \in D : k1.priority[o] = k1.priority[u]
            BY <3>6, <5>2 DEF Shares
          <6>2. u # t
            BY <3>5, <3>12, <6>1 DEF old
          <6>3. u \in Task \ {t}
            BY <3>7, <6>2
          <6> QED BY <3>5, <6>1, <6>3 DEF Shares
        <5> QED BY <5>1, <5>2
      <4>3. ASSUME NEW x \in Shares(k2, W, o, L[o]) PROVE k2.priority[o] <= x
        <5>1. CASE x = ipriority[o]
          BY <3>5, <3>7, <5>1
        <5>2. CASE x # ipriority[o]
          <6>1. PICK u \in D : x = k2.priority[u]
            BY <4>3, <5>2 DEF Shares
          <6>2. u \in Task /\ k1.priority[o] <= k1.priority[u]
            BY <3>7
          <6> QED BY <3>5, <3>12, <6>1, <6>2
        <5> QED BY <5>1, <5>2
      <4>4. ExactFor(k2, W, o)
        BY <2>3, <4>2, <4>3 DEF ExactFor, Least
      <4>5. Pending(d, A, W) /\ Raises(d)
        BY <2>k, <3>4, <4>1, <4>4
      <4> QED BY <4>5 DEF d
    <3>13. k2.priority[o] > p \/ k2.priority[o] <= p
      BY <3>5
    <3> QED BY <3>10, <3>11, <3>12, <3>13
  <2> QED BY <2>7, <2>8
<1> QED BY <1>1, <1>2

(* The chain has reached n tasks, each of which waits for a semaphore that *)
(* the next has or that is before one of those.                            *)
Reaches(k, v, t) ==
  /\ k.wspec[v] \in Pis
  /\ \A q \in ToSet(k.pislist[v]) : <<q, k.wspec[v]>> \in IsBefore
  /\ \E q \in ToSet(k.pislist[t]) : q = k.wspec[v] \/ <<k.wspec[v], q>> \in IsBefore

Visits(k, t, n) ==
  \E V \in SUBSET Task :
    /\ IsFiniteSet(V) /\ Cardinality(V) = n
    /\ t \notin V
    /\ \A v \in V : Reaches(k, v, t)

(* It never comes back to a task.                                          *)
LEMMA VisitsOneMore ==
  ASSUME NEW X \in SUBSET Task, NEW k, Sound(k, X), NEW t \in Task, NEW n \in Nat, StrictOrder,
         Visits(k, t, n), NEW A, k.state[t] \in TS_WAIT, Link(k, A, t),
         k.pistsk[k.wspec[t]] \in Task
  PROVE  Visits(k, k.pistsk[k.wspec[t]], n + 1)
<1> DEFINE w == k.wspec[t]
           o == k.pistsk[w]
<1>1. PICK V \in SUBSET Task : /\ IsFiniteSet(V) /\ Cardinality(V) = n /\ t \notin V
                              /\ \A v \in V : Reaches(k, v, t)
  BY DEF Visits
<1>2. /\ w \in Pis /\ w \in ToSet(k.pislist[o])
      /\ \A q \in ToSet(k.pislist[t]) : <<q, w>> \in IsBefore
      /\ ToSet(k.pislist[t]) \subseteq Pis /\ ToSet(k.pislist[o]) \subseteq Pis
  BY WaitsForPis, KernelFields, QueueEntries DEF Link, Sound
<1>3. \A v \in V : k.wspec[v] \in Pis /\ <<k.wspec[v], w>> \in IsBefore
  BY <1>1, <1>2 DEF Reaches, StrictOrder
<1>4. \A v \in V \cup {t} : Reaches(k, v, o)
  BY <1>1, <1>2, <1>3 DEF Reaches
<1>5. o \notin V \cup {t}
  <2>1. ASSUME o \in V PROVE FALSE
    <3> DEFINE v == k.wspec[o]
    <3>1. v \in Pis /\ <<v, w>> \in IsBefore /\ <<w, v>> \in IsBefore /\ w \in Pis
      BY <1>1, <1>2, <1>3, <2>1 DEF Reaches
    <3> HIDE DEF v, w
    <3>2. <<v, v>> \in IsBefore
      BY <3>1 DEF StrictOrder
    <3> QED BY <3>1, <3>2 DEF StrictOrder
  <2>2. o # t
    BY <1>2 DEF StrictOrder
  <2> QED BY <2>1, <2>2
<1>6. IsFiniteSet(V \cup {t}) /\ Cardinality(V \cup {t}) = n + 1
  BY <1>1, FS_AddElement
<1>7. V \cup {t} \in SUBSET Task
  BY <1>1
<1> QED BY <1>4, <1>5, <1>6, <1>7 DEF Visits
(* The changes end, and then every priority is inherited exactly.          *)
LEMMA ChangesExact ==
  ASSUME NEW X \in SUBSET Task, NEW T, NEW c, Sound(c.k, X), Closed(c.k, X, T),
         c \in [k : KernelStates, t : T \cup {NoTask}, pri : Priority],
         ipriority \in PriorityMap, StrictOrder,
         IsFiniteSet(Task), Cardinality(Task) <= MAX_CHAIN,
         NEW A \in SUBSET Task, NEW W, Links(c.k, A, W, T),
         Pending(c, A, W), Agrees(c.k, X, W) \/ Raises(c)
  PROVE  \A u \in A : ExactFor(change_priority(c), W, u)
<1> DEFINE k == c.k
           S == {x \in ChangesOf(k, X, T) : Pending(x, A, W) /\ (Agrees(k, X, W) \/ Raises(x))}
           N == MAX_CHAIN
<1>1. c \in S
  BY DEF ChangesOf, Same
<1>2. \A x \in S : change_made(x) \in S
  BY ChangesStay, PendingStays
<1>3. PICK after \in [0 .. N -> S] :
        /\ change_priority(c) = after[N].k
        /\ after[0] = c
        /\ \A n \in 1 .. N : after[n] = change_made(after[n - 1])
  <2> HIDE DEF S
  <2> QED BY <1>1, <1>2, ChangeWalk
<1>4. \A n \in 0 .. N : /\ after[n] \in ChangesOf(k, X, T)
                        /\ Same(k, after[n].k)
                        /\ Pending(after[n], A, W)
  BY <1>3 DEF ChangesOf
<1>5. N \in Nat /\ N \in 0 .. N
  BY PriSemAssumption
<1> DEFINE P == [n \in 0 .. N |-> after[n].t = NoTask \/ Visits(k, after[n].t, n)]
<1> HIDE DEF S
<1>6. P \in [0 .. N -> BOOLEAN]
      /\ \A n \in 0 .. N : P[n] <=> (after[n].t = NoTask \/ Visits(k, after[n].t, n))
  OBVIOUS
<1>7. P[0]
  <2>1. /\ {} \in SUBSET Task /\ IsFiniteSet({}) /\ Cardinality({}) = 0
        /\ after[0].t \notin {} /\ \A v \in {} : Reaches(k, v, after[0].t)
    BY FS_EmptySet
  <2>2. Visits(k, after[0].t, 0)
    BY <2>1 DEF Visits
  <2> QED BY <1>5, <1>6, <2>2
<1>8. ASSUME NEW n \in 1 .. N, P[n - 1] PROVE P[n]
  <2> DEFINE x == after[n - 1]
             d == after[n]
             w == k.wspec[x.t]
  <2>1. n - 1 \in 0 .. N /\ n \in 0 .. N /\ n - 1 \in Nat /\ (n - 1) + 1 = n
    BY <1>5
  <2>2. x \in ChangesOf(k, X, T) /\ d = change_made(x) /\ Same(k, x.k)
    BY <1>3, <1>4, <2>1
  <2>3. x.t = NoTask \/ Visits(k, x.t, n - 1)
    BY <1>6, <1>8, <2>1
  <2> HIDE DEF x, d, w
  <2>4. CASE x.t = NoTask
    <3>1. d = x
      BY <2>2, <2>4 DEF change_made
    <3>2. d.t = NoTask
      BY <2>4, <3>1
    <3> QED BY <1>6, <2>1, <3>2 DEF d
  <2>5. CASE x.t # NoTask
    <3>0. x.t \in T /\ Follows(x, change_made(x))
      BY <2>2, <2>5, ChangesStay
    <3>1. x.t \in T /\ Follows(x, d)
      BY <2>2, <3>0
    <3>2. CASE d.t = NoTask
      BY <1>6, <2>1, <3>2 DEF d
    <3>3. CASE d.t # NoTask
      <4>1. k.state[x.t] \in TS_WAIT /\ d.t = k.pistsk[w]
        BY <2>2, <3>1, <3>3 DEF Follows, Same, w
      <4>a. k.pistsk[w] \in T /\ T \subseteq Task
        BY <3>1, <4>1 DEF Closed, w
      <4>b. Link(k, A, x.t)
        BY <3>1, <4>1 DEF Links
      <4>2. k.pistsk[w] \in Task /\ x.t \in Task /\ Link(k, A, x.t)
        BY <3>1, <4>a, <4>b
      <4>3. Visits(k, k.pistsk[w], (n - 1) + 1)
        BY <2>1, <2>3, <2>5, <4>1, <4>2, VisitsOneMore DEF w
      <4>4. Visits(k, d.t, n)
        BY <2>1, <4>1, <4>3
      <4> QED BY <1>6, <2>1, <4>4 DEF d
    <3> QED BY <3>2, <3>3
  <2> QED BY <2>4, <2>5
<1> HIDE DEF P
<1>9. P[N]
  BY <1>5, <1>6, <1>7, <1>8, Along
<1>10. after[N].t = NoTask
  <2> SUFFICES ASSUME after[N].t # NoTask PROVE FALSE
    OBVIOUS
  <2>1. Visits(k, after[N].t, N)
    BY <1>5, <1>6, <1>9
  <2>2. after[N].t \in Task
    BY <1>4, <1>5 DEF ChangesOf, Closed
  <2>3. PICK V \in SUBSET Task : IsFiniteSet(V) /\ Cardinality(V) = N /\ after[N].t \notin V
    BY <2>1 DEF Visits
  <2>4. Cardinality(V \cup {after[N].t}) = N + 1
    BY <2>3, FS_AddElement
  <2>5. V \cup {after[N].t} \in SUBSET Task
    BY <2>2, <2>3
  <2>6. Cardinality(V \cup {after[N].t}) <= Cardinality(Task) /\ Cardinality(Task) \in Nat
    BY <2>5, FS_Subset, FS_CardinalityType
  <2> QED BY <1>5, <2>4, <2>6
<1>11. \A u \in A : u # after[N].t
  BY <1>10, ReadyQueueAssumption
<1> QED BY <1>3, <1>4, <1>5, <1>11 DEF Pending
-----------------------------------------------------------------------------
(***************************************************************************)
(* Semaphores and the tasks that have them.                                *)
(***************************************************************************)
AliveIn(k, u) == k.state[u] \in {"READY"} \cup TS_WAIT \cup TS_SUSPEND

(* What each task outside X waits for.                                     *)
WaitOf(k, X) == [u \in Task |-> IF u \in X THEN "none" ELSE k.wspec[u]]

(* The semaphores in P exist.  The tasks in X are about to end, and have   *)
(* given back those in D.                                                  *)
Listed(k, P, X, D, p) ==
  \A u \in Task : k.pistsk[p] = u <=> p \in ToSet(k.pislist[u]) /\ ~(u \in X /\ p \in D)

Held(k, P) ==
  /\ \A u \in Task : ToSet(k.pislist[u]) \subseteq P
  /\ \A u \in Task : k.wspec[u] # "none" => k.wspec[u] \in P
  /\ \A u \in Task : k.wspec[u] # "none" =>
       \A q \in ToSet(k.pislist[u]) : <<q, k.wspec[u]>> \in IsBefore

HasOwner(k, X, p) ==
  /\ k.pistsk[p] # NoTask => AliveIn(k, k.pistsk[p])
  /\ \A u \in Task \ X : k.wspec[u] = p => k.pistsk[p] # NoTask

Owned(k, P, X, D) ==
  /\ Held(k, P)
  /\ \A p \in P : Listed(k, P, X, D, p) /\ HasOwner(k, X, p)

(* The same, but for p, which no task has.                                 *)
OwnedBut(k, P, X, D, p) ==
  /\ Held(k, P)
  /\ \A q \in P \ {p} : Listed(k, P, X, D, q) /\ HasOwner(k, X, q)
  /\ \A u \in Task \ X : p \notin ToSet(k.pislist[u])

AllExact(k, X) == \A u \in Task \ X : AliveIn(k, u) => ExactFor(k, WaitOf(k, X), u)

(* The list of a task that takes p.                                        *)
LEMMA Taken ==
  ASSUME NEW list \in Queue(Pis), NEW p \in Pis \ ToSet(list)
  PROVE  <<p>> \o list \in Queue(Pis) /\ ToSet(<<p>> \o list) = {p} \cup ToSet(list)
<1>1. <<p>> \in Queue(Pis) /\ ToSet(<<p>>) = {p}
  BY DEF Queue, IsInjective, ToSet
<1> QED BY <1>1, QueueConcat

(* The outcome of signal for a semaphore that is waited for, or not.       *)
Hands(k, k2, p, h) ==
  /\ k2.state = [k.state EXCEPT ![h] = IF k.state[h] = "WAIT" THEN "READY" ELSE "SUSPEND"]
  /\ k2.wspec = [k.wspec EXCEPT ![h] = "none"]
  /\ k2.priority = k.priority
  /\ k2.pistsk = [k.pistsk EXCEPT ![p] = h]
  /\ k2.pislist = [k.pislist EXCEPT ![h] = <<p>> \o k.pislist[h]]

GivesBack(k, k2, p) == k2 = [k EXCEPT !.pistsk[p] = NoTask]

(* signal hands p to the first that waits for it.                          *)
LEMMA Signalled ==
  ASSUME NEW X \in SUBSET Task, NEW k, Sound(k, X), NEW p \in Pis,
         \A u \in Task \ X : p \notin ToSet(k.pislist[u])
  PROVE  /\ Sound(signal(k, p), X)
         /\ \/ \E h \in Task \ X :
                 /\ k.state[h] \in TS_WAIT /\ k.wspec[h] = p
                 /\ \A u \in Task \ X : k.wspec[u] = p => k.priority[h] <= k.priority[u]
                 /\ Hands(k, signal(k, p), p, h)
            \/ (\A u \in Task \ X : k.wspec[u] # p) /\ GivesBack(k, signal(k, p), p)
<1> DEFINE q  == k.wait_queue[p]
           h  == Head(q)
           k2 == signal(k, p)
<1>0. /\ k \in KernelStates /\ q \in Queue(Task) /\ SortedBy(q, k.priority)
      /\ \A u : u \in ToSet(q) <=> u \in Task \ X /\ k.wspec[u] = p
      /\ k.pistsk \in [Pis -> Task \cup {NoTask}] /\ k.pislist \in [Task -> Queue(Pis)]
  BY InQueue, KernelFields, PisAreObjects DEF Sound
<1>1. CASE q # << >>
  <2> DEFINE k1 == released(k, h)
  <2>0. k.priority \in PriorityMap
    BY <1>0, KernelFields
  <2>1. h \in ToSet(q) /\ \A u \in ToSet(q) : k.priority[h] <= k.priority[u]
    <3> HIDE DEF q
    <3> QED BY <1>0, <1>1, <2>0, HeadLeast
  <2>2. h \in Task \ X /\ k.wspec[h] = p /\ k.state[h] \in TS_WAIT
    <3>1. h \in Task \ X /\ k.wspec[h] = p
      BY <1>0, <2>1
    <3> QED BY <3>1, PisAreObjects DEF Sound, Queued
  <2>3. Sound(k1, X) /\ WaitEnds(k, h, k1)
    BY <2>2, Released
  <2>4. ASSUME NEW u \in Task \ X, k.wspec[u] = p PROVE k.priority[h] <= k.priority[u]
    <3>1. u \in ToSet(q)
      BY <1>0, <2>4
    <3> QED BY <2>1, <3>1
  <2>5. k2 = [k1 EXCEPT !.pistsk[p] = h, !.pislist[h] = <<p>> \o @]
    BY <1>1 DEF signal, pis_waited
  <2>6. <<p>> \o k1.pislist[h] \in Queue(Pis) /\ k1.pislist[h] = k.pislist[h]
    <3>1. k1.pislist = k.pislist
      BY <2>3 DEF WaitEnds
    <3>2. k.pislist[h] \in Queue(Pis) /\ p \notin ToSet(k.pislist[h])
      BY <1>0, <2>2
    <3> QED BY <3>1, <3>2, Taken
  <2>7. k1 \in KernelStates
    BY <2>3 DEF Sound
  <2> HIDE DEF k1, k2
  <2>8. /\ k2.state = k1.state /\ k2.wspec = k1.wspec /\ k2.priority = k1.priority
        /\ k2.wait_queue = k1.wait_queue /\ k2.timer_queue = k1.timer_queue
        /\ k2.ready_queue = k1.ready_queue /\ k2.schedtsk = k1.schedtsk
        /\ k2.pistsk = [k1.pistsk EXCEPT ![p] = h]
        /\ k2.pislist = [k1.pislist EXCEPT ![h] = <<p>> \o k1.pislist[h]]
    BY <2>5, <2>7 DEF KernelStates
  <2>9. k2 \in KernelStates
    <3>1. [k1.pistsk EXCEPT ![p] = h] \in [Pis -> Task \cup {NoTask}]
      BY <2>2, <2>7, KernelFields
    <3>2. [k1.pislist EXCEPT ![h] = <<p>> \o k1.pislist[h]] \in [Task -> Queue(Pis)]
      BY <2>2, <2>6, <2>7, KernelFields
    <3>3. k2 = [k1 EXCEPT !.pistsk = [k1.pistsk EXCEPT ![p] = h],
                          !.pislist = [k1.pislist EXCEPT ![h] = <<p>> \o k1.pislist[h]]]
      BY <2>5, <2>7 DEF KernelStates
    <3> QED BY <2>7, <3>1, <3>2, <3>3 DEF KernelStates
  <2>10. Sound(k2, X)
    BY <2>3, <2>8, <2>9 DEF Sound, Scheduled, Queued, ReadyIn, WaitIn
  <2>11. Hands(k, k2, p, h)
    BY <2>3, <2>6, <2>8 DEF WaitEnds, Hands
  <2> QED BY <2>2, <2>4, <2>10, <2>11 DEF k2
<1>2. CASE q = << >>
  <2>1. k2 = [k EXCEPT !.pistsk[p] = NoTask]
    BY <1>2 DEF signal, pis_waited
  <2>2. \A u \in Task \ X : k.wspec[u] # p
    <3>1. ToSet(q) = {}
      BY <1>0, <1>2, NobodyIn DEF Queue
    <3> QED BY <1>0, <3>1
  <2> HIDE DEF k2
  <2>3. /\ k2.state = k.state /\ k2.wspec = k.wspec /\ k2.priority = k.priority
        /\ k2.wait_queue = k.wait_queue /\ k2.timer_queue = k.timer_queue
        /\ k2.ready_queue = k.ready_queue /\ k2.schedtsk = k.schedtsk
        /\ k2 \in KernelStates
    BY <1>0, <2>1 DEF KernelStates
  <2>4. Sound(k2, X)
    BY <2>3 DEF Sound, Scheduled, Queued, ReadyIn, WaitIn
  <2> QED BY <2>1, <2>2, <2>4 DEF k2, GivesBack
<1> QED BY <1>1, <1>2

-----------------------------------------------------------------------------
(***************************************************************************)
(* A semaphore is given back.                                              *)
(***************************************************************************)
(* The order in which tasks take semaphores is a strict one.               *)
LEMMA Ordered == StrictOrder
BY PriSemAssumption DEF StrictOrder

(* The head of the queue has p afterwards, or nobody has it.               *)
LEMMA SignalOwned ==
  ASSUME NEW X \in SUBSET Task, NEW k, Sound(k, X), NEW P \in SUBSET Pis, NEW p \in P, NEW D,
         OwnedBut(k, P, X, D, p)
  PROVE  Owned(signal(k, p), P, X, D \cup {p})
<1> DEFINE k2 == signal(k, p)
           E  == D \cup {p}
<1>0. /\ p \in Pis /\ Held(k, P) /\ \A u \in Task \ X : p \notin ToSet(k.pislist[u])
      /\ \A q \in P \ {p} : Listed(k, P, X, D, q) /\ HasOwner(k, X, q)
  BY DEF OwnedBut
<1>t. /\ k.state \in [Task -> TSTAT] /\ k.wspec \in [Task -> Pis \cup {"none"}]
      /\ k.pistsk \in [Pis -> Task \cup {NoTask}] /\ k.pislist \in [Task -> Queue(Pis)]
      /\ NoTask \notin Task /\ P \subseteq Pis /\ k \in KernelStates
  BY KernelFields, ReadyQueueAssumption DEF Sound
<1>e. \A q \in P \ {p} : q \in E <=> q \in D
  OBVIOUS
<1>h. /\ \A u \in Task : ToSet(k.pislist[u]) \subseteq P
      /\ \A u \in Task : k.wspec[u] # "none" => k.wspec[u] \in P
      /\ \A u \in Task : k.wspec[u] # "none" =>
           \A q \in ToSet(k.pislist[u]) : <<q, k.wspec[u]>> \in IsBefore
  BY <1>0 DEF Held
<1>1. \/ \E h \in Task \ X : k.state[h] \in TS_WAIT /\ k.wspec[h] = p /\ Hands(k, k2, p, h)
      \/ (\A u \in Task \ X : k.wspec[u] # p) /\ GivesBack(k, k2, p)
  BY <1>0, Signalled
<1> HIDE DEF k2, E
<1>2. ASSUME NEW h \in Task \ X, k.state[h] \in TS_WAIT, k.wspec[h] = p, Hands(k, k2, p, h)
      PROVE  Owned(k2, P, X, E)
  <2> DEFINE new == <<p>> \o k.pislist[h]
  <2>1. ToSet(new) = {p} \cup ToSet(k.pislist[h])
    BY <1>0, <1>t, Taken
  <2> HIDE DEF new
  <2>2. /\ k2.state = [k.state EXCEPT ![h] = IF k.state[h] = "WAIT" THEN "READY" ELSE "SUSPEND"]
        /\ k2.wspec = [k.wspec EXCEPT ![h] = "none"]
        /\ k2.pistsk = [k.pistsk EXCEPT ![p] = h]
        /\ k2.pislist = [k.pislist EXCEPT ![h] = new]
    BY <1>2 DEF Hands, new
  <2>3. /\ k2.wspec[h] = "none" /\ k2.pistsk[p] = h /\ k2.pislist[h] = new
        /\ \A u \in Task \ {h} : /\ k2.wspec[u] = k.wspec[u] /\ k2.pislist[u] = k.pislist[u]
        /\ \A q \in Pis \ {p} : k2.pistsk[q] = k.pistsk[q]
        /\ \A u \in Task : ToSet(k2.pislist[u]) =
                             IF u = h THEN {p} \cup ToSet(k.pislist[u]) ELSE ToSet(k.pislist[u])
    BY <1>t, <2>1, <2>2
  <2>4. AliveIn(k2, h) /\ \A u \in Task : AliveIn(k, u) => AliveIn(k2, u)
    BY <1>t, <2>2 DEF AliveIn, TS_WAIT, TS_SUSPEND
  <2>5. Held(k2, P)
    BY <1>h, <2>3 DEF Held
  <2>6. ASSUME NEW q \in P \ {p} PROVE Listed(k2, P, X, E, q) /\ HasOwner(k2, X, q)
    <3>1. /\ \A u \in Task : k.pistsk[q] = u <=> q \in ToSet(k.pislist[u]) /\ ~(u \in X /\ q \in D)
          /\ k.pistsk[q] # NoTask => AliveIn(k, k.pistsk[q])
          /\ \A u \in Task \ X : k.wspec[u] = q => k.pistsk[q] # NoTask
      BY <1>0 DEF Listed, HasOwner
    <3>2. k2.pistsk[q] = k.pistsk[q] /\ q # "none" /\ k.pistsk[q] \in Task \cup {NoTask}
      BY <1>t, <2>3, PisAreObjects
    <3>3. Listed(k2, P, X, E, q)
      BY <1>e, <2>3, <3>1, <3>2 DEF Listed
    <3>4. HasOwner(k2, X, q)
      BY <2>3, <2>4, <3>1, <3>2 DEF HasOwner
    <3> QED BY <3>3, <3>4
  <2>7. Listed(k2, P, X, E, p)
    <3>1. p \in E /\ h \notin X
      BY DEF E
    <3>2. ASSUME NEW u \in Task
          PROVE  k2.pistsk[p] = u <=> p \in ToSet(k2.pislist[u]) /\ ~(u \in X /\ p \in E)
      BY <1>0, <2>3, <3>1
    <3> QED BY <3>2 DEF Listed
  <2>8. HasOwner(k2, X, p)
    BY <1>t, <2>3, <2>4 DEF HasOwner
  <2> QED BY <2>5, <2>6, <2>7, <2>8 DEF Owned
<1>3. ASSUME \A u \in Task \ X : k.wspec[u] # p, GivesBack(k, k2, p)
      PROVE  Owned(k2, P, X, E)
  <2>1. /\ k2.state = k.state /\ k2.wspec = k.wspec /\ k2.pislist = k.pislist
        /\ k2.pistsk = [k.pistsk EXCEPT ![p] = NoTask]
    BY <1>t, <1>3 DEF GivesBack, KernelStates
  <2>2. k2.pistsk[p] = NoTask /\ \A q \in Pis \ {p} : k2.pistsk[q] = k.pistsk[q]
    BY <1>0, <1>t, <2>1
  <2>3. Held(k2, P)
    BY <1>0, <2>1 DEF Held
  <2>4. ASSUME NEW q \in P \ {p} PROVE Listed(k2, P, X, E, q) /\ HasOwner(k2, X, q)
    BY <1>0, <1>e, <1>t, <2>1, <2>2 DEF Listed, HasOwner, AliveIn
  <2>5. Listed(k2, P, X, E, p)
    BY <1>0, <1>t, <2>1, <2>2 DEF Listed, E
  <2>6. HasOwner(k2, X, p)
    BY <1>3, <2>1, <2>2 DEF HasOwner
  <2> QED BY <2>3, <2>4, <2>5, <2>6 DEF Owned
<1> QED BY <1>1, <1>2, <1>3 DEF k2, E

(* Whoever gets p has a priority that is not below that of those who go on *)
(* waiting for it.                                                         *)
LEMMA SignalExact ==
  ASSUME NEW X \in SUBSET Task, NEW k, Sound(k, X), NEW p \in Pis,
         \A u \in Task \ X : p \notin ToSet(k.pislist[u]),
         AllExact(k, X)
  PROVE  AllExact(signal(k, p), X)
<1> DEFINE k2 == signal(k, p)
           W  == WaitOf(k, X)
           W2 == WaitOf(k2, X)
<1>t. /\ k.state \in [Task -> TSTAT] /\ k.wspec \in [Task -> Pis \cup {"none"}]
      /\ k.pislist \in [Task -> Queue(Pis)] /\ k \in KernelStates
      /\ k.priority \in PriorityMap
  BY KernelFields DEF Sound
<1>a. \A u \in Task \ X : AliveIn(k, u) => ExactFor(k, W, u)
  BY DEF AllExact
<1>1. \/ \E h \in Task \ X : /\ k.state[h] \in TS_WAIT /\ k.wspec[h] = p /\ Hands(k, k2, p, h)
                             /\ \A u \in Task \ X : k.wspec[u] = p => k.priority[h] <= k.priority[u]
      \/ GivesBack(k, k2, p)
  BY Signalled
<1> HIDE DEF k2
<1>w. \A u \in Task : /\ W[u] = IF u \in X THEN "none" ELSE k.wspec[u]
                      /\ W2[u] = IF u \in X THEN "none" ELSE k2.wspec[u]
  BY DEF WaitOf
<1> HIDE DEF W, W2
<1>l. \A u \in Task : ToSet(k.pislist[u]) \subseteq Pis
  BY <1>t, QueueEntries
<1>2. ASSUME NEW h \in Task \ X, k.state[h] \in TS_WAIT, k.wspec[h] = p, Hands(k, k2, p, h),
             \A u \in Task \ X : k.wspec[u] = p => k.priority[h] <= k.priority[u]
      PROVE  \A u \in Task \ X : AliveIn(k2, u) => ExactFor(k2, W2, u)
  <2> DEFINE new == <<p>> \o k.pislist[h]
  <2>1. ToSet(new) = {p} \cup ToSet(k.pislist[h])
    BY <1>t, Taken
  <2> HIDE DEF new
  <2>2. /\ k2.state = [k.state EXCEPT ![h] = IF k.state[h] = "WAIT" THEN "READY" ELSE "SUSPEND"]
        /\ k2.wspec = [k.wspec EXCEPT ![h] = "none"]
        /\ k2.priority = k.priority
        /\ k2.pislist = [k.pislist EXCEPT ![h] = new]
    BY <1>2 DEF Hands, new
  <2>3. /\ k2.wspec[h] = "none" /\ k2.pislist[h] = new
        /\ \A u \in Task \ {h} : /\ k2.wspec[u] = k.wspec[u] /\ k2.pislist[u] = k.pislist[u]
    BY <1>t, <2>2
  <2>4. \A u \in Task : AliveIn(k2, u) <=> AliveIn(k, u)
    BY <1>2, <1>t, <2>2 DEF AliveIn, TS_WAIT, TS_SUSPEND
  <2>5. ASSUME NEW u \in Task \ X, u # h, AliveIn(k, u) PROVE ExactFor(k2, W2, u)
    <3>1. Donors(W2, k2.pislist[u]) = Donors(W, k.pislist[u])
      BY <1>2, <1>l, <1>w, <2>3, <2>5, PisAreObjects DEF Donors
    <3>2. ExactFor(k, W, u)
      BY <1>a, <2>5
    <3>3. Shares(k2, W2, u, k2.pislist[u]) = Shares(k, W, u, k.pislist[u])
      BY <2>2, <3>1 DEF Shares
    <3> QED BY <2>2, <3>2, <3>3 DEF ExactFor
  <2>6. ASSUME AliveIn(k, h) PROVE ExactFor(k2, W2, h)
    <3>1. \A v \in Donors(W, k.pislist[h]) : v \in Donors(W2, k2.pislist[h])
      BY <1>2, <1>w, <2>1, <2>3 DEF Donors
    <3>2. \A v \in Donors(W2, k2.pislist[h]) :
            v \in Donors(W, k.pislist[h]) \/ (v \in Task \ X /\ k.wspec[v] = p)
      BY <1>2, <1>l, <1>w, <2>1, <2>3, PisAreObjects DEF Donors
    <3>3. Least(k.priority[h], Shares(k, W, h, k.pislist[h]))
      BY <1>a, <2>6 DEF ExactFor
    <3>4. Least(k2.priority[h], Shares(k2, W2, h, k2.pislist[h]))
      <4>1. k2.priority[h] \in Shares(k2, W2, h, k2.pislist[h])
        BY <2>2, <3>1, <3>3 DEF Least, Shares
      <4>2. ASSUME NEW x \in Shares(k2, W2, h, k2.pislist[h]) PROVE k2.priority[h] <= x
        BY <1>2, <2>2, <3>2, <3>3, <4>2 DEF Least, Shares
      <4> QED BY <4>1, <4>2 DEF Least
    <3> QED BY <3>4 DEF ExactFor
  <2> QED BY <2>4, <2>5, <2>6
<1>3. ASSUME GivesBack(k, k2, p)
      PROVE  \A u \in Task \ X : AliveIn(k2, u) => ExactFor(k2, W2, u)
  <2>1. k2.state = k.state /\ k2.wspec = k.wspec /\ k2.pislist = k.pislist /\ k2.priority = k.priority
    BY <1>t, <1>3 DEF GivesBack, KernelStates
  <2>2. \A u \in Task : Donors(W2, k2.pislist[u]) = Donors(W, k.pislist[u])
    BY <1>w, <2>1 DEF Donors
  <2>3. ASSUME NEW u \in Task \ X, AliveIn(k, u) PROVE ExactFor(k2, W2, u)
    <3>1. ExactFor(k, W, u)
      BY <1>a, <2>3
    <3> QED BY <2>1, <2>2, <3>1 DEF ExactFor, Shares
  <2> QED BY <2>1, <2>3 DEF AliveIn
<1> QED BY <1>1, <1>2, <1>3 DEF AllExact, k2, W2

(* The end of a wait, whatever ends it, leaves the semaphores with their   *)
(* tasks.                                                                  *)
LEMMA WaitEndsOwned ==
  ASSUME NEW k \in KernelStates, NEW k2, NEW t \in Task, WaitEnds(k, t, k2), k.state[t] \in TS_WAIT,
         NEW P \in SUBSET Pis, NEW X, NEW D
  PROVE  /\ Owned(k, P, X, D) => Owned(k2, P, X, D)
         /\ \A p : OwnedBut(k, P, X, D, p) => OwnedBut(k2, P, X, D, p)
<1>1. /\ k2.state = [k.state EXCEPT ![t] = IF k.state[t] = "WAIT" THEN "READY" ELSE "SUSPEND"]
      /\ k2.wspec = [k.wspec EXCEPT ![t] = "none"]
      /\ k2.pistsk = k.pistsk /\ k2.pislist = k.pislist
      /\ k.state \in [Task -> TSTAT] /\ k.wspec \in [Task -> Pis \cup {"none"}]
      /\ k.pistsk \in [Pis -> Task \cup {NoTask}]
  BY KernelFields DEF WaitEnds
<1>2. /\ k2.wspec[t] = "none" /\ \A u \in Task \ {t} : k2.wspec[u] = k.wspec[u]
      /\ \A u \in Task : AliveIn(k, u) => AliveIn(k2, u)
  BY <1>1 DEF AliveIn, TS_WAIT, TS_SUSPEND
<1>3. Held(k, P) => Held(k2, P)
  BY <1>1, <1>2 DEF Held
<1>4. ASSUME NEW q \in P, Listed(k, P, X, D, q), HasOwner(k, X, q)
      PROVE  Listed(k2, P, X, D, q) /\ HasOwner(k2, X, q)
  <2>1. q \in Pis /\ q # "none" /\ k.pistsk[q] \in Task \cup {NoTask}
    BY <1>1, PisAreObjects
  <2> QED BY <1>1, <1>2, <1>4, <2>1 DEF Listed, HasOwner
<1> QED BY <1>1, <1>3, <1>4 DEF Owned, OwnedBut

(* The same donors have the same priorities.                               *)
LEMMA SameExact ==
  ASSUME NEW k, NEW k2, NEW W, NEW W2, NEW u, ExactFor(k, W, u), k2.priority = k.priority,
         \A v \in Task : W2[v] \in ToSet(k2.pislist[u]) <=> W[v] \in ToSet(k.pislist[u])
  PROVE  ExactFor(k2, W2, u)
<1>1. Donors(W2, k2.pislist[u]) = Donors(W, k.pislist[u])
  BY DEF Donors
<1>2. Shares(k2, W2, u, k2.pislist[u]) = Shares(k, W, u, k.pislist[u])
  BY <1>1 DEF Shares
<1> QED BY <1>2 DEF ExactFor

(* The end of a wait for a semaphore that no task has disturbs nobody.     *)
LEMMA WaitEndsExact ==
  ASSUME NEW X \in SUBSET Task, NEW k \in KernelStates, NEW k2, NEW t \in Task,
         WaitEnds(k, t, k2), k.state[t] \in TS_WAIT, AllExact(k, X),
         \A u \in Task \ X : k.wspec[t] \notin ToSet(k.pislist[u])
  PROVE  AllExact(k2, X)
<1>1. /\ k2.state = [k.state EXCEPT ![t] = IF k.state[t] = "WAIT" THEN "READY" ELSE "SUSPEND"]
      /\ k2.wspec = [k.wspec EXCEPT ![t] = "none"]
      /\ k2.priority = k.priority /\ k2.pislist = k.pislist
      /\ k.state \in [Task -> TSTAT] /\ k.wspec \in [Task -> Pis \cup {"none"}]
      /\ k.pislist \in [Task -> Queue(Pis)]
  BY KernelFields DEF WaitEnds
<1>2. /\ k2.wspec[t] = "none" /\ \A u \in Task \ {t} : k2.wspec[u] = k.wspec[u]
      /\ \A u \in Task : AliveIn(k2, u) => AliveIn(k, u)
  BY <1>1 DEF AliveIn, TS_WAIT, TS_SUSPEND
<1>3. ASSUME NEW u \in Task \ X, AliveIn(k2, u) PROVE ExactFor(k2, WaitOf(k2, X), u)
  <2>1. ExactFor(k, WaitOf(k, X), u)
    BY <1>2, <1>3 DEF AllExact
  <2>2. "none" \notin ToSet(k.pislist[u])
    BY <1>1, PisAreObjects, QueueEntries
  <2>3. \A v \in Task :
          WaitOf(k2, X)[v] \in ToSet(k2.pislist[u]) <=> WaitOf(k, X)[v] \in ToSet(k.pislist[u])
    BY <1>1, <1>2, <2>2 DEF WaitOf
  <2> QED BY <1>1, <2>1, <2>3, SameExact
<1> QED BY <1>3 DEF AllExact

-----------------------------------------------------------------------------
(***************************************************************************)
(* What ends several waits, or gives several semaphores back.              *)
(***************************************************************************)
(* What holds before the first release of a walk, and is led on by each,   *)
(* holds after the last.                                                   *)
LEMMA ReleasedWalk ==
  ASSUME NEW k, NEW tasks \in Seq(Task), NEW Inv \in [0 .. Len(tasks) -> SUBSET KernelStates],
         k \in Inv[0],
         \A n \in 1 .. Len(tasks) : \A x \in Inv[n - 1] : released(x, tasks[n]) \in Inv[n]
  PROVE  released_all(k, tasks) \in Inv[Len(tasks)]
<1> DEFINE N     == Len(tasks)
           step  == [n \in 1 .. N |->
                       [x \in KernelStates |-> IF x \in Inv[n - 1] THEN released(x, tasks[n]) ELSE x]]
           F(g)  == [n \in 0 .. N |-> IF n = 0 THEN k ELSE released(g[n - 1], tasks[n])]
           after == CHOOSE g : g = F(g)
<1>1. N \in Nat /\ 0 \in 0 .. N /\ N \in 0 .. N
      /\ \A n \in 1 .. N : n \in 0 .. N /\ n - 1 \in 0 .. N
  OBVIOUS
<1>2. released_all(k, tasks) = after[N]
  BY DEF released_all
<1>p. ASSUME NEW g, g[0] \in Inv[0], \A n \in 1 .. N : g[n - 1] \in Inv[n - 1] => g[n] \in Inv[n]
      PROVE  \A n \in 0 .. N : g[n] \in Inv[n]
  <2> DEFINE Q(n) == g[n] \in Inv[n]
             P    == [n \in 0 .. N |-> Q(n)]
  <2>a. \A n : Q(n) \in BOOLEAN
    OBVIOUS
  <2>b. \A n : Q(n) <=> g[n] \in Inv[n]
    OBVIOUS
  <2> HIDE DEF Q
  <2>c. P \in [0 .. N -> BOOLEAN] /\ \A n \in 0 .. N : P[n] <=> Q(n)
    BY <2>a
  <2> HIDE DEF P, N
  <2>d. P[0] /\ \A n \in 1 .. N : P[n - 1] => P[n]
    BY <1>1, <1>p, <2>b, <2>c
  <2>e. \A n \in 0 .. N : P[n]
    BY <1>1, <2>c, <2>d, Along
  <2> QED BY <2>b, <2>c, <2>e
<1>3. \E g : g = F(g)
  <2>0. k \in KernelStates /\ \A n \in 0 .. N : Inv[n] \subseteq KernelStates
    BY <1>1
  <2>1. step \in [1 .. N -> [KernelStates -> KernelStates]]
    <3>1. ASSUME NEW n \in 1 .. N, NEW x \in KernelStates
          PROVE  (IF x \in Inv[n - 1] THEN released(x, tasks[n]) ELSE x) \in KernelStates
      BY <1>1, <2>0
    <3> QED BY <3>1
  <2>2. \A n \in 1 .. N, x \in KernelStates :
          step[n][x] = IF x \in Inv[n - 1] THEN released(x, tasks[n]) ELSE x
    OBVIOUS
  <2> HIDE DEF step, N
  <2>3. PICK g \in [0 .. N -> KernelStates] : Walks(g, N, k, step)
    BY <1>1, <2>0, <2>1, Walk
  <2>4. g[0] = k /\ \A n \in 1 .. N : g[n] = step[n][g[n - 1]] /\ g[n - 1] \in KernelStates
    BY <1>1, <2>3 DEF Walks
  <2>5. \A n \in 1 .. N : g[n - 1] \in Inv[n - 1] => g[n] \in Inv[n]
    BY <2>2, <2>4 DEF N
  <2>6. \A n \in 0 .. N : g[n] \in Inv[n]
    BY <1>p, <2>4, <2>5
  <2>7. ASSUME NEW n \in 0 .. N
        PROVE  g[n] = IF n = 0 THEN k ELSE released(g[n - 1], tasks[n])
    <3>1. CASE n = 0
      BY <2>4, <3>1
    <3>2. CASE n # 0
      <4>1. n \in 1 .. N /\ n - 1 \in 0 .. N
        BY <1>1, <3>2
      <4> QED BY <2>2, <2>4, <2>6, <3>2, <4>1
    <3> QED BY <3>1, <3>2
  <2>8. g = F(g)
    BY <2>3, <2>7
  <2> QED BY <2>8
<1>4. after = F(after)
  <2> HIDE DEF F
  <2> QED BY <1>3, Zenon
<1> HIDE DEF after, N, step
<1>5. after[0] = k /\ \A n \in 1 .. N : after[n] = released(after[n - 1], tasks[n])
  <2>1. after[0] = k
    BY <1>1, <1>4
  <2>2. ASSUME NEW n \in 1 .. N PROVE after[n] = released(after[n - 1], tasks[n])
    <3>1. n \in 0 .. N /\ n # 0
      BY <1>1
    <3> QED BY <1>4, <3>1
  <2> QED BY <2>1, <2>2
<1>6. \A n \in 1 .. N : after[n - 1] \in Inv[n - 1] => after[n] \in Inv[n]
  BY <1>5 DEF N
<1>7. \A n \in 0 .. N : after[n] \in Inv[n]
  BY <1>p, <1>5, <1>6
<1> QED BY <1>1, <1>2, <1>7 DEF N

(* The same of a walk along a list of semaphores that are given back.      *)
LEMMA SignalledWalk ==
  ASSUME NEW k, NEW list \in Seq(Pis), NEW Inv \in [0 .. Len(list) -> SUBSET KernelStates],
         k \in Inv[0],
         \A n \in 1 .. Len(list) : \A x \in Inv[n - 1] : signal(x, list[n]) \in Inv[n]
  PROVE  signal_those(k, list) \in Inv[Len(list)]
<1> DEFINE N     == Len(list)
           step  == [n \in 1 .. N |->
                       [x \in KernelStates |-> IF x \in Inv[n - 1] THEN signal(x, list[n]) ELSE x]]
           F(g)  == [n \in 0 .. N |-> IF n = 0 THEN k ELSE signal(g[n - 1], list[n])]
           after == CHOOSE g : g = F(g)
<1>1. N \in Nat /\ 0 \in 0 .. N /\ N \in 0 .. N
      /\ \A n \in 1 .. N : n \in 0 .. N /\ n - 1 \in 0 .. N
  OBVIOUS
<1>2. signal_those(k, list) = after[N]
  BY DEF signal_those
<1>p. ASSUME NEW g, g[0] \in Inv[0], \A n \in 1 .. N : g[n - 1] \in Inv[n - 1] => g[n] \in Inv[n]
      PROVE  \A n \in 0 .. N : g[n] \in Inv[n]
  <2> DEFINE Q(n) == g[n] \in Inv[n]
             P    == [n \in 0 .. N |-> Q(n)]
  <2>a. \A n : Q(n) \in BOOLEAN
    OBVIOUS
  <2>b. \A n : Q(n) <=> g[n] \in Inv[n]
    OBVIOUS
  <2> HIDE DEF Q
  <2>c. P \in [0 .. N -> BOOLEAN] /\ \A n \in 0 .. N : P[n] <=> Q(n)
    BY <2>a
  <2> HIDE DEF P, N
  <2>d. P[0] /\ \A n \in 1 .. N : P[n - 1] => P[n]
    BY <1>1, <1>p, <2>b, <2>c
  <2>e. \A n \in 0 .. N : P[n]
    BY <1>1, <2>c, <2>d, Along
  <2> QED BY <2>b, <2>c, <2>e
<1>3. \E g : g = F(g)
  <2>0. k \in KernelStates /\ \A n \in 0 .. N : Inv[n] \subseteq KernelStates
    BY <1>1
  <2>1. step \in [1 .. N -> [KernelStates -> KernelStates]]
    <3>1. ASSUME NEW n \in 1 .. N, NEW x \in KernelStates
          PROVE  (IF x \in Inv[n - 1] THEN signal(x, list[n]) ELSE x) \in KernelStates
      BY <1>1, <2>0
    <3> QED BY <3>1
  <2>2. \A n \in 1 .. N, x \in KernelStates :
          step[n][x] = IF x \in Inv[n - 1] THEN signal(x, list[n]) ELSE x
    OBVIOUS
  <2> HIDE DEF step, N
  <2>3. PICK g \in [0 .. N -> KernelStates] : Walks(g, N, k, step)
    BY <1>1, <2>0, <2>1, Walk
  <2>4. g[0] = k /\ \A n \in 1 .. N : g[n] = step[n][g[n - 1]] /\ g[n - 1] \in KernelStates
    BY <1>1, <2>3 DEF Walks
  <2>5. \A n \in 1 .. N : g[n - 1] \in Inv[n - 1] => g[n] \in Inv[n]
    BY <2>2, <2>4 DEF N
  <2>6. \A n \in 0 .. N : g[n] \in Inv[n]
    BY <1>p, <2>4, <2>5
  <2>7. ASSUME NEW n \in 0 .. N
        PROVE  g[n] = IF n = 0 THEN k ELSE signal(g[n - 1], list[n])
    <3>1. CASE n = 0
      BY <2>4, <3>1
    <3>2. CASE n # 0
      <4>1. n \in 1 .. N /\ n - 1 \in 0 .. N
        BY <1>1, <3>2
      <4> QED BY <2>2, <2>4, <2>6, <3>2, <4>1
    <3> QED BY <3>1, <3>2
  <2>8. g = F(g)
    BY <2>3, <2>7
  <2> QED BY <2>8
<1>4. after = F(after)
  <2> HIDE DEF F
  <2> QED BY <1>3, Zenon
<1> HIDE DEF after, N, step
<1>5. after[0] = k /\ \A n \in 1 .. N : after[n] = signal(after[n - 1], list[n])
  <2>1. after[0] = k
    BY <1>1, <1>4
  <2>2. ASSUME NEW n \in 1 .. N PROVE after[n] = signal(after[n - 1], list[n])
    <3>1. n \in 0 .. N /\ n # 0
      BY <1>1
    <3> QED BY <1>4, <3>1
  <2> QED BY <2>1, <2>2
<1>6. \A n \in 1 .. N : after[n - 1] \in Inv[n - 1] => after[n] \in Inv[n]
  BY <1>5 DEF N
<1>7. \A n \in 0 .. N : after[n] \in Inv[n]
  BY <1>p, <1>5, <1>6
<1> QED BY <1>1, <1>2, <1>7 DEF N

(* Waits end, and nothing else happens to the states of tasks.             *)
Eases(s, s2) ==
  \A u \in Task : \/ s2[u] = s[u]
                  \/ s[u] = "WAIT" /\ s2[u] = "READY"
                  \/ s[u] = "WAITSUS" /\ s2[u] = "SUSPEND"

(* All that wait for a semaphore that no task has are released.            *)
LEMMA ReleasedAll ==
  ASSUME NEW k, Sound(k, {}), NEW P \in SUBSET Pis, NEW p \in P, OwnedBut(k, P, {}, {}, p)
  PROVE  LET k2 == released_all(k, k.wait_queue[p]) IN
         /\ Sound(k2, {})
         /\ Owned(k2, P \ {p}, {}, {})
         /\ AllExact(k, {}) => AllExact(k2, {})
         /\ Eases(k.state, k2.state)
         /\ k2.priority = k.priority
<1> DEFINE tasks == k.wait_queue[p]
           N     == Len(tasks)
           Left(n) == {tasks[j] : j \in n + 1 .. N}
           Inv   == [n \in 0 .. N |->
                      {x \in KernelStates :
                         /\ Sound(x, {}) /\ OwnedBut(x, P, {}, {}, p)
                         /\ AllExact(k, {}) => AllExact(x, {})
                         /\ Eases(k.state, x.state) /\ x.priority = k.priority
                         /\ \A u \in Task : x.wspec[u] = p <=> u \in Left(n)}]
<1>1. /\ tasks \in Queue(Task) /\ k \in KernelStates /\ p \in Pis /\ p # "none"
      /\ \A u : u \in ToSet(tasks) <=> u \in Task /\ k.wspec[u] = p
  <2>1. k \in KernelStates /\ p \in Pis /\ p \in Gcb /\ p # "none" /\ {} \in SUBSET Task
    BY PisAreObjects DEF Sound
  <2>2. tasks \in Queue(Task) /\ \A u : u \in ToSet(tasks) <=> u \in Task \ {} /\ k.wspec[u] = p
    BY <2>1, InQueue
  <2> QED BY <2>1, <2>2
<1>2. /\ tasks \in Seq(Task) /\ N \in Nat /\ ToSet(tasks) = {tasks[j] : j \in 1 .. N}
      /\ \A i, j \in 1 .. N : tasks[i] = tasks[j] => i = j
  <2> HIDE DEF tasks
  <2> QED BY <1>1, QueueEntries
<1>3. Inv \in [0 .. N -> SUBSET KernelStates]
  OBVIOUS
<1>4. \A n \in 0 .. N : \A x \in KernelStates :
        x \in Inv[n] <=> /\ Sound(x, {}) /\ OwnedBut(x, P, {}, {}, p)
                         /\ AllExact(k, {}) => AllExact(x, {})
                         /\ Eases(k.state, x.state) /\ x.priority = k.priority
                         /\ \A u \in Task : x.wspec[u] = p <=> u \in Left(n)
  OBVIOUS
<1> HIDE DEF Inv, tasks
<1>5. k \in Inv[0]
  <2>1. \A u \in Task : k.wspec[u] = p <=> u \in Left(0)
    BY <1>1, <1>2
  <2>2. Eases(k.state, k.state)
    BY DEF Eases
  <2> QED BY <1>1, <1>2, <1>4, <2>1, <2>2
<1>6. ASSUME NEW n \in 1 .. N, NEW x \in Inv[n - 1] PROVE released(x, tasks[n]) \in Inv[n]
  <2> DEFINE t  == tasks[n]
             x2 == released(x, t)
  <2>1. n - 1 \in 0 .. N /\ n \in 0 .. N /\ (n - 1) + 1 = n /\ t \in Task
    BY <1>2
  <2>2. /\ Sound(x, {}) /\ OwnedBut(x, P, {}, {}, p) /\ x \in KernelStates
        /\ AllExact(k, {}) => AllExact(x, {})
        /\ Eases(k.state, x.state) /\ x.priority = k.priority
        /\ \A u \in Task : x.wspec[u] = p <=> u \in Left(n - 1)
    BY <1>3, <1>4, <2>1
  <2>3. /\ t \in Left(n - 1)
        /\ \A u \in Task : u \in Left(n) <=> u \in Left(n - 1) /\ u # t
    BY <1>2, <2>1
  <2> HIDE DEF Left, N, t
  <2>4. x.wspec[t] = p /\ x.state[t] \in TS_WAIT
    BY <1>1, <2>1, <2>2, <2>3 DEF Sound, Queued
  <2>5. Sound(x2, {}) /\ WaitEnds(x, t, x2)
    BY <2>1, <2>2, <2>4, Released
  <2> HIDE DEF x2
  <2>6. OwnedBut(x2, P, {}, {}, p)
    BY <2>1, <2>2, <2>4, <2>5, WaitEndsOwned
  <2>7. AllExact(k, {}) => AllExact(x2, {})
    <3>1. \A u \in Task \ {} : x.wspec[t] \notin ToSet(x.pislist[u])
      BY <2>2, <2>4 DEF OwnedBut
    <3> QED BY <2>1, <2>2, <2>4, <2>5, <3>1, WaitEndsExact
  <2>8. /\ x2.state = [x.state EXCEPT ![t] = IF x.state[t] = "WAIT" THEN "READY" ELSE "SUSPEND"]
        /\ x2.wspec = [x.wspec EXCEPT ![t] = "none"] /\ x2.priority = x.priority
        /\ x.state \in [Task -> TSTAT] /\ x.wspec \in [Task -> Pis \cup {"none"}]
    BY <2>2, <2>5, KernelFields DEF WaitEnds
  <2>9. Eases(k.state, x2.state)
    BY <2>1, <2>2, <2>4, <2>8 DEF Eases, TS_WAIT
  <2>10. \A u \in Task : x2.wspec[u] = p <=> u \in Left(n)
    BY <1>1, <2>1, <2>2, <2>3, <2>8
  <2>11. x2 \in KernelStates
    BY <2>5 DEF Sound
  <2> QED BY <1>4, <2>1, <2>2, <2>5, <2>6, <2>7, <2>8, <2>9, <2>10, <2>11 DEF x2, t
<1> DEFINE k2 == released_all(k, tasks)
<1>7. k2 \in Inv[N]
  BY <1>2, <1>3, <1>5, <1>6, ReleasedWalk
<1> HIDE DEF k2
<1>8. N \in 0 .. N /\ k2 \in KernelStates
  BY <1>2, <1>3, <1>7
<1>9. /\ Sound(k2, {}) /\ OwnedBut(k2, P, {}, {}, p)
      /\ AllExact(k, {}) => AllExact(k2, {})
      /\ Eases(k.state, k2.state) /\ k2.priority = k.priority
      /\ \A u \in Task : k2.wspec[u] = p <=> u \in Left(N)
  BY <1>4, <1>7, <1>8
<1>10. \A u \in Task : k2.wspec[u] # p
  <2>1. Left(N) = {}
    BY <1>2
  <2> QED BY <1>9, <2>1
<1>11. Owned(k2, P \ {p}, {}, {})
  <2>1. /\ Held(k2, P) /\ \A u \in Task : p \notin ToSet(k2.pislist[u])
        /\ \A q \in P \ {p} : Listed(k2, P, {}, {}, q) /\ HasOwner(k2, {}, q)
    BY <1>9 DEF OwnedBut
  <2>2. Held(k2, P \ {p})
    BY <1>10, <2>1 DEF Held
  <2> QED BY <2>1, <2>2 DEF Owned, Listed
<1> QED BY <1>9, <1>11 DEF k2, tasks

(* A task that is about to end gives its semaphores back, one by one.      *)
LEMMA SignalledAll ==
  ASSUME NEW k, NEW t \in Task, Sound(k, {t}), NEW P \in SUBSET Pis, Owned(k, P, {t}, {})
  PROVE  LET k2 == signal_all_prisem(k, t) IN
         /\ Sound(k2, {t})
         /\ Owned(k2, P, {t}, ToSet(k.pislist[t]))
         /\ AllExact(k, {t}) => AllExact(k2, {t})
         /\ Eases(k.state, k2.state) /\ k2.state[t] = k.state[t]
         /\ k2.pislist[t] = k.pislist[t] /\ k2.priority = k.priority
<1> DEFINE list == k.pislist[t]
           N    == Len(list)
           D(n) == {list[j] : j \in 1 .. n}
           Inv  == [n \in 0 .. N |->
                     {x \in KernelStates :
                        /\ Sound(x, {t}) /\ Owned(x, P, {t}, D(n))
                        /\ AllExact(k, {t}) => AllExact(x, {t})
                        /\ Eases(k.state, x.state) /\ x.state[t] = k.state[t]
                        /\ x.pislist[t] = list /\ x.priority = k.priority}]
<1>1. k \in KernelStates /\ list \in Queue(Pis) /\ {t} \in SUBSET Task /\ ToSet(list) \subseteq P
  BY KernelFields DEF Sound, Owned, Held
<1>2. /\ list \in Seq(Pis) /\ N \in Nat /\ ToSet(list) = {list[j] : j \in 1 .. N}
      /\ \A i, j \in 1 .. N : list[i] = list[j] => i = j
  <2> HIDE DEF list
  <2> QED BY <1>1, QueueEntries
<1>3. Inv \in [0 .. N -> SUBSET KernelStates]
  OBVIOUS
<1>4. \A n \in 0 .. N : \A x \in KernelStates :
        x \in Inv[n] <=> /\ Sound(x, {t}) /\ Owned(x, P, {t}, D(n))
                         /\ AllExact(k, {t}) => AllExact(x, {t})
                         /\ Eases(k.state, x.state) /\ x.state[t] = k.state[t]
                         /\ x.pislist[t] = list /\ x.priority = k.priority
  OBVIOUS
<1>5. k \in Inv[0]
  <2>1. D(0) = {}
    BY <1>2
  <2>2. Eases(k.state, k.state)
    BY DEF Eases
  <2>3. 0 \in 0 .. N /\ k.pislist[t] = list
    BY <1>2
  <2> HIDE DEF Inv, D, N, list
  <2>4. Owned(k, P, {t}, D(0))
    BY <2>1
  <2> QED BY <1>1, <1>4, <2>2, <2>3, <2>4
<1> HIDE DEF Inv, list
<1>6. ASSUME NEW n \in 1 .. N, NEW x \in Inv[n - 1] PROVE signal(x, list[n]) \in Inv[n]
  <2> DEFINE p  == list[n]
             x2 == signal(x, p)
  <2>1. n - 1 \in 0 .. N /\ n \in 0 .. N /\ p \in ToSet(list) /\ p \in P /\ p \in Pis
    BY <1>1, <1>2
  <2>2. /\ Sound(x, {t}) /\ Owned(x, P, {t}, D(n - 1)) /\ x \in KernelStates
        /\ AllExact(k, {t}) => AllExact(x, {t})
        /\ Eases(k.state, x.state) /\ x.state[t] = k.state[t]
        /\ x.pislist[t] = list /\ x.priority = k.priority
    BY <1>3, <1>4, <2>1
  <2>3. p \notin D(n - 1) /\ D(n) = D(n - 1) \cup {p}
    BY <1>2, <2>1
  <2> HIDE DEF D, N, p
  <2>4. x.pistsk[p] = t /\ \A u \in Task \ {t} : p \notin ToSet(x.pislist[u])
    BY <2>1, <2>2, <2>3 DEF Owned, Listed
  <2>5. OwnedBut(x, P, {t}, D(n - 1), p)
    BY <2>2, <2>4 DEF Owned, OwnedBut
  <2>6. Owned(x2, P, {t}, D(n))
    BY <1>1, <2>1, <2>2, <2>3, <2>5, SignalOwned
  <2>7. AllExact(k, {t}) => AllExact(x2, {t})
    BY <1>1, <2>1, <2>2, <2>4, SignalExact
  <2>8. /\ Sound(x2, {t})
        /\ \/ \E h \in Task \ {t} : x.state[h] \in TS_WAIT /\ Hands(x, x2, p, h)
           \/ GivesBack(x, x2, p)
    BY <1>1, <2>1, <2>2, <2>4, Signalled
  <2> HIDE DEF x2
  <2>9. /\ Eases(k.state, x2.state) /\ x2.state[t] = k.state[t]
        /\ x2.pislist[t] = list /\ x2.priority = k.priority
    <3>1. x.state \in [Task -> TSTAT] /\ x.pislist \in [Task -> Queue(Pis)]
      BY <2>2, KernelFields
    <3>2. ASSUME NEW h \in Task \ {t}, x.state[h] \in TS_WAIT, Hands(x, x2, p, h)
          PROVE  /\ Eases(k.state, x2.state) /\ x2.state[t] = k.state[t]
                 /\ x2.pislist[t] = list /\ x2.priority = k.priority
      BY <2>2, <3>1, <3>2 DEF Hands, Eases, TS_WAIT
    <3>3. ASSUME GivesBack(x, x2, p)
          PROVE  /\ Eases(k.state, x2.state) /\ x2.state[t] = k.state[t]
                 /\ x2.pislist[t] = list /\ x2.priority = k.priority
      <4>1. x2.state = x.state /\ x2.pislist = x.pislist /\ x2.priority = x.priority
        BY <2>2, <3>3 DEF GivesBack, KernelStates
      <4> QED BY <2>2, <4>1
    <3> QED BY <2>8, <3>2, <3>3
  <2>10. x2 \in KernelStates
    BY <2>8 DEF Sound
  <2> QED BY <1>4, <2>1, <2>6, <2>7, <2>8, <2>9, <2>10 DEF x2, p
<1> DEFINE k2 == signal_those(k, list)
<1>7. k2 \in Inv[N]
  BY <1>2, <1>3, <1>5, <1>6, SignalledWalk
<1>8. signal_all_prisem(k, t) = k2
  BY DEF signal_all_prisem, list
<1> HIDE DEF k2
<1>9. N \in 0 .. N /\ k2 \in KernelStates /\ D(N) = ToSet(list)
  BY <1>2, <1>3, <1>7
<1>10. /\ Sound(k2, {t}) /\ Owned(k2, P, {t}, D(N))
       /\ AllExact(k, {t}) => AllExact(k2, {t})
       /\ Eases(k.state, k2.state) /\ k2.state[t] = k.state[t]
       /\ k2.pislist[t] = list /\ k2.priority = k.priority
  BY <1>4, <1>7, <1>9
<1> QED BY <1>8, <1>9, <1>10 DEF list

-----------------------------------------------------------------------------
(***************************************************************************)
(* The chain of tasks from the one that has p on.                          *)
(***************************************************************************)
(* The tasks that have p or a semaphore behind it in the order.            *)
Above(k, p) ==
  {u \in Task : /\ AliveIn(k, u)
                /\ \E q \in ToSet(k.pislist[u]) : q = p \/ <<p, q>> \in IsBefore}

(* They wait for semaphores of each other only, and not for p.             *)
LEMMA AboveLinks ==
  ASSUME NEW k, Sound(k, {}), NEW P \in SUBSET Pis, NEW p \in P, Owned(k, P, {}, {})
  PROVE  /\ \A u \in Above(k, p) : u \in Task /\ AliveIn(k, u) /\ k.wspec[u] # p
         /\ k.pistsk[p] # NoTask => k.pistsk[p] \in Above(k, p)
         /\ \A u \in Above(k, p) : k.state[u] \in TS_WAIT =>
              /\ k.pistsk[k.wspec[u]] \in Above(k, p)
              /\ k.wspec[u] # p
              /\ k.wspec[u] \in ToSet(k.pislist[k.pistsk[k.wspec[u]]])
              /\ \A v \in Task \ {k.pistsk[k.wspec[u]]} : k.wspec[u] \notin ToSet(k.pislist[v])
              /\ \A q \in ToSet(k.pislist[u]) : <<q, k.wspec[u]>> \in IsBefore
<1>t. /\ k \in KernelStates /\ k.pistsk \in [Pis -> Task \cup {NoTask}]
      /\ k.wspec \in [Task -> Pis \cup {"none"}] /\ P \subseteq Pis /\ p \in Pis
  BY KernelFields DEF Sound
<1>h. /\ \A u \in Task : ToSet(k.pislist[u]) \subseteq P
      /\ \A u \in Task : k.wspec[u] # "none" => k.wspec[u] \in P
      /\ \A u \in Task : k.wspec[u] # "none" =>
           \A q \in ToSet(k.pislist[u]) : <<q, k.wspec[u]>> \in IsBefore
  BY DEF Owned, Held
<1>l. ASSUME NEW q \in P
      PROVE  /\ \A u \in Task : k.pistsk[q] = u <=> q \in ToSet(k.pislist[u])
             /\ k.pistsk[q] # NoTask => AliveIn(k, k.pistsk[q])
             /\ \A u \in Task : k.wspec[u] = q => k.pistsk[q] # NoTask
  BY DEF Owned, Listed, HasOwner
<1>o. /\ \A q \in Pis : <<q, q>> \notin IsBefore
      /\ \A q, r, s \in Pis : <<q, r>> \in IsBefore /\ <<r, s>> \in IsBefore => <<q, s>> \in IsBefore
  BY PriSemAssumption
<1>1. ASSUME NEW u \in Above(k, p) PROVE u \in Task /\ AliveIn(k, u) /\ k.wspec[u] # p
  <2>1. PICK q \in ToSet(k.pislist[u]) : q = p \/ <<p, q>> \in IsBefore
    BY DEF Above
  <2>2. u \in Task /\ AliveIn(k, u) /\ q \in Pis
    BY <1>h, <1>t, <2>1 DEF Above
  <2>3. ASSUME k.wspec[u] = p PROVE FALSE
    <3>1. <<q, p>> \in IsBefore
      BY <1>h, <1>t, <2>2, <2>3, PisAreObjects
    <3> QED BY <1>o, <1>t, <2>1, <2>2, <3>1
  <2> QED BY <2>2, <2>3
<1>2. ASSUME k.pistsk[p] # NoTask PROVE k.pistsk[p] \in Above(k, p)
  BY <1>l, <1>t, <1>2 DEF Above
<1>3. ASSUME NEW u \in Above(k, p), k.state[u] \in TS_WAIT
      PROVE  /\ k.pistsk[k.wspec[u]] \in Above(k, p)
             /\ k.wspec[u] # p
             /\ k.wspec[u] \in ToSet(k.pislist[k.pistsk[k.wspec[u]]])
             /\ \A v \in Task \ {k.pistsk[k.wspec[u]]} : k.wspec[u] \notin ToSet(k.pislist[v])
             /\ \A q \in ToSet(k.pislist[u]) : <<q, k.wspec[u]>> \in IsBefore
  <2> DEFINE w == k.wspec[u]
             o == k.pistsk[w]
  <2>1. u \in Task /\ w # p /\ w # "none" /\ w \in P /\ w \in Pis
        /\ \A q \in ToSet(k.pislist[u]) : <<q, w>> \in IsBefore
    BY <1>1, <1>3, <1>h, <1>t DEF Sound, Queued
  <2>2. o \in Task /\ w \in ToSet(k.pislist[o]) /\ AliveIn(k, o)
        /\ \A v \in Task \ {o} : w \notin ToSet(k.pislist[v])
    BY <1>l, <1>t, <2>1
  <2>3. PICK q \in ToSet(k.pislist[u]) : q = p \/ <<p, q>> \in IsBefore
    BY DEF Above
  <2>4. <<p, w>> \in IsBefore
    <3>1. <<q, w>> \in IsBefore /\ q \in Pis
      BY <1>h, <1>t, <2>1, <2>3
    <3> QED BY <1>o, <1>t, <2>1, <2>3, <3>1
  <2>5. o \in Above(k, p)
    BY <2>2, <2>4 DEF Above
  <2> QED BY <2>1, <2>2, <2>5
<1> QED BY <1>1, <1>2, <1>3

(* k is as k0 was, but that p may have left the list of its task.          *)
Lacks(k0, k, p) ==
  /\ k.state = k0.state /\ k.wspec = k0.wspec /\ k.pistsk = k0.pistsk
  /\ \A u \in Task : /\ ToSet(k.pislist[u]) \subseteq ToSet(k0.pislist[u])
                     /\ ToSet(k0.pislist[u]) \subseteq ToSet(k.pislist[u]) \cup {p}

Living(k, X) == {u \in Task \ X : AliveIn(k, u)}

(* All priorities are exact in k2, if the change c of one in T was all that*)
(* was missing.                                                            *)
LeavesExact(c, X, T, k2) ==
  \A W : /\ \A u \in T : W[u] = c.k.wspec[u]
         /\ Agrees(c.k, X, W) \/ Raises(c)
         /\ Pending(c, Living(c.k, X), W)
         => \A u \in Living(c.k, X) : ExactFor(k2, W, u)

(* So a change of the priority of one of them, which the end of a wait for *)
(* p or the loss of p makes, ends among them, with exact priorities.       *)
LEMMA ChainChanged ==
  ASSUME NEW k0, Sound(k0, {}), NEW P \in SUBSET Pis, NEW p \in P, Owned(k0, P, {}, {}),
         NEW X \in SUBSET Task, \A u \in X : k0.wspec[u] = p,
         NEW c, Sound(c.k, X), Lacks(k0, c.k, p),
         c \in [k : KernelStates, t : Above(k0, p) \cup {NoTask}, pri : Priority],
         ipriority \in PriorityMap
  PROVE  /\ Sound(change_priority(c), X)
         /\ Same(c.k, change_priority(c))
         /\ \A u \in Task \ Above(k0, p) : change_priority(c).priority[u] = c.k.priority[u]
         /\ LeavesExact(c, X, Above(k0, p), change_priority(c))
<1> DEFINE k == c.k
           T == Above(k0, p)
           A == Living(k, X)
<1>1. /\ \A u \in T : u \in Task /\ AliveIn(k0, u) /\ k0.wspec[u] # p
      /\ \A u \in T : k0.state[u] \in TS_WAIT =>
           /\ k0.pistsk[k0.wspec[u]] \in T
           /\ k0.wspec[u] # p
           /\ k0.wspec[u] \in ToSet(k0.pislist[k0.pistsk[k0.wspec[u]]])
           /\ \A v \in Task \ {k0.pistsk[k0.wspec[u]]} : k0.wspec[u] \notin ToSet(k0.pislist[v])
           /\ \A q \in ToSet(k0.pislist[u]) : <<q, k0.wspec[u]>> \in IsBefore
  BY AboveLinks
<1>2. /\ k.state = k0.state /\ k.wspec = k0.wspec /\ k.pistsk = k0.pistsk
      /\ \A u \in Task : /\ ToSet(k.pislist[u]) \subseteq ToSet(k0.pislist[u])
                         /\ ToSet(k0.pislist[u]) \subseteq ToSet(k.pislist[u]) \cup {p}
  BY DEF Lacks
<1> HIDE DEF T, A
<1>3. \A u \in T : u \in A /\ u \in Task \ X
  BY <1>1, <1>2 DEF A, Living, AliveIn
<1>4. Closed(k, X, T)
  BY <1>1, <1>2, <1>3 DEF Closed
<1>5. /\ Sound(change_priority(c), X)
      /\ Same(k, change_priority(c))
      /\ \A u \in Task \ T : change_priority(c).priority[u] = k.priority[u]
  <2>1. c \in [k : KernelStates, t : T \cup {NoTask}, pri : Priority]
    BY DEF T
  <2> QED BY <1>4, <2>1, PrioritiesChanged
<1>6. ASSUME NEW W, \A u \in T : W[u] = k.wspec[u], Agrees(k, X, W) \/ Raises(c), Pending(c, A, W)
      PROVE  \A u \in A : ExactFor(change_priority(c), W, u)
  <2>1. ASSUME NEW u \in T, k.state[u] \in TS_WAIT PROVE Link(k, A, u)
    <3> DEFINE w == k.wspec[u]
               o == k.pistsk[w]
    <3>1. /\ o \in T /\ w # p /\ w \in ToSet(k0.pislist[o])
          /\ \A v \in Task \ {o} : w \notin ToSet(k0.pislist[v])
          /\ \A q \in ToSet(k0.pislist[u]) : <<q, w>> \in IsBefore
      BY <1>1, <1>2, <2>1
    <3>2. w \in ToSet(k.pislist[o])
      BY <1>2, <1>3, <3>1
    <3>3. \A v \in A \ {o} : w \notin ToSet(k.pislist[v])
      BY <1>2, <3>1 DEF A, Living
    <3>4. \A q \in ToSet(k.pislist[u]) : <<q, w>> \in IsBefore
      BY <1>2, <1>3, <3>1
    <3> QED BY <3>2, <3>3, <3>4 DEF Link
  <2>2. Links(k, A, W, T)
    BY <1>3, <1>6, <2>1 DEF Links
  <2>3. c \in [k : KernelStates, t : T \cup {NoTask}, pri : Priority] /\ A \in SUBSET Task
    BY DEF T, A, Living
  <2>4. IsFiniteSet(Task) /\ Cardinality(Task) <= MAX_CHAIN
    BY PriSemAssumption
  <2> QED BY <1>4, <1>6, <2>2, <2>3, <2>4, Ordered, ChangesExact
<1>7. LeavesExact(c, X, T, change_priority(c))
  BY <1>6 DEF LeavesExact, A
<1> QED BY <1>5, <1>7 DEF T

(* The tasks and queues of a state whose lists of semaphores differ.       *)
LEMMA SoundLists ==
  ASSUME NEW X \in SUBSET Task, NEW k, Sound(k, X), NEW l \in [Task -> Queue(Pis)]
  PROVE  LET k2 == [k EXCEPT !.pislist = l] IN
         /\ Sound(k2, X)
         /\ k2.state = k.state /\ k2.wspec = k.wspec /\ k2.priority = k.priority
         /\ k2.pistsk = k.pistsk /\ k2.pislist = l
<1> DEFINE k2 == [k EXCEPT !.pislist = l]
<1>0. k \in KernelStates
  BY DEF Sound
<1>1. /\ k2.state = k.state /\ k2.wspec = k.wspec /\ k2.priority = k.priority
      /\ k2.wait_queue = k.wait_queue /\ k2.timer_queue = k.timer_queue
      /\ k2.ready_queue = k.ready_queue /\ k2.schedtsk = k.schedtsk
      /\ k2.pistsk = k.pistsk /\ k2.pislist = l /\ k2 \in KernelStates
  BY <1>0 DEF KernelStates
<1> HIDE DEF k2
<1>2. Sound(k2, X)
  BY <1>1 DEF Sound, Scheduled, Queued, ReadyIn, WaitIn
<1> QED BY <1>1, <1>2 DEF k2

(* release_prisem takes p from its task, whose priority falls to that of   *)
(* the tasks that wait for the others.                                     *)
LEMMA SemaphoreLost ==
  ASSUME NEW k, Sound(k, {}), NEW P \in SUBSET Pis, NEW p \in P, Owned(k, P, {}, {}),
         NEW t \in Task, k.pistsk[p] = t, ipriority \in PriorityMap
  PROVE  LET k2 == release_prisem(k, t, p) IN
         /\ Sound(k2, {})
         /\ OwnedBut(k2, P, {}, {}, p)
         /\ k2.state = k.state
         /\ \A u \in Task \ Above(k, p) : k2.priority[u] = k.priority[u]
         /\ AllExact(k, {}) => AllExact(k2, {})
<1> DEFINE list == queue_delete(k.pislist[t], p)
           l    == [k.pislist EXCEPT ![t] = list]
           k1   == [k EXCEPT !.pislist = l]
           new  == inherited(k, t, list)
           k2   == release_prisem(k, t, p)
           W    == WaitOf(k, {})
<1>t. /\ k \in KernelStates /\ k.pislist \in [Task -> Queue(Pis)] /\ k.priority \in PriorityMap
      /\ P \subseteq Pis /\ p \in Pis /\ {} \in SUBSET Task
      /\ k.pistsk \in [Pis -> Task \cup {NoTask}]
  BY KernelFields DEF Sound
<1>l. /\ p \in ToSet(k.pislist[t]) /\ \A u \in Task \ {t} : p \notin ToSet(k.pislist[u])
  BY DEF Owned, Listed
<1>1. list \in Queue(Pis) /\ ToSet(list) = ToSet(k.pislist[t]) \ {p}
  BY <1>t, <1>l, QueueDelete
<1>2. k1 = [k EXCEPT !.pislist[t] = queue_delete(@, p)] /\ k1.pislist[t] = list
  BY <1>t DEF KernelStates
<1>3. k2 = IF pis_waited(k, p) /\ k.priority[t] = pis_head_pri(k, p) /\ k.priority[t] < new
           THEN change_priority(to_change(k1, t, new)) ELSE k1
  BY <1>2 DEF release_prisem
<1> HIDE DEF list, k2
<1>4. l \in [Task -> Queue(Pis)]
  BY <1>t, <1>1
<1> HIDE DEF l
<1>5. /\ Sound(k1, {}) /\ k1.state = k.state /\ k1.wspec = k.wspec /\ k1.priority = k.priority
      /\ k1.pistsk = k.pistsk /\ k1.pislist = l /\ k1 \in KernelStates
  <2>1. /\ Sound(k1, {}) /\ k1.state = k.state /\ k1.wspec = k.wspec /\ k1.priority = k.priority
        /\ k1.pistsk = k.pistsk /\ k1.pislist = l
    BY <1>t, <1>4, SoundLists
  <2> QED BY <2>1 DEF Sound
<1> HIDE DEF k1
<1>6. l[t] = list /\ \A u \in Task \ {t} : l[u] = k.pislist[u]
  BY <1>t DEF l
<1>7. OwnedBut(k1, P, {}, {}, p)
  <2>1. \A u \in Task : ToSet(l[u]) = ToSet(k.pislist[u]) \ {p}
    BY <1>l, <1>1, <1>6
  <2>2. Held(k1, P)
    BY <1>5, <2>1 DEF Owned, Held
  <2>3. \A q \in P \ {p} : Listed(k1, P, {}, {}, q) /\ HasOwner(k1, {}, q)
    BY <1>5, <2>1 DEF Owned, Listed, HasOwner, AliveIn
  <2> QED BY <1>5, <2>1, <2>2, <2>3 DEF OwnedBut
<1>8. new \in Priority /\ \A V : Agrees(k, {}, V) => Least(new, Shares(k, V, t, list))
  BY <1>t, <1>1, Inherited
<1> HIDE DEF new
<1>w. Agrees(k, {}, W) /\ Agrees(k1, {}, W) /\ WaitOf(k1, {}) = W
      /\ \A u \in Task : W[u] = k.wspec[u]
  BY <1>5 DEF Agrees, WaitOf
<1> HIDE DEF W
<1>9. Least(new, Shares(k1, W, t, list))
  BY <1>5, <1>8, <1>w DEF Shares
<1>10. ASSUME AllExact(k, {}), NEW u \in Task \ {t}, AliveIn(k, u) PROVE ExactFor(k1, W, u)
  <2>1. ExactFor(k, W, u)
    BY <1>10 DEF AllExact, W
  <2>2. k1.pislist[u] = k.pislist[u]
    BY <1>5, <1>6
  <2> QED BY <1>5, <2>1, <2>2, SameExact
<1>11. CASE pis_waited(k, p) /\ k.priority[t] = pis_head_pri(k, p) /\ k.priority[t] < new
  <2> DEFINE c == to_change(k1, t, new)
  <2>1. c.k = k1 /\ c.t = t /\ c.pri = new /\ c = [k |-> k1, t |-> t, pri |-> new]
    BY DEF to_change
  <2>2. k2 = change_priority(c)
    BY <1>3, <1>11
  <2> HIDE DEF c
  <2>3. Lacks(k, c.k, p)
    <3>1. \A u \in Task : ToSet(l[u]) = ToSet(k.pislist[u]) \ {p}
      BY <1>l, <1>1, <1>6
    <3> QED BY <1>5, <2>1, <3>1 DEF Lacks
  <2>4. t \in Above(k, p)
    BY <1>t, <1>l, AboveLinks, ReadyQueueAssumption
  <2>5. c \in [k : KernelStates, t : Above(k, p) \cup {NoTask}, pri : Priority]
    BY <1>5, <1>8, <2>1, <2>4
  <2>6. /\ Sound(k2, {}) /\ Same(k1, k2) /\ LeavesExact(c, {}, Above(k, p), k2)
        /\ \A u \in Task \ Above(k, p) : k2.priority[u] = k1.priority[u]
    <3>1. Sound(c.k, {}) /\ \A u \in {} : k.wspec[u] = p
      BY <1>5, <2>1
    <3> QED BY <1>t, <2>1, <2>2, <2>3, <2>5, <3>1, ChainChanged
  <2>7. OwnedBut(k2, P, {}, {}, p) /\ k2.state = k.state
    BY <1>5, <1>7, <2>6 DEF Same, OwnedBut, Held, Listed, HasOwner, AliveIn
  <2>8. ASSUME AllExact(k, {}) PROVE AllExact(k2, {})
    <3>1. Pending(c, Living(k1, {}), W)
      <4>1. \A u \in Living(k1, {}) : u # t => ExactFor(k1, W, u)
        BY <1>5, <1>10, <2>8 DEF Living, AliveIn
      <4>2. Least(new, Shares(k1, W, t, k1.pislist[t]))
        BY <1>5, <1>6, <1>9
      <4> QED BY <2>1, <4>1, <4>2 DEF Pending
    <3>2. \A u \in Above(k, p) : W[u] = k1.wspec[u]
      BY <1>5, <1>w DEF Above
    <3>3. \A u \in Living(k1, {}) : ExactFor(k2, W, u)
      BY <1>w, <2>1, <2>6, <3>1, <3>2 DEF LeavesExact
    <3>4. WaitOf(k2, {}) = W /\ \A u \in Task : AliveIn(k2, u) => u \in Living(k1, {})
      BY <1>w, <2>6 DEF WaitOf, Same, Living, AliveIn
    <3> QED BY <3>3, <3>4 DEF AllExact
  <2> QED BY <1>5, <2>6, <2>7, <2>8 DEF k2
<1>12. CASE ~(pis_waited(k, p) /\ k.priority[t] = pis_head_pri(k, p) /\ k.priority[t] < new)
  <2>1. k2 = k1
    BY <1>3, <1>12
  <2>2. ASSUME AllExact(k, {}) PROVE AllExact(k1, {})
    <3> DEFINE d == k.pislist[t]
               v == k.priority[t]
    <3>1. AliveIn(k, t)
      BY <1>t, ReadyQueueAssumption DEF Owned, HasOwner
    <3>2. Least(v, Shares(k, W, t, d))
      BY <2>2, <3>1 DEF AllExact, ExactFor, W
    <3>3. \A u \in Donors(W, list) : u \in Donors(W, d)
      BY <1>1 DEF Donors
    <3>4. \A x \in Shares(k1, W, t, list) : x \in Shares(k, W, t, d)
      BY <1>5, <3>3 DEF Shares
    <3>5. v \in Shares(k1, W, t, list)
      <4>1. CASE v = ipriority[t]
        BY <4>1 DEF Shares
      <4>2. CASE v # ipriority[t]
        <5>1. PICK u \in Donors(W, d) : v = k.priority[u]
          BY <3>2, <4>2 DEF Least, Shares
        <5>2. CASE W[u] # p
          <6>1. u \in Donors(W, list)
            BY <1>1, <5>1, <5>2 DEF Donors
          <6> QED BY <1>5, <5>1, <6>1 DEF Shares
        <5>3. CASE W[u] = p
          <6> DEFINE q == k.wait_queue[p]
          <6>1. /\ q \in Queue(Task) /\ SortedBy(q, k.priority)
                /\ \A x : x \in ToSet(q) <=> x \in Task \ {} /\ k.wspec[x] = p
            BY <1>t, InQueue, PisAreObjects
          <6>2. u \in ToSet(q) /\ q # << >>
            <7>1. u \in Task /\ k.wspec[u] = p
              BY <1>w, <5>1, <5>3 DEF Donors
            <7>2. u \in ToSet(q)
              BY <6>1, <7>1
            <7> QED BY <7>2 DEF ToSet
          <6> HIDE DEF q
          <6>3. Head(q) \in ToSet(q) /\ k.priority[Head(q)] <= k.priority[u]
            BY <1>t, <6>1, <6>2, HeadLeast
          <6>4. pis_waited(k, p) /\ pis_head_pri(k, p) = k.priority[Head(q)]
            BY <6>2 DEF pis_waited, pis_head_pri, q
          <6>5. k.priority[Head(q)] \in Shares(k, W, t, d)
            <7>1. Head(q) \in Donors(W, d)
              BY <1>l, <1>w, <6>1, <6>3 DEF Donors
            <7> QED BY <7>1 DEF Shares
          <6>6. v <= k.priority[Head(q)] /\ v \in Nat /\ new \in Nat
                /\ k.priority[Head(q)] \in Nat
            BY <1>t, <1>8, <3>2, <6>1, <6>3, <6>5, PriorityRange DEF Least, PriorityMap
          <6>7. v = k.priority[Head(q)]
            BY <5>1, <6>3, <6>6
          <6>8. new <= v
            BY <1>12, <6>4, <6>6, <6>7
          <6>9. v <= new
            BY <1>9, <3>2, <3>4 DEF Least
          <6> QED BY <1>9, <6>6, <6>8, <6>9 DEF Least
        <5> QED BY <5>2, <5>3
      <4> QED BY <4>1, <4>2
    <3>6. ExactFor(k1, W, t)
      BY <1>5, <1>6, <3>2, <3>4, <3>5 DEF Least, ExactFor
    <3> QED BY <1>5, <1>10, <1>w, <2>2, <3>6 DEF AllExact, AliveIn
  <2> QED BY <1>5, <1>7, <2>1, <2>2 DEF k2
<1> QED BY <1>11, <1>12

(* If the priorities were exact but for the wait of t for p, which has     *)
(* ended, all are exact in k2.                                             *)
EndsExact(k, X, t, p, k2) ==
  \A W : /\ \A v \in Task \ {t} : W[v] = WaitOf(k, X)[v]
         /\ W[t] = p /\ WaitOf(k, X)[t] = "none"
         /\ \A u \in Living(k, X) : ExactFor(k, W, u)
         => AllExact(k2, X)

(* The hook for the end of the wait of t for p: the task that has p keeps  *)
(* the priority that the others give it.                                   *)
LEMMA OwnerFalls ==
  ASSUME NEW k0, Sound(k0, {}), NEW P \in SUBSET Pis, NEW p \in P, Owned(k0, P, {}, {}),
         NEW X \in SUBSET Task, \A u \in X : k0.wspec[u] = p,
         NEW k, Sound(k, X), Lacks(k0, k, p), k.pislist = k0.pislist,
         NEW t \in Task, k.pistsk[p] \in Task, ipriority \in PriorityMap
  PROVE  LET k2 == pis_rel_wai(k, t, p) IN
         /\ Sound(k2, X)
         /\ Same(k, k2)
         /\ \A u \in Task \ Above(k0, p) : k2.priority[u] = k.priority[u]
         /\ EndsExact(k, X, t, p, k2)
<1> DEFINE o    == k.pistsk[p]
           list == k.pislist[o]
           new  == inherited(k, o, list)
           c    == reset_priority(k, o)
           k2   == pis_rel_wai(k, t, p)
           V    == WaitOf(k, X)
<1>t. /\ k \in KernelStates /\ k.pislist \in [Task -> Queue(Pis)] /\ k.priority \in PriorityMap
      /\ p \in Pis /\ o \in Task /\ o # NoTask /\ list \in Queue(Pis) /\ 0 \in Priority
      /\ k.state = k0.state /\ k.wspec = k0.wspec /\ k.pistsk = k0.pistsk
  BY KernelFields, ReadyQueueAssumption DEF Sound, Lacks, Priority
<1>1. o \in Above(k0, p) /\ p \in ToSet(list) /\ \A u \in Task \ {o} : p \notin ToSet(k.pislist[u])
  <2>1. o \in Above(k0, p)
    BY <1>t, AboveLinks
  <2> QED BY <1>t, <2>1 DEF Owned, Listed
<1>2. new \in Priority /\ \A W : Agrees(k, X, W) => Least(new, Shares(k, W, o, list))
  BY <1>t, Inherited
<1>3. c = IF new # k.priority[o] THEN [k |-> k, t |-> o, pri |-> new]
          ELSE [k |-> k, t |-> NoTask, pri |-> 0]
  BY DEF reset_priority, to_change, no_change
<1>4. k2 = IF k.priority[o] = k.priority[t] THEN change_priority(c) ELSE k
  BY DEF pis_rel_wai
<1>w. Agrees(k, X, V) /\ \A u \in Task : V[u] = IF u \in X THEN "none" ELSE k.wspec[u]
  BY DEF Agrees, WaitOf
<1>x. \A u \in Above(k0, p) : u \in Task \ X
  <2>1. \A u \in Above(k0, p) : u \in Task /\ k0.wspec[u] # p
    BY AboveLinks
  <2> QED BY <2>1
<1> HIDE DEF new, c, k2, o, list, V
<1>5. /\ c.k = k /\ (c.t = NoTask \/ c.t = o) /\ c.pri \in Priority
      /\ c \in [k : KernelStates, t : Above(k0, p) \cup {NoTask}, pri : Priority]
  BY <1>t, <1>1, <1>2, <1>3
<1> DEFINE Before(W) == /\ \A v \in Task \ {t} : W[v] = V[v]
                        /\ W[t] = p /\ V[t] = "none"
                        /\ \A u \in Living(k, X) : ExactFor(k, W, u)
<1>n. "none" \notin ToSet(list) /\ \A u \in Task : "none" \notin ToSet(k.pislist[u])
  <2>1. \A q \in Queue(Pis) : ToSet(q) \subseteq Pis
    BY DEF Queue, ToSet
  <2>2. list \in Queue(Pis) /\ \A u \in Task : k.pislist[u] \in Queue(Pis)
    BY <1>t DEF list
  <2> QED BY <2>1, <2>2, PisAreObjects
<1>6. ASSUME NEW W, Before(W), NEW u \in Living(k, X), u # o PROVE ExactFor(k, V, u)
  <2>1. ExactFor(k, W, u) /\ u \in Task
    BY <1>6 DEF Living
  <2>2. \A v \in Task : V[v] \in ToSet(k.pislist[u]) <=> W[v] \in ToSet(k.pislist[u])
    BY <1>1, <1>6, <1>n, <2>1
  <2> QED BY <2>1, <2>2, SameExact
<1>7. Least(new, Shares(k, V, o, list))
  BY <1>2, <1>w
<1>8. CASE k.priority[o] = k.priority[t]
  <2>1. k2 = change_priority(c)
    BY <1>4, <1>8
  <2>2. /\ Sound(k2, X) /\ Same(k, k2)
        /\ \A u \in Task \ Above(k0, p) : k2.priority[u] = k.priority[u]
        /\ LeavesExact(c, X, Above(k0, p), k2)
    BY <1>5, <2>1, ChainChanged
  <2>3. ASSUME NEW W, Before(W) PROVE AllExact(k2, X)
    <3>1. Pending(c, Living(k, X), V)
      <4>1. ASSUME NEW u \in Living(k, X), u # c.t PROVE ExactFor(k, V, u)
        <5>1. CASE u # o
          BY <1>6, <2>3, <5>1
        <5>2. CASE u = o
          <6>1. new = k.priority[o]
            BY <1>3, <4>1, <5>2
          <6> QED BY <1>7, <5>2, <6>1 DEF ExactFor, list
        <5> QED BY <5>1, <5>2
      <4>2. c.t # NoTask => Least(c.pri, Shares(k, V, c.t, k.pislist[c.t]))
        BY <1>3, <1>7 DEF list
      <4> QED BY <1>5, <4>1, <4>2 DEF Pending
    <3>2. \A u \in Above(k0, p) : V[u] = k.wspec[u]
      BY <1>w, <1>x
    <3>3. \A u \in Living(k, X) : ExactFor(k2, V, u)
      BY <1>5, <1>w, <2>2, <3>1, <3>2 DEF LeavesExact
    <3>4. WaitOf(k2, X) = V /\ \A u \in Task \ X : AliveIn(k2, u) => u \in Living(k, X)
      BY <2>2 DEF WaitOf, V, Same, Living, AliveIn
    <3> QED BY <3>3, <3>4 DEF AllExact
  <2> QED BY <2>2, <2>3 DEF k2, V, EndsExact
<1>9. CASE k.priority[o] # k.priority[t]
  <2>1. k2 = k
    BY <1>4, <1>9
  <2>2. ASSUME NEW W, Before(W) PROVE AllExact(k, X)
    <3>1. ASSUME NEW u \in Living(k, X) PROVE ExactFor(k, V, u)
      <4>1. CASE u # o
        BY <1>6, <2>2, <4>1
      <4>2. CASE u = o
        <5>1. Least(k.priority[o], Shares(k, W, o, list))
          BY <2>2, <3>1, <4>2 DEF ExactFor, list
        <5>2. \A v \in Donors(V, list) : v \in Donors(W, list)
          BY <1>n, <2>2 DEF Donors
        <5>3. \A v \in Donors(W, list) : v # t => v \in Donors(V, list)
          BY <2>2 DEF Donors
        <5>4. k.priority[o] \in Shares(k, V, o, list)
          BY <1>9, <5>1, <5>3 DEF Least, Shares
        <5>5. \A x \in Shares(k, V, o, list) : k.priority[o] <= x
          BY <5>1, <5>2 DEF Least, Shares
        <5> QED BY <4>2, <5>4, <5>5 DEF ExactFor, Least, list
      <4> QED BY <4>1, <4>2
    <3> QED BY <3>1 DEF AllExact, Living, V
  <2>3. Same(k, k)
    BY DEF Same
  <2> QED BY <2>1, <2>2, <2>3 DEF k2, V, EndsExact
<1> QED BY <1>8, <1>9

(* A task s that is about to wait for p raises the task that has it.       *)
LEMMA OwnerRaised ==
  ASSUME NEW k, Sound(k, {}), NEW P \in SUBSET Pis, NEW p \in P, Owned(k, P, {}, {}),
         NEW s \in Task \ Above(k, p), k.wspec[s] = "none", k.pistsk[p] \in Task,
         ipriority \in PriorityMap
  PROVE  LET o  == k.pistsk[p]
             k2 == IF k.priority[o] > k.priority[s]
                   THEN change_priority(to_change(k, o, k.priority[s])) ELSE k
         IN  /\ Sound(k2, {})
             /\ Same(k, k2)
             /\ \A u \in Task \ Above(k, p) : k2.priority[u] = k.priority[u]
             /\ AllExact(k, {}) =>
                  \A W : W[s] = p /\ (\A v \in Task \ {s} : W[v] = k.wspec[v])
                         => \A u \in Living(k, {}) : ExactFor(k2, W, u)
<1> DEFINE o    == k.pistsk[p]
           v    == k.priority[s]
           list == k.pislist[o]
           c    == to_change(k, o, v)
           k2   == IF k.priority[o] > v THEN change_priority(c) ELSE k
           V    == WaitOf(k, {})
<1>t. /\ k \in KernelStates /\ k.pislist \in [Task -> Queue(Pis)] /\ k.priority \in PriorityMap
      /\ p \in Pis /\ o \in Task /\ o # NoTask /\ v \in Priority /\ v \in Nat
      /\ \A u \in Task : k.priority[u] \in Nat
  BY KernelFields, ReadyQueueAssumption, PriorityRange DEF Sound, PriorityMap
<1>1. /\ o \in Above(k, p) /\ p \in ToSet(list)
      /\ \A u \in Task \ {o} : p \notin ToSet(k.pislist[u])
      /\ \A u \in Above(k, p) : u \in Task /\ AliveIn(k, u)
  <2>1. o \in Above(k, p) /\ \A u \in Above(k, p) : u \in Task /\ AliveIn(k, u)
    BY <1>t, AboveLinks
  <2> QED BY <1>t, <2>1 DEF Owned, Listed
<1>n. \A u \in Task : "none" \notin ToSet(k.pislist[u])
  BY <1>t, PisAreObjects, QueueEntries
<1>w. \A u \in Task : V[u] = k.wspec[u]
  BY DEF WaitOf
<1> HIDE DEF o, v, list, V
<1> DEFINE After(W) == W[s] = p /\ \A u \in Task \ {s} : W[u] = k.wspec[u]
<1>2. ASSUME NEW W, After(W), AllExact(k, {}), NEW u \in Living(k, {}), u # o PROVE ExactFor(k, W, u)
  <2>1. ExactFor(k, V, u) /\ u \in Task
    BY <1>2 DEF Living, AllExact, V
  <2>2. \A x \in Task : W[x] \in ToSet(k.pislist[u]) <=> V[x] \in ToSet(k.pislist[u])
    BY <1>1, <1>2, <1>n, <1>w, <2>1
  <2> QED BY <2>1, <2>2, SameExact
<1>3. ASSUME NEW W, After(W), AllExact(k, {})
      PROVE  /\ \A x \in Shares(k, W, o, list) : k.priority[o] <= x \/ x = v
             /\ k.priority[o] \in Shares(k, W, o, list)
             /\ v \in Shares(k, W, o, list)
  <2>1. Least(k.priority[o], Shares(k, V, o, list))
    <3>1. o \in Task \ {} /\ AliveIn(k, o)
      BY <1>t, <1>1
    <3> QED BY <1>3, <3>1 DEF AllExact, ExactFor, list, V
  <2>2. \A x \in Donors(V, list) : x \in Donors(W, list)
    BY <1>3, <1>n, <1>t, <1>w DEF Donors, list
  <2>3. \A x \in Donors(W, list) : x = s \/ x \in Donors(V, list)
    BY <1>3, <1>w DEF Donors
  <2>4. s \in Donors(W, list)
    BY <1>1, <1>3 DEF Donors
  <2> QED BY <2>1, <2>2, <2>3, <2>4 DEF Least, Shares, v
<1>4. CASE k.priority[o] > v
  <2>1. /\ c.k = k /\ c.t = o /\ c.pri = v
        /\ c \in [k : KernelStates, t : Above(k, p) \cup {NoTask}, pri : Priority]
    BY <1>t, <1>1 DEF to_change
  <2> HIDE DEF c
  <2> DEFINE k3 == change_priority(c)
  <2>2. /\ Sound(k3, {}) /\ Same(k, k3)
        /\ \A u \in Task \ Above(k, p) : k3.priority[u] = k.priority[u]
        /\ LeavesExact(c, {}, Above(k, p), k3)
    <3>1. Lacks(k, c.k, p) /\ {} \in SUBSET Task /\ \A u \in {} : k.wspec[u] = p
      BY <2>1 DEF Lacks
    <3> HIDE DEF k3
    <3>2. Sound(c.k, {})
      BY <2>1
    <3> QED BY <2>1, <3>1, <3>2, ChainChanged DEF k3
  <2> HIDE DEF k3
  <2>3. ASSUME AllExact(k, {}), NEW W, After(W)
        PROVE  \A u \in Living(k, {}) : ExactFor(k3, W, u)
    <3>1. Pending(c, Living(k, {}), W)
      <4>1. \A u \in Living(k, {}) : u # c.t => ExactFor(k, W, u)
        BY <1>2, <2>1, <2>3
      <4>2. Least(v, Shares(k, W, o, list))
        <5>1. ASSUME NEW x \in Shares(k, W, o, list) PROVE v <= x
          <6>1. x \in Nat
            <7>1. ipriority[o] \in Nat
              BY <1>t, PriorityRange DEF PriorityMap
            <7> QED BY <1>t, <7>1 DEF Shares, Donors
          <6>2. k.priority[o] <= x \/ x = v
            BY <1>3, <2>3
          <6>3. k.priority[o] \in Nat
            BY <1>t
          <6> QED BY <1>4, <1>t, <6>1, <6>2, <6>3
        <5>2. v \in Shares(k, W, o, list)
          BY <1>3, <2>3
        <5> QED BY <5>1, <5>2 DEF Least
      <4> QED BY <2>1, <4>1, <4>2 DEF Pending, list
    <3>2. \A u \in Above(k, p) : W[u] = k.wspec[u]
      BY <1>1, <2>3
    <3>3. Raises(c)
      BY <1>4, <1>t, <2>1 DEF Raises
    <3> QED BY <2>1, <2>2, <3>1, <3>2, <3>3 DEF LeavesExact
  <2>4. \A u \in Task \ Above(k, p) : k3.priority[u] = k.priority[u]
    BY <2>2
  <2>5. k2 = k3
    BY <1>4 DEF k3
  <2> HIDE DEF k2
  <2> QED BY <2>2, <2>3, <2>4, <2>5 DEF k2, o, v, c
<1>5. CASE ~(k.priority[o] > v)
  <2>1. k2 = k
    BY <1>5
  <2>2. ASSUME AllExact(k, {}), NEW W, After(W), NEW u \in Living(k, {}) PROVE ExactFor(k, W, u)
    <3>1. CASE u # o
      BY <1>2, <2>2, <3>1
    <3>2. CASE u = o
      <4>1. k.priority[o] <= v
        BY <1>5, <1>t
      <4>2. Least(k.priority[o], Shares(k, W, o, list))
        BY <1>3, <2>2, <4>1 DEF Least
      <4> QED BY <3>2, <4>2 DEF ExactFor, list
    <3> QED BY <3>1, <3>2
  <2>3. Same(k, k)
    BY DEF Same
  <2> HIDE DEF k2
  <2> QED BY <2>1, <2>2, <2>3 DEF k2, o, v, c
<1> QED BY <1>4, <1>5

-----------------------------------------------------------------------------
(***************************************************************************)
(* The begin of a wait.                                                    *)
(***************************************************************************)
(* The ready task s goes to the queue of p.                                *)
Enqueue(k, s, p, timed) ==
  LET rq == ready_queue_delete(k.ready_queue, s, k.priority[s])
  IN  [k EXCEPT !.state[s] = "WAIT",
                !.ready_queue = rq,
                !.schedtsk = IF @ = s THEN ready_queue_top(rq) ELSE @,
                !.wspec[s] = p,
                !.wait_queue[p] = queue_insert_tpri(@, s, k.priority),
                !.timer_queue = IF timed THEN @ \cup {s} ELSE @]

(* A task leaves the ready queue; the first of the others is scheduled.    *)
LEMMA OutOfReadyQueue ==
  ASSUME NEW X \in SUBSET Task, NEW k, Sound(k, X), NEW t \in Task \ X, k.state[t] = "READY"
  PROVE  LET rq  == ready_queue_delete(k.ready_queue, t, k.priority[t])
             top == IF k.schedtsk = t THEN ready_queue_top(rq) ELSE k.schedtsk
         IN  /\ Consistent(rq, ReadyIn(k, X) \ {t}, k.priority)
             /\ rq \in RDYQUE
             /\ top = ready_queue_top(rq) /\ top \in Task \cup {NoTask}
<1> DEFINE S   == ReadyIn(k, X)
           pri == k.priority
           old == k.ready_queue
           rq  == ready_queue_delete(old, t, pri[t])
<1>1. /\ Consistent(old, S, pri) /\ S \in SUBSET Task /\ pri \in PriorityMap
      /\ k.schedtsk = ready_queue_top(old)
  BY ReadyHolds
<1>2. t \in S
  BY DEF ReadyIn
<1> HIDE DEF S, pri, old
<1>3. /\ Consistent(rq, S \ {t}, pri)
      /\ t # ready_queue_top(old) => ready_queue_top(rq) = ready_queue_top(old)
  BY <1>1, <1>2, ReadyQueueDelete
<1>4. S \ {t} \in SUBSET Task
  BY <1>1
<1> HIDE DEF rq
<1>5. ready_queue_top(rq) \in Task \cup {NoTask} /\ rq \in RDYQUE
  BY <1>1, <1>3, <1>4, ReadyQueueTop DEF Consistent
<1> QED BY <1>1, <1>3, <1>5 DEF S, pri, old, rq

(* It is queued in the order of priorities, and another is scheduled.      *)
LEMMA Enqueued ==
  ASSUME NEW k, Sound(k, {}), NEW s \in Task, k.state[s] = "READY", NEW p \in Pis, NEW timed
  PROVE  LET k2 == Enqueue(k, s, p, timed) IN
         /\ Sound(k2, {})
         /\ k2.state = [k.state EXCEPT ![s] = "WAIT"]
         /\ k2.wspec = [k.wspec EXCEPT ![s] = p]
         /\ k2.priority = k.priority /\ k2.pistsk = k.pistsk /\ k2.pislist = k.pislist
<1> DEFINE k2 == Enqueue(k, s, p, timed)
           rq == ready_queue_delete(k.ready_queue, s, k.priority[s])
           top == IF k.schedtsk = s THEN ready_queue_top(rq) ELSE k.schedtsk
           q2  == queue_insert_tpri(k.wait_queue[p], s, k.priority)
           tq  == IF timed THEN k.timer_queue \cup {s} ELSE k.timer_queue
<1>t. /\ k \in KernelStates /\ {} \in SUBSET Task /\ s \in Task \ {} /\ p \in Gcb /\ p # "none"
      /\ k.state \in [Task -> TSTAT] /\ k.wspec \in [Task -> Pis \cup {"none"}]
      /\ k.wait_queue \in [Gcb -> Seq(Task)] /\ k.priority \in PriorityMap
      /\ k.timer_queue \in SUBSET Task
      /\ k.wspec[s] = "none"
  BY KernelFields, PisAreObjects, WaitsForPis DEF Sound, TS_WAIT
<1>1. /\ k2.state = [k.state EXCEPT ![s] = "WAIT"]
      /\ k2.wspec = [k.wspec EXCEPT ![s] = p]
      /\ k2.priority = k.priority /\ k2.pistsk = k.pistsk /\ k2.pislist = k.pislist
      /\ k2.ready_queue = rq /\ k2.schedtsk = top /\ k2.timer_queue = tq
      /\ k2.wait_queue = [k.wait_queue EXCEPT ![p] = q2]
  BY <1>t DEF KernelStates, Enqueue
<1>2. /\ Consistent(rq, ReadyIn(k, {}) \ {s}, k.priority)
      /\ rq \in RDYQUE
      /\ top = ready_queue_top(rq) /\ top \in Task \cup {NoTask}
  BY <1>t, OutOfReadyQueue
<1>3. k2 = [k EXCEPT !.state = [k.state EXCEPT ![s] = "WAIT"],
                     !.wspec = [k.wspec EXCEPT ![s] = p],
                     !.ready_queue = rq, !.schedtsk = top, !.timer_queue = tq,
                     !.wait_queue = [k.wait_queue EXCEPT ![p] = q2]]
  BY <1>t DEF KernelStates, Enqueue
<1> HIDE DEF k2, rq, top
<1>4. /\ q2 \in Queue(Task) /\ ToSet(q2) = ToSet(k.wait_queue[p]) \cup {s}
      /\ SortedBy(q2, k.priority)
  <2> DEFINE q == k.wait_queue[p]
  <2>1. /\ q \in Queue(Task) /\ SortedBy(q, k.priority)
        /\ \A u : u \in ToSet(q) <=> u \in Task \ {} /\ k.wspec[u] = p
    BY <1>t, InQueue
  <2>2. s \in Task \ ToSet(q)
    BY <1>t, <2>1
  <2> HIDE DEF q
  <2>3. /\ queue_insert_tpri(q, s, k.priority) \in Queue(Task)
        /\ ToSet(queue_insert_tpri(q, s, k.priority)) = ToSet(q) \cup {s}
        /\ SortedBy(queue_insert_tpri(q, s, k.priority), k.priority)
    BY <1>t, <2>1, <2>2, InsertSorted
  <2> QED BY <2>3 DEF q
<1> HIDE DEF q2
<1>5. tq \in SUBSET Task /\ tq \subseteq k.timer_queue \cup {s}
  BY <1>t
<1> HIDE DEF tq
<1>6. k2 \in KernelStates
  <2>1. [k.wait_queue EXCEPT ![p] = q2] \in [Gcb -> Seq(Task)]
    BY <1>t, <1>4 DEF Queue
  <2>2. [k.state EXCEPT ![s] = "WAIT"] \in [Task -> TSTAT]
    BY <1>t DEF TSTAT
  <2>3. [k.wspec EXCEPT ![s] = p] \in [Task -> Pis \cup {"none"}]
    BY <1>t
  <2> QED BY <1>t, <1>2, <1>3, <1>5, <2>1, <2>2, <2>3 DEF KernelStates
<1>7. Scheduled(k2, {})
  <2>1. ReadyIn(k2, {}) = ReadyIn(k, {}) \ {s}
    BY <1>t, <1>1 DEF ReadyIn
  <2> QED BY <1>1, <1>2, <2>1 DEF Scheduled
<1>8. Queued(k2, {})
  <2>1. \A u \in Task : k2.state[u] \in TS_WAIT <=> k2.wspec[u] # "none"
    BY <1>t, <1>1 DEF Sound, Queued, TS_WAIT
  <2>2. k2.timer_queue \subseteq WaitIn(k2, {})
    <3>1. \A u \in k.timer_queue : u \in Task /\ k.state[u] \in TS_WAIT
      BY DEF Sound, Queued, WaitIn
    <3> QED BY <1>t, <1>1, <1>5, <3>1 DEF WaitIn, TS_WAIT
  <2>3. ASSUME NEW g \in Gcb
        PROVE  /\ k2.wait_queue[g] \in Queue(Task)
               /\ ToSet(k2.wait_queue[g]) = {u \in Task \ {} : k2.wspec[u] = g}
               /\ SortedBy(k2.wait_queue[g], k2.priority)
    <3>1. /\ k.wait_queue[g] \in Queue(Task) /\ SortedBy(k.wait_queue[g], k.priority)
          /\ \A u : u \in ToSet(k.wait_queue[g]) <=> u \in Task \ {} /\ k.wspec[u] = g
      BY <1>t, InQueue
    <3>2. CASE g = p
      <4>1. k2.wait_queue[g] = q2
        BY <1>t, <1>1, <3>2
      <4>2. ToSet(q2) = {u \in Task \ {} : k2.wspec[u] = g}
        BY <1>t, <1>1, <1>4, <3>1, <3>2
      <4> QED BY <1>1, <1>4, <4>1, <4>2
    <3>3. CASE g # p
      <4>1. k2.wait_queue[g] = k.wait_queue[g]
        BY <1>t, <1>1, <3>3
      <4>2. ToSet(k.wait_queue[g]) = {u \in Task \ {} : k2.wspec[u] = g}
        BY <1>t, <1>1, <3>1, <3>3, TaskCoreAssumption
      <4> QED BY <1>1, <3>1, <4>1, <4>2
    <3> QED BY <3>2, <3>3
  <2> QED BY <2>1, <2>2, <2>3 DEF Queued
<1>9. Sound(k2, {})
  BY <1>6, <1>7, <1>8 DEF Sound
<1> QED BY <1>1, <1>9 DEF k2

(* The tasks that are not alive keep their priorities.                     *)
Spares(k, k2) == \A u \in Task : ~AliveIn(k, u) => k2.priority[u] = k.priority[u]

(* Only tasks that are alive are above a semaphore.                        *)
LEMMA AboveSpares ==
  ASSUME NEW k, NEW k2, NEW p, \A u \in Task \ Above(k, p) : k2.priority[u] = k.priority[u]
  PROVE  Spares(k, k2)
BY DEF Spares, Above

(* The task o that has what s is to wait for gets its priority, if higher. *)
Raised(k, o, s) ==
  IF k.priority[o] > k.priority[s]
  THEN change_priority(to_change(k, o, k.priority[s])) ELSE k

WaitsNow(k, k2, s) == k2.state = [k.state EXCEPT ![s] = "WAIT"]

(* A task that takes semaphores in order is not above the next.            *)
LEMMA NotAbove ==
  ASSUME NEW k, NEW P \in SUBSET Pis, NEW p \in P, Owned(k, P, {}, {}), NEW s \in Task,
         \A q \in ToSet(k.pislist[s]) : <<q, p>> \in IsBefore
  PROVE  s \notin Above(k, p)
<1> SUFFICES ASSUME s \in Above(k, p) PROVE FALSE
  OBVIOUS
<1>1. PICK q \in ToSet(k.pislist[s]) : q = p \/ <<p, q>> \in IsBefore
  BY DEF Above
<1>2. p \in Pis /\ q \in Pis /\ <<q, p>> \in IsBefore
  BY DEF Owned, Held
<1> QED BY <1>1, <1>2, Ordered DEF StrictOrder

(* The task s waits for p, which another task has: that one is raised      *)
(* before s is queued, and all priorities are exact again.                 *)
LEMMA WaitBegins ==
  ASSUME NEW k, Sound(k, {}), NEW P \in SUBSET Pis, NEW p \in P, Owned(k, P, {}, {}),
         NEW s \in Task, k.state[s] = "READY", k.pistsk[p] \in Task,
         \A q \in ToSet(k.pislist[s]) : <<q, p>> \in IsBefore,
         ipriority \in PriorityMap, NEW timed,
         NEW k1, k1 = Raised(k, k.pistsk[p], s), NEW k2, k2 = Enqueue(k1, s, p, timed)
  PROVE  /\ Sound(k2, {})
         /\ Owned(k2, P, {}, {})
         /\ AllExact(k, {}) => AllExact(k2, {})
         /\ k1.state = k.state
         /\ WaitsNow(k, k2, s)
         /\ Spares(k, k2)
<1> DEFINE W  == WaitOf(k2, {})
           Exact(V) == \A u \in Living(k, {}) : ExactFor(k1, V, u)
<1>t. /\ k \in KernelStates /\ k.state \in [Task -> TSTAT]
      /\ k.wspec \in [Task -> Pis \cup {"none"}] /\ p \in Pis /\ {} \in SUBSET Task
      /\ k.wspec[s] = "none"
  BY KernelFields, WaitsForPis DEF Sound, TS_WAIT
<1>1. s \in Task \ Above(k, p)
  BY NotAbove
<1>2. /\ Sound(k1, {}) /\ Same(k, k1)
      /\ \A u \in Task \ Above(k, p) : k1.priority[u] = k.priority[u]
      /\ AllExact(k, {}) =>
           \A V : V[s] = p /\ (\A v \in Task \ {s} : V[v] = k.wspec[v]) => Exact(V)
  <2> DEFINE o  == k.pistsk[p]
             kk == IF k.priority[o] > k.priority[s]
                   THEN change_priority(to_change(k, o, k.priority[s])) ELSE k
  <2>1. /\ Sound(kk, {}) /\ Same(k, kk)
        /\ \A u \in Task \ Above(k, p) : kk.priority[u] = k.priority[u]
        /\ AllExact(k, {}) =>
             \A V : V[s] = p /\ (\A v \in Task \ {s} : V[v] = k.wspec[v]) =>
               \A u \in Living(k, {}) : ExactFor(kk, V, u)
    BY <1>t, <1>1, OwnerRaised
  <2>2. k1 = kk
    BY DEF Raised
  <2> HIDE DEF kk
  <2> QED BY <2>1, <2>2
<1>3. /\ k1.state = k.state /\ k1.wspec = k.wspec
      /\ k1.pistsk = k.pistsk /\ k1.pislist = k.pislist
  BY <1>2 DEF Same
<1>4. /\ Sound(k2, {})
      /\ k2.state = [k1.state EXCEPT ![s] = "WAIT"]
      /\ k2.wspec = [k1.wspec EXCEPT ![s] = p]
      /\ k2.priority = k1.priority /\ k2.pistsk = k1.pistsk /\ k2.pislist = k1.pislist
  <2> DEFINE kk == Enqueue(k1, s, p, timed)
  <2>1. /\ Sound(kk, {})
        /\ kk.state = [k1.state EXCEPT ![s] = "WAIT"]
        /\ kk.wspec = [k1.wspec EXCEPT ![s] = p]
        /\ kk.priority = k1.priority /\ kk.pistsk = k1.pistsk /\ kk.pislist = k1.pislist
    BY <1>t, <1>2, <1>3, Enqueued
  <2> QED BY <2>1
<1>5. \A u \in Task : /\ AliveIn(k2, u) <=> AliveIn(k, u)
                      /\ k2.wspec[u] = IF u = s THEN p ELSE k.wspec[u]
  BY <1>t, <1>3, <1>4 DEF AliveIn, TS_WAIT
<1>6. Owned(k2, P, {}, {})
  <2>1. Held(k2, P)
    BY <1>3, <1>4, <1>5 DEF Owned, Held
  <2>2. \A q \in P : Listed(k2, P, {}, {}, q)
    BY <1>3, <1>4 DEF Owned, Listed
  <2>3. ASSUME NEW q \in P PROVE HasOwner(k2, {}, q)
    <3>1. q \in Pis /\ (k.pistsk[q] = NoTask \/ k.pistsk[q] \in Task)
      BY KernelFields, <1>t
    <3>2. HasOwner(k, {}, q)
      BY DEF Owned
    <3>3. k2.pistsk[q] = k.pistsk[q]
      BY <1>3, <1>4
    <3> QED BY <1>5, <3>1, <3>2, <3>3, ReadyQueueAssumption DEF HasOwner
  <2> QED BY <2>1, <2>2, <2>3 DEF Owned
<1>7. ASSUME AllExact(k, {}) PROVE AllExact(k2, {})
  <2>1. W[s] = p /\ \A v \in Task \ {s} : W[v] = k.wspec[v]
    BY <1>5 DEF WaitOf
  <2> HIDE DEF W
  <2>2. Exact(W)
    BY <1>2, <1>7, <2>1
  <2>3. ASSUME NEW u \in Task \ {}, AliveIn(k2, u) PROVE ExactFor(k2, W, u)
    <3>1. ExactFor(k1, W, u)
      BY <1>5, <2>2, <2>3 DEF Living
    <3> QED BY <1>4, <3>1, SameExact
  <2> QED BY <2>3 DEF AllExact, W
<1>8. Spares(k, k2)
  BY <1>2, <1>4, AboveSpares
<1> QED BY <1>3, <1>4, <1>6, <1>7, <1>8 DEF WaitsNow

(* s takes p, which is free.                                               *)
Takes(k, s, p) == [k EXCEPT !.pistsk[p] = s, !.pislist[s] = <<p>> \o @]

(* The task s takes p, which no task has.                                  *)
LEMMA TakesFree ==
  ASSUME NEW k, Sound(k, {}), NEW P \in SUBSET Pis, NEW p \in P, Owned(k, P, {}, {}),
         NEW s \in Task, k.state[s] \in {"READY", "SUSPEND"}, k.pistsk[p] = NoTask,
         NEW k2, k2 = Takes(k, s, p)
  PROVE  /\ Sound(k2, {})
         /\ Owned(k2, P, {}, {})
         /\ AllExact(k, {}) => AllExact(k2, {})
         /\ k2.state = k.state /\ k2.priority = k.priority
<1> DEFINE list == <<p>> \o k.pislist[s]
           l    == [k.pislist EXCEPT ![s] = list]
<1>t. /\ k \in KernelStates /\ k.pislist \in [Task -> Queue(Pis)] /\ p \in Pis
      /\ k.pistsk \in [Pis -> Task \cup {NoTask}] /\ {} \in SUBSET Task
      /\ k.wspec[s] = "none" /\ AliveIn(k, s) /\ s # NoTask
  BY KernelFields, WaitsForPis, ReadyQueueAssumption DEF Sound, TS_WAIT, TS_SUSPEND, AliveIn
<1>1. /\ \A u \in Task : p \notin ToSet(k.pislist[u])
      /\ \A u \in Task : k.wspec[u] # p
  BY <1>t, ReadyQueueAssumption DEF Owned, Listed, HasOwner
<1>2. list \in Queue(Pis) /\ ToSet(list) = {p} \cup ToSet(k.pislist[s])
  BY <1>t, <1>1, Taken
<1>3. /\ k2 = [k EXCEPT !.pistsk = [k.pistsk EXCEPT ![p] = s], !.pislist = l]
      /\ k2.state = k.state /\ k2.priority = k.priority /\ k2.wspec = k.wspec
      /\ k2.wait_queue = k.wait_queue /\ k2.timer_queue = k.timer_queue
      /\ k2.ready_queue = k.ready_queue /\ k2.schedtsk = k.schedtsk
      /\ k2.pistsk = [k.pistsk EXCEPT ![p] = s] /\ k2.pislist = l
  BY <1>t DEF KernelStates, Takes
<1> HIDE DEF list
<1>4. l \in [Task -> Queue(Pis)] /\ l[s] = list /\ \A u \in Task \ {s} : l[u] = k.pislist[u]
  BY <1>t, <1>2
<1> HIDE DEF l
<1>5. Sound(k2, {})
  <2>1. k2 \in KernelStates
    <3>1. [k.pistsk EXCEPT ![p] = s] \in [Pis -> Task \cup {NoTask}]
      BY <1>t
    <3> DEFINE o == [k.pistsk EXCEPT ![p] = s]
    <3> HIDE DEF o
    <3>2. k2 = [k EXCEPT !.pistsk = o, !.pislist = l] /\ o \in [Pis -> Task \cup {NoTask}]
      BY <1>3, <3>1 DEF o
    <3> QED BY <1>t, <1>4, <3>2 DEF KernelStates
  <2> QED BY <1>3, <2>1 DEF Sound, Scheduled, Queued, ReadyIn, WaitIn
<1>6. Owned(k2, P, {}, {})
  <2>1. Held(k2, P)
    BY <1>t, <1>2, <1>3, <1>4 DEF Owned, Held
  <2>2. \A q \in P : Listed(k2, P, {}, {}, q)
    BY <1>t, <1>1, <1>2, <1>3, <1>4, ReadyQueueAssumption DEF Owned, Listed
  <2>3. \A q \in P : HasOwner(k2, {}, q)
    BY <1>t, <1>1, <1>3 DEF Owned, HasOwner, AliveIn
  <2> QED BY <2>1, <2>2, <2>3 DEF Owned
<1>7. ASSUME AllExact(k, {}) PROVE AllExact(k2, {})
  <2> DEFINE W == WaitOf(k, {})
  <2>1. WaitOf(k2, {}) = W /\ \A u \in Task : W[u] = k.wspec[u]
    BY <1>3 DEF WaitOf
  <2> HIDE DEF W
  <2>2. ASSUME NEW u \in Task, AliveIn(k2, u) PROVE ExactFor(k2, W, u)
    <3>1. ExactFor(k, W, u)
      BY <1>3, <1>7, <2>2 DEF AllExact, AliveIn, W
    <3>2. \A v \in Task : W[v] \in ToSet(k2.pislist[u]) <=> W[v] \in ToSet(k.pislist[u])
      BY <1>1, <1>2, <1>3, <1>4, <2>1
    <3> QED BY <1>3, <3>1, <3>2, SameExact
  <2> QED BY <2>1, <2>2 DEF AllExact
<1> QED BY <1>3, <1>5, <1>6, <1>7

-----------------------------------------------------------------------------
(***************************************************************************)
(* The end of a wait for a semaphore, and of a task.                       *)
(***************************************************************************)
(* A task that waits for p waits for a semaphore that exists and is had.   *)
LEMMA WaitsForOwned ==
  ASSUME NEW k, Sound(k, {}), NEW P \in SUBSET Pis, Owned(k, P, {}, {}),
         NEW t \in Task, k.state[t] \in TS_WAIT
  PROVE  k.wspec[t] \in P /\ k.pistsk[k.wspec[t]] \in Task
<1>1. k.wspec[t] \in Pis /\ k.wspec[t] # "none"
  BY WaitsForPis, PisAreObjects
<1>2. k.wspec[t] \in P
  BY <1>1 DEF Owned, Held
<1>3. k.pistsk[k.wspec[t]] # NoTask
  BY <1>2 DEF Owned, HasOwner
<1> QED BY <1>1, <1>2, <1>3, KernelFields DEF Sound

(* The wait of t ends without the semaphore.                               *)
LEMMA WaitBroken ==
  ASSUME NEW k, Sound(k, {}), NEW P \in SUBSET Pis, Owned(k, P, {}, {}),
         NEW t \in Task, k.state[t] \in TS_WAIT, ipriority \in PriorityMap
  PROVE  LET k2 == pis_rel_wai(released(k, t), t, k.wspec[t]) IN
         /\ Sound(k2, {})
         /\ Owned(k2, P, {}, {})
         /\ AllExact(k, {}) => AllExact(k2, {})
         /\ Eases(k.state, k2.state)
         /\ Spares(k, k2)
<1> DEFINE p  == k.wspec[t]
           k1 == released(k, t)
           k2 == pis_rel_wai(k1, t, p)
           W  == WaitOf(k, {})
<1>1. /\ p \in P /\ k.pistsk[p] \in Task /\ {} \in SUBSET Task /\ t \in Task \ {}
      /\ k \in KernelStates /\ k.state \in [Task -> TSTAT]
      /\ k.wspec \in [Task -> Pis \cup {"none"}]
  BY WaitsForOwned, KernelFields DEF Sound
<1>2. Sound(k1, {}) /\ WaitEnds(k, t, k1)
  BY <1>1, Released
<1> HIDE DEF k1
<1>3. Owned(k1, P, {}, {})
  BY <1>1, <1>2, WaitEndsOwned
<1>4. /\ k1.state = [k.state EXCEPT ![t] = IF k.state[t] = "WAIT" THEN "READY" ELSE "SUSPEND"]
      /\ k1.wspec = [k.wspec EXCEPT ![t] = "none"]
      /\ k1.priority = k.priority /\ k1.pistsk = k.pistsk /\ k1.pislist = k.pislist
  BY <1>2 DEF WaitEnds
<1>5. /\ Eases(k.state, k1.state) /\ \A u \in Task : AliveIn(k1, u) <=> AliveIn(k, u)
  BY <1>1, <1>4 DEF Eases, AliveIn, TS_WAIT, TS_SUSPEND
<1>6. Lacks(k1, k1, p) /\ k1.pistsk[p] \in Task /\ \A u \in {} : k1.wspec[u] = p
  BY <1>1, <1>4 DEF Lacks
<1> HIDE DEF p, k2
<1>7. /\ Sound(k2, {}) /\ Same(k1, k2)
      /\ \A u \in Task \ Above(k1, p) : k2.priority[u] = k1.priority[u]
      /\ EndsExact(k1, {}, t, p, k2)
  <2> DEFINE r == pis_rel_wai(k1, t, p)
  <2>1. /\ Sound(r, {}) /\ Same(k1, r)
        /\ \A u \in Task \ Above(k1, p) : r.priority[u] = k1.priority[u]
        /\ EndsExact(k1, {}, t, p, r)
    BY <1>1, <1>2, <1>3, <1>6, OwnerFalls
  <2> QED BY <2>1 DEF k2
<1>8. Owned(k2, P, {}, {})
  BY <1>3, <1>7 DEF Same, Owned, Held, Listed, HasOwner, AliveIn
<1>9. ASSUME AllExact(k, {}) PROVE AllExact(k2, {})
  <2>1. /\ \A v \in Task \ {t} : W[v] = WaitOf(k1, {})[v]
        /\ W[t] = p /\ WaitOf(k1, {})[t] = "none"
    BY <1>1, <1>4 DEF WaitOf, p
  <2> HIDE DEF W
  <2>2. ASSUME NEW u \in Living(k1, {}) PROVE ExactFor(k1, W, u)
    <3>1. ExactFor(k, W, u)
      BY <1>5, <1>9, <2>2 DEF AllExact, Living, W
    <3> QED BY <1>4, <3>1, SameExact
  <2> QED BY <1>7, <2>1, <2>2 DEF EndsExact
<1>10. Spares(k, k2)
  BY <1>4, <1>5, <1>7 DEF Spares, Above
<1>11. Eases(k.state, k2.state)
  BY <1>5, <1>7 DEF Same
<1> QED BY <1>7, <1>8, <1>9, <1>10, <1>11 DEF k2, k1, p

(* The task t, which is about to end, has left all queues.                 *)
Stopped(k, k2, P, t) ==
  /\ Sound(k2, {t})
  /\ Owned(k2, P, {t}, {})
  /\ AllExact(k, {}) => AllExact(k2, {t})
  /\ k2.state = k.state
  /\ Spares(k, k2)

(* Its semaphores are its own until it gives them back.                    *)
LEMMA StillOwned ==
  ASSUME NEW k, NEW k2, NEW P, NEW X \in SUBSET Task, Owned(k, P, {}, {}), k2.state = k.state,
         k2.wspec = k.wspec, k2.pistsk = k.pistsk, k2.pislist = k.pislist
  PROVE  Owned(k2, P, X, {})
BY DEF Owned, Held, Listed, HasOwner, AliveIn

(* A task that does not wait is no donor.                                  *)
LEMMA StillExact ==
  ASSUME NEW k, NEW k2, NEW t \in Task, k.wspec[t] = "none", AllExact(k, {}),
         k2.state = k.state, k2.wspec = k.wspec, k2.priority = k.priority, k2.pislist = k.pislist
  PROVE  AllExact(k2, {t})
<1> DEFINE W  == WaitOf(k, {})
           W2 == WaitOf(k2, {t})
<1>1. \A v \in Task : W2[v] = W[v]
  BY DEF WaitOf
<1> HIDE DEF W2
<1>2. ASSUME NEW u \in Task \ {t}, AliveIn(k2, u) PROVE ExactFor(k2, W2, u)
  <2>1. ExactFor(k, W, u)
    BY <1>2 DEF AllExact, AliveIn
  <2> HIDE DEF W
  <2> QED BY <1>1, <2>1, SameExact
<1> QED BY <1>2 DEF AllExact, W2

(* It was ready.                                                           *)
LEMMA StopsReady ==
  ASSUME NEW k, Sound(k, {}), NEW P \in SUBSET Pis, Owned(k, P, {}, {}),
         NEW t \in Task, k.state[t] = "READY"
  PROVE  LET rq == ready_queue_delete(k.ready_queue, t, k.priority[t])
             k2 == [k EXCEPT !.ready_queue = rq,
                             !.schedtsk = IF @ = t THEN ready_queue_top(rq) ELSE @]
         IN  Stopped(k, k2, P, t) /\ k2.pislist = k.pislist
<1> DEFINE rq  == ready_queue_delete(k.ready_queue, t, k.priority[t])
           top == IF k.schedtsk = t THEN ready_queue_top(rq) ELSE k.schedtsk
           k2  == [k EXCEPT !.ready_queue = rq, !.schedtsk = top]
<1>t. /\ k \in KernelStates /\ {} \in SUBSET Task /\ t \in Task \ {} /\ {t} \in SUBSET Task
      /\ k.wspec[t] = "none" /\ k.wspec \in [Task -> Pis \cup {"none"}]
  BY WaitsForPis, KernelFields DEF Sound, TS_WAIT
<1>1. /\ Consistent(rq, ReadyIn(k, {}) \ {t}, k.priority)
      /\ rq \in RDYQUE
      /\ top = ready_queue_top(rq) /\ top \in Task \cup {NoTask}
  BY <1>t, OutOfReadyQueue
<1>2. k2 = [k EXCEPT !.ready_queue = rq, !.schedtsk = IF @ = t THEN ready_queue_top(rq) ELSE @]
  BY <1>t DEF KernelStates
<1>3. /\ k2.state = k.state /\ k2.priority = k.priority /\ k2.wspec = k.wspec
      /\ k2.wait_queue = k.wait_queue /\ k2.timer_queue = k.timer_queue
      /\ k2.pistsk = k.pistsk /\ k2.pislist = k.pislist
      /\ k2.ready_queue = rq /\ k2.schedtsk = top
  BY <1>t DEF KernelStates
<1> HIDE DEF rq, top
<1>4. k2 \in KernelStates
  BY <1>t, <1>1 DEF KernelStates
<1> HIDE DEF k2
<1>5. Scheduled(k2, {t})
  <2>1. ReadyIn(k2, {t}) = ReadyIn(k, {}) \ {t}
    BY <1>3 DEF ReadyIn
  <2> QED BY <1>1, <1>3, <2>1 DEF Scheduled
<1>6. Queued(k2, {t})
  <2>1. \A u \in Task : k.state[u] \in TS_WAIT => u # t
    BY DEF TS_WAIT
  <2>2. ASSUME NEW g \in Gcb
        PROVE  ToSet(k.wait_queue[g]) = {u \in Task \ {t} : k.wspec[u] = g}
    <3>1. \A u : u \in ToSet(k.wait_queue[g]) <=> u \in Task \ {} /\ k.wspec[u] = g
      BY <1>t, InQueue
    <3> QED BY <1>t, <3>1, TaskCoreAssumption
  <2> QED BY <1>3, <2>1, <2>2 DEF Sound, Queued, WaitIn
<1>7. Sound(k2, {t})
  BY <1>4, <1>5, <1>6 DEF Sound
<1>8. Owned(k2, P, {t}, {})
  BY <1>t, <1>3, StillOwned
<1>9. AllExact(k, {}) => AllExact(k2, {t})
  BY <1>t, <1>3, StillExact
<1> QED BY <1>2, <1>3, <1>7, <1>8, <1>9 DEF Stopped, Spares, rq

(* It was suspended.                                                       *)
LEMMA StopsSuspended ==
  ASSUME NEW k, Sound(k, {}), NEW P \in SUBSET Pis, Owned(k, P, {}, {}),
         NEW t \in Task, k.state[t] = "SUSPEND"
  PROVE  Stopped(k, k, P, t)
<1>t. {} \in SUBSET Task /\ {t} \in SUBSET Task /\ k.wspec[t] = "none"
  BY WaitsForPis DEF TS_WAIT
<1>1. Scheduled(k, {t})
  <2>1. ReadyIn(k, {t}) = ReadyIn(k, {})
    BY DEF ReadyIn
  <2> QED BY <2>1 DEF Sound, Scheduled
<1>2. Queued(k, {t})
  <2>1. \A u \in Task : k.state[u] \in TS_WAIT => u # t
    BY DEF TS_WAIT
  <2>2. ASSUME NEW g \in Gcb
        PROVE  ToSet(k.wait_queue[g]) = {u \in Task \ {t} : k.wspec[u] = g}
    <3>1. \A u : u \in ToSet(k.wait_queue[g]) <=> u \in Task \ {} /\ k.wspec[u] = g
      BY <1>t, InQueue
    <3> QED BY <1>t, <3>1, TaskCoreAssumption
  <2> QED BY <2>1, <2>2 DEF Sound, Queued, WaitIn
<1>3. Sound(k, {t})
  BY <1>1, <1>2 DEF Sound
<1>4. Owned(k, P, {t}, {})
  BY <1>t, StillOwned
<1>5. AllExact(k, {}) => AllExact(k, {t})
  BY <1>t, StillExact
<1> QED BY <1>3, <1>4, <1>5 DEF Stopped, Spares

(* It was waiting; the hook is called before its state changes.            *)
LEMMA StopsWaiting ==
  ASSUME NEW k, Sound(k, {}), NEW P \in SUBSET Pis, Owned(k, P, {}, {}),
         NEW t \in Task, k.state[t] \in TS_WAIT, ipriority \in PriorityMap
  PROVE  LET k1 == [k EXCEPT !.wait_queue[k.wspec[t]] = queue_delete(@, t),
                             !.timer_queue = @ \ {t}]
             k2 == pis_rel_wai(k1, t, k.wspec[t])
         IN  Stopped(k, k2, P, t) /\ k2.pislist = k.pislist
<1> DEFINE p  == k.wspec[t]
           q2 == queue_delete(k.wait_queue[p], t)
           k1 == [k EXCEPT !.wait_queue[k.wspec[t]] = queue_delete(@, t),
                           !.timer_queue = @ \ {t}]
           k2 == pis_rel_wai(k1, t, p)
           W  == WaitOf(k, {})
<1>t. /\ k \in KernelStates /\ {} \in SUBSET Task /\ {t} \in SUBSET Task
      /\ p \in P /\ p \in Pis /\ p \in Gcb /\ p # "none" /\ k.pistsk[p] \in Task
      /\ k.wspec \in [Task -> Pis \cup {"none"}] /\ k.wait_queue \in [Gcb -> Seq(Task)]
      /\ k.timer_queue \in SUBSET Task /\ k.priority \in PriorityMap /\ k.wspec[t] = p
  BY WaitsForOwned, PisAreObjects, KernelFields DEF Sound
<1> HIDE DEF p
<1>1. /\ k1.state = k.state /\ k1.priority = k.priority /\ k1.wspec = k.wspec
      /\ k1.wait_queue = [k.wait_queue EXCEPT ![p] = q2]
      /\ k1.timer_queue = k.timer_queue \ {t}
      /\ k1.pistsk = k.pistsk /\ k1.pislist = k.pislist
      /\ k1.ready_queue = k.ready_queue /\ k1.schedtsk = k.schedtsk
  BY <1>t DEF KernelStates
<1>2. k1 = [k EXCEPT !.wait_queue = [k.wait_queue EXCEPT ![p] = q2],
                     !.timer_queue = k.timer_queue \ {t}]
  BY <1>t DEF KernelStates
<1>3. /\ q2 \in Queue(Task) /\ SortedBy(q2, k.priority)
      /\ \A u : u \in ToSet(q2) <=> u \in Task \ {t} /\ k.wspec[u] = p
  <2> DEFINE q == k.wait_queue[p]
  <2>1. /\ q \in Queue(Task) /\ SortedBy(q, k.priority)
        /\ \A u : u \in ToSet(q) <=> u \in Task \ {} /\ k.wspec[u] = p
    <3>1. p \in Gcb /\ {} \in SUBSET Task
      BY <1>t
    <3> QED BY <3>1, InQueue
  <2>2. q2 = queue_delete(q, t) /\ t \in ToSet(q)
    BY <1>t, <2>1
  <2> HIDE DEF q, q2
  <2>3. q2 \in Queue(Task) /\ ToSet(q2) = ToSet(q) \ {t} /\ SortedBy(q2, k.priority)
    BY <2>1, <2>2, QueueDelete, DeleteSorted
  <2> QED BY <2>1, <2>3
<1> HIDE DEF q2, k1
<1>4. k1 \in KernelStates
  <2>1. [k.wait_queue EXCEPT ![p] = q2] \in [Gcb -> Seq(Task)]
    BY <1>t, <1>3 DEF Queue
  <2>2. k.timer_queue \ {t} \in SUBSET Task
    BY <1>t
  <2> QED BY <1>t, <1>2, <2>1, <2>2 DEF KernelStates
<1>5. Scheduled(k1, {t})
  <2>1. ReadyIn(k1, {t}) = ReadyIn(k, {})
    BY <1>1 DEF ReadyIn, TS_WAIT
  <2> QED BY <1>1, <2>1 DEF Sound, Scheduled
<1>6. Queued(k1, {t})
  <2>1. ASSUME NEW g \in Gcb
        PROVE  /\ k1.wait_queue[g] \in Queue(Task)
               /\ ToSet(k1.wait_queue[g]) = {u \in Task \ {t} : k1.wspec[u] = g}
               /\ SortedBy(k1.wait_queue[g], k1.priority)
    <3>1. /\ k.wait_queue[g] \in Queue(Task) /\ SortedBy(k.wait_queue[g], k.priority)
          /\ \A u : u \in ToSet(k.wait_queue[g]) <=> u \in Task \ {} /\ k.wspec[u] = g
      BY <1>t, InQueue
    <3>2. CASE g = p
      <4>1. k1.wait_queue[g] = q2
        BY <1>t, <1>1, <3>2
      <4>2. ToSet(q2) = {u \in Task \ {t} : k1.wspec[u] = g}
        BY <1>1, <1>3, <3>2
      <4> QED BY <1>1, <1>3, <4>1, <4>2
    <3>3. CASE g # p
      <4>1. k1.wait_queue[g] = k.wait_queue[g]
        BY <1>t, <1>1, <3>3
      <4>2. ToSet(k.wait_queue[g]) = {u \in Task \ {t} : k1.wspec[u] = g}
        BY <1>t, <1>1, <3>1, <3>3
      <4> QED BY <1>1, <3>1, <4>1, <4>2
    <3> QED BY <3>2, <3>3
  <2> QED BY <1>1, <2>1 DEF Sound, Queued, WaitIn
<1>7. Sound(k1, {t})
  BY <1>4, <1>5, <1>6 DEF Sound
<1>8. Lacks(k, k1, p) /\ k1.pistsk[p] \in Task /\ k1.pislist = k.pislist
      /\ \A u \in {t} : k.wspec[u] = p
  BY <1>t, <1>1 DEF Lacks
<1> HIDE DEF k2
<1>9. /\ Sound(k2, {t}) /\ Same(k1, k2)
      /\ \A u \in Task \ Above(k, p) : k2.priority[u] = k1.priority[u]
      /\ EndsExact(k1, {t}, t, p, k2)
  <2> DEFINE r == pis_rel_wai(k1, t, p)
  <2>1. p \in P /\ {t} \in SUBSET Task
    BY <1>t
  <2>2. /\ Sound(r, {t}) /\ Same(k1, r)
        /\ \A u \in Task \ Above(k, p) : r.priority[u] = k1.priority[u]
        /\ EndsExact(k1, {t}, t, p, r)
    BY <1>7, <1>8, <2>1, OwnerFalls
  <2> QED BY <2>2 DEF k2
<1>10. /\ k2.state = k.state /\ k2.wspec = k.wspec
       /\ k2.pistsk = k.pistsk /\ k2.pislist = k.pislist
  BY <1>1, <1>9 DEF Same
<1>11. Owned(k2, P, {t}, {})
  BY <1>t, <1>10, StillOwned
<1>12. ASSUME AllExact(k, {}) PROVE AllExact(k2, {t})
  <2>1. /\ \A v \in Task \ {t} : W[v] = WaitOf(k1, {t})[v]
        /\ W[t] = p /\ WaitOf(k1, {t})[t] = "none"
    BY <1>t, <1>1 DEF WaitOf
  <2> HIDE DEF W
  <2>2. ASSUME NEW u \in Living(k1, {t}) PROVE ExactFor(k1, W, u)
    <3>1. ExactFor(k, W, u)
      BY <1>1, <1>12, <2>2 DEF AllExact, Living, AliveIn, W
    <3> QED BY <1>1, <3>1, SameExact
  <2> QED BY <1>9, <2>1, <2>2 DEF EndsExact
<1>13. Spares(k, k2)
  BY <1>1, <1>9, AboveSpares
<1> QED BY <1>9, <1>10, <1>11, <1>12, <1>13 DEF Stopped, k2, k1, p

(* The fields of a task that has ended are reset.                          *)
Reset(k, t, s) ==
  [k EXCEPT !.state[t] = s,
            !.priority[t] = IF s = "DORMANT" THEN ipriority[t] ELSE @,
            !.wspec[t] = "none",
            !.pislist[t] = << >>]

HasEnded(k, k2, t, s) ==
  /\ k2.state = [k.state EXCEPT ![t] = s]
  /\ s = "DORMANT" => k2.priority[t] = ipriority[t]
  /\ \A u \in Task \ {t} : k2.priority[u] = k.priority[u]

(* When it has given back its semaphores nothing is left of it.            *)
LEMMA ResetSound ==
  ASSUME NEW k, NEW t \in Task, Sound(k, {t}), NEW P \in SUBSET Pis,
         Owned(k, P, {t}, ToSet(k.pislist[t])), NEW s \in {"DORMANT", "NONEXIST"},
         ipriority \in PriorityMap
  PROVE  LET k2 == Reset(k, t, s) IN
         /\ Sound(k2, {})
         /\ Owned(k2, P, {}, {})
         /\ AllExact(k, {t}) => AllExact(k2, {})
         /\ HasEnded(k, k2, t, s)
<1> DEFINE k2  == Reset(k, t, s)
           pri == [k.priority EXCEPT ![t] = IF s = "DORMANT" THEN ipriority[t] ELSE @]
           l   == [k.pislist EXCEPT ![t] = << >>]
<1>t. /\ k \in KernelStates /\ {t} \in SUBSET Task /\ k.state \in [Task -> TSTAT]
      /\ k.wspec \in [Task -> Pis \cup {"none"}] /\ k.priority \in PriorityMap
      /\ k.pislist \in [Task -> Queue(Pis)] /\ k.pistsk \in [Pis -> Task \cup {NoTask}]
      /\ s \notin TS_WAIT /\ s # "READY" /\ s \in TSTAT
  BY KernelFields DEF Sound, TS_WAIT, TSTAT
<1>1. /\ k2.state = [k.state EXCEPT ![t] = s] /\ k2.wspec = [k.wspec EXCEPT ![t] = "none"]
      /\ k2.priority = pri /\ k2.pislist = l /\ k2.pistsk = k.pistsk
      /\ k2.wait_queue = k.wait_queue /\ k2.timer_queue = k.timer_queue
      /\ k2.ready_queue = k.ready_queue /\ k2.schedtsk = k.schedtsk
      /\ k2 = [k EXCEPT !.state = [k.state EXCEPT ![t] = s],
                        !.wspec = [k.wspec EXCEPT ![t] = "none"],
                        !.priority = pri, !.pislist = l]
  BY <1>t DEF KernelStates, Reset
<1>2. /\ pri \in PriorityMap /\ \A u \in Task \ {t} : pri[u] = k.priority[u]
      /\ s = "DORMANT" => pri[t] = ipriority[t]
  BY <1>t DEF PriorityMap
<1>3. l \in [Task -> Queue(Pis)] /\ ToSet(l[t]) = {} /\ \A u \in Task \ {t} : l[u] = k.pislist[u]
  <2>1. << >> \in Queue(Pis) /\ ToSet(<< >>) = {}
    BY DEF Queue, IsInjective, ToSet
  <2> QED BY <1>t, <2>1
<1> HIDE DEF k2, pri, l
<1>4. k2 \in KernelStates
  <2>1. [k.state EXCEPT ![t] = s] \in [Task -> TSTAT]
    BY <1>t
  <2>2. [k.wspec EXCEPT ![t] = "none"] \in [Task -> Pis \cup {"none"}]
    BY <1>t
  <2> QED BY <1>t, <1>1, <1>2, <1>3, <2>1, <2>2 DEF KernelStates
<1>5. /\ \A u \in Task \ {t} : k2.state[u] = k.state[u] /\ k2.wspec[u] = k.wspec[u]
      /\ k2.state[t] = s /\ k2.wspec[t] = "none"
  BY <1>t, <1>1
<1>6. Scheduled(k2, {})
  <2>1. ReadyIn(k2, {}) = ReadyIn(k, {t})
    BY <1>t, <1>5 DEF ReadyIn
  <2>2. /\ Consistent(k.ready_queue, ReadyIn(k, {t}), k.priority)
        /\ ReadyIn(k, {t}) \in SUBSET Task /\ k.schedtsk = ready_queue_top(k.ready_queue)
    BY <1>t, ReadyHolds
  <2>3. \A u \in ReadyIn(k, {t}) : pri[u] = k.priority[u]
    BY <1>2 DEF ReadyIn
  <2>4. Consistent(k.ready_queue, ReadyIn(k, {t}), pri)
    BY <2>2, <2>3, OtherPriorities
  <2> QED BY <1>1, <2>1, <2>2, <2>4 DEF Scheduled
<1>7. Queued(k2, {})
  <2>1. \A u \in Task : k2.state[u] \in TS_WAIT <=> k2.wspec[u] # "none"
    BY <1>t, <1>5 DEF Sound, Queued
  <2>2. k2.timer_queue \subseteq WaitIn(k2, {})
    BY <1>1, <1>5 DEF Sound, Queued, WaitIn
  <2>3. ASSUME NEW g \in Gcb
        PROVE  /\ k2.wait_queue[g] \in Queue(Task)
               /\ ToSet(k2.wait_queue[g]) = {u \in Task \ {} : k2.wspec[u] = g}
               /\ SortedBy(k2.wait_queue[g], k2.priority)
    <3> DEFINE q == k.wait_queue[g]
    <3>1. /\ q \in Queue(Task) /\ SortedBy(q, k.priority)
          /\ \A u : u \in ToSet(q) <=> u \in Task \ {t} /\ k.wspec[u] = g
      BY <1>t, InQueue
    <3>2. ToSet(q) = {u \in Task \ {} : k2.wspec[u] = g}
      BY <1>5, <3>1, TaskCoreAssumption
    <3>3. \A u \in ToSet(q) : pri[u] = k.priority[u]
      BY <1>2, <3>1
    <3>4. SortedBy(q, pri)
      <4> HIDE DEF q
      <4> QED BY <3>1, <3>3, SameSorted
    <3> QED BY <1>1, <3>1, <3>2, <3>4
  <2> QED BY <2>1, <2>2, <2>3 DEF Queued
<1>8. Sound(k2, {})
  BY <1>4, <1>6, <1>7 DEF Sound
<1>9. Owned(k2, P, {}, {})
  <2> DEFINE D == ToSet(k.pislist[t])
  <2>1. Held(k2, P)
    BY <1>1, <1>3, <1>5 DEF Owned, Held
  <2>2. ASSUME NEW p \in P PROVE Listed(k2, P, {}, {}, p) /\ HasOwner(k2, {}, p)
    <3>1. /\ \A u \in Task : k.pistsk[p] = u <=> p \in ToSet(k.pislist[u]) /\ ~(u \in {t} /\ p \in D)
          /\ HasOwner(k, {t}, p) /\ p \in Pis
      BY DEF Owned, Listed
    <3>2. k.pistsk[p] # t
      BY <3>1
    <3>3. Listed(k2, P, {}, {}, p)
      BY <1>1, <1>3, <3>1, <3>2 DEF Listed
    <3>4. HasOwner(k2, {}, p)
      <4>1. k.pistsk[p] # NoTask => k.pistsk[p] \in Task \ {t} /\ AliveIn(k, k.pistsk[p])
        BY <1>t, <3>1, <3>2 DEF HasOwner
      <4>2. \A u \in Task : k2.wspec[u] = p => u # t /\ k.wspec[u] = p
        BY <1>5, <3>1, PisAreObjects
      <4> QED BY <1>1, <1>5, <3>1, <4>1, <4>2 DEF HasOwner, AliveIn
    <3> QED BY <3>3, <3>4
  <2> QED BY <2>1, <2>2 DEF Owned
<1>10. ASSUME AllExact(k, {t}) PROVE AllExact(k2, {})
  <2> DEFINE V == WaitOf(k, {t})
             W == WaitOf(k2, {})
  <2>1. /\ \A u \in Task : W[u] = V[u]
        /\ V[t] = "none"
    BY <1>5 DEF WaitOf
  <2> HIDE DEF V, W
  <2>2. ASSUME NEW u \in Task, AliveIn(k2, u) PROVE ExactFor(k2, W, u)
    <3>1. u # t /\ AliveIn(k, u)
      BY <1>5, <1>t, <2>2 DEF AliveIn, TS_SUSPEND
    <3>2. ExactFor(k, V, u)
      BY <1>10, <2>2, <3>1 DEF AllExact, V
    <3>3. k2.pislist[u] = k.pislist[u] /\ k2.priority[u] = k.priority[u]
      BY <1>1, <1>2, <1>3, <2>2, <3>1
    <3>4. "none" \notin ToSet(k.pislist[u])
      BY <1>t, <2>2, PisAreObjects, QueueEntries
    <3>5. \A v : v \in Donors(W, k.pislist[u]) <=> v \in Donors(V, k.pislist[u])
      BY <2>1 DEF Donors
    <3>6. \A v \in Donors(V, k.pislist[u]) : k2.priority[v] = k.priority[v]
      BY <1>1, <1>2, <2>1, <3>4 DEF Donors
    <3>7. Shares(k2, W, u, k.pislist[u]) = Shares(k, V, u, k.pislist[u])
      BY <3>5, <3>6 DEF Shares
    <3> QED BY <3>2, <3>3, <3>7 DEF ExactFor
  <2> QED BY <2>2 DEF AllExact, W
<1> QED BY <1>1, <1>2, <1>8, <1>9, <1>10 DEF k2, HasEnded

(* A task that is alive ends, whatever it does or waits for.               *)
LEMMA Terminated ==
  ASSUME NEW k, Sound(k, {}), NEW P \in SUBSET Pis, Owned(k, P, {}, {}),
         NEW t \in Task, AliveIn(k, t), NEW s \in {"DORMANT", "NONEXIST"},
         ipriority \in PriorityMap
  PROVE  LET k2 == terminated(k, t, s) IN
         /\ Sound(k2, {})
         /\ Owned(k2, P, {}, {})
         /\ AllExact(k, {}) => AllExact(k2, {})
         /\ \E mid : /\ Eases(k.state, mid) /\ mid[t] = k.state[t] /\ mid \in [Task -> TSTAT]
                     /\ k2.state = [mid EXCEPT ![t] = s]
         /\ s = "DORMANT" => k2.priority[t] = ipriority[t]
         /\ \A u \in Task \ {t} : ~AliveIn(k, u) => k2.priority[u] = k.priority[u]
<1> DEFINE rq  == ready_queue_delete(k.ready_queue, t, k.priority[t])
           out == IF k.state[t] = "READY"
                  THEN [k EXCEPT !.ready_queue = rq,
                                 !.schedtsk = IF @ = t THEN ready_queue_top(rq) ELSE @]
                  ELSE IF k.state[t] \in TS_WAIT
                  THEN pis_rel_wai([k EXCEPT !.wait_queue[k.wspec[t]] = queue_delete(@, t),
                                             !.timer_queue = @ \ {t}], t, k.wspec[t])
                  ELSE k
           k1  == signal_all_prisem(out, t)
           k2  == Reset(k1, t, s)
<1>1. k \in KernelStates
  BY DEF Sound
<1>2. terminated(k, t, s) = k2
  BY <1>1 DEF terminated, KernelStates, Reset
<1>3. Stopped(k, out, P, t) /\ out.pislist = k.pislist
  <2>1. CASE k.state[t] = "READY"
    BY <2>1, StopsReady
  <2>2. CASE k.state[t] \in TS_WAIT
    BY <2>2, StopsWaiting DEF TS_WAIT
  <2>3. CASE k.state[t] = "SUSPEND"
    <3>1. out = k
      BY <2>3 DEF TS_WAIT
    <3> HIDE DEF out
    <3> QED BY <2>3, <3>1, StopsSuspended
  <2> QED BY <2>1, <2>2, <2>3 DEF AliveIn, TS_WAIT, TS_SUSPEND
<1> HIDE DEF out, k2
<1>4. /\ Sound(out, {t}) /\ Owned(out, P, {t}, {})
      /\ AllExact(k, {}) => AllExact(out, {t})
      /\ out.state = k.state /\ Spares(k, out)
  BY <1>3 DEF Stopped
<1>5. /\ Sound(k1, {t}) /\ Owned(k1, P, {t}, ToSet(out.pislist[t]))
      /\ AllExact(out, {t}) => AllExact(k1, {t})
      /\ Eases(out.state, k1.state) /\ k1.state[t] = out.state[t]
      /\ k1.pislist[t] = out.pislist[t] /\ k1.priority = out.priority
  BY <1>4, SignalledAll
<1> HIDE DEF k1
<1>6. Owned(k1, P, {t}, ToSet(k1.pislist[t]))
  BY <1>5
<1>7. /\ Sound(k2, {}) /\ Owned(k2, P, {}, {})
      /\ AllExact(k1, {t}) => AllExact(k2, {})
      /\ k2.state = [k1.state EXCEPT ![t] = s]
      /\ s = "DORMANT" => k2.priority[t] = ipriority[t]
      /\ \A u \in Task \ {t} : k2.priority[u] = k1.priority[u]
  <2>1. Sound(k1, {t})
    BY <1>5
  <2>2. /\ Sound(Reset(k1, t, s), {}) /\ Owned(Reset(k1, t, s), P, {}, {})
        /\ AllExact(k1, {t}) => AllExact(Reset(k1, t, s), {})
        /\ HasEnded(k1, Reset(k1, t, s), t, s)
    BY <1>6, <2>1, ResetSound
  <2> QED BY <2>2 DEF k2, HasEnded
<1>8. \E mid : /\ Eases(k.state, mid) /\ mid[t] = k.state[t] /\ mid \in [Task -> TSTAT]
               /\ k2.state = [mid EXCEPT ![t] = s]
  <2>1. k1.state \in [Task -> TSTAT]
    BY <1>5, KernelFields DEF Sound
  <2>2. Eases(k.state, k1.state) /\ k1.state[t] = k.state[t]
    BY <1>4, <1>5
  <2> QED BY <1>7, <2>1, <2>2
<1>9. \A u \in Task \ {t} : ~AliveIn(k, u) => k2.priority[u] = k.priority[u]
  BY <1>4, <1>5, <1>7 DEF Spares
<1>10. AllExact(k, {}) => AllExact(k2, {})
  BY <1>4, <1>5, <1>7
<1> QED BY <1>2, <1>7, <1>8, <1>9, <1>10

-----------------------------------------------------------------------------
(***************************************************************************)
(* The other calls.                                                        *)
(***************************************************************************)
(* A semaphore that no task has is in no list.                             *)
LEMMA NobodyHas ==
  ASSUME NEW k, NEW P \in SUBSET Pis, NEW p \in P, Owned(k, P, {}, {}), k.pistsk[p] = NoTask
  PROVE  OwnedBut(k, P, {}, {}, p)
<1>1. \A u \in Task : p \notin ToSet(k.pislist[u])
  BY ReadyQueueAssumption DEF Owned, Listed
<1> QED BY <1>1 DEF Owned, OwnedBut

(* The task that has p gives it back.                                      *)
LEMMA SemaphoreReturned ==
  ASSUME NEW k, Sound(k, {}), NEW P \in SUBSET Pis, NEW p \in P, Owned(k, P, {}, {}),
         NEW t \in Task, k.pistsk[p] = t, ipriority \in PriorityMap
  PROVE  LET k2 == signal(release_prisem(k, t, p), p) IN
         /\ Sound(k2, {})
         /\ Owned(k2, P, {}, {})
         /\ AllExact(k, {}) => AllExact(k2, {})
         /\ Eases(k.state, k2.state)
         /\ Spares(k, k2)
<1> DEFINE k1 == release_prisem(k, t, p)
           k2 == signal(k1, p)
<1>1. /\ Sound(k1, {}) /\ OwnedBut(k1, P, {}, {}, p) /\ k1.state = k.state
      /\ \A u \in Task \ Above(k, p) : k1.priority[u] = k.priority[u]
      /\ AllExact(k, {}) => AllExact(k1, {})
  BY SemaphoreLost
<1>2. /\ p \in Pis /\ {} \in SUBSET Task /\ k \in KernelStates /\ k.state \in [Task -> TSTAT]
  BY KernelFields DEF Sound
<1> HIDE DEF k1
<1>3. /\ \A u \in Task \ {} : p \notin ToSet(k1.pislist[u])
      /\ k1 \in KernelStates
  BY <1>1 DEF OwnedBut, Sound
<1>4. /\ Sound(k2, {})
      /\ \/ \E h \in Task \ {} :
              /\ k1.state[h] \in TS_WAIT /\ k1.wspec[h] = p
              /\ \A u \in Task \ {} : k1.wspec[u] = p => k1.priority[h] <= k1.priority[u]
              /\ Hands(k1, k2, p, h)
         \/ (\A u \in Task \ {} : k1.wspec[u] # p) /\ GivesBack(k1, k2, p)
  BY <1>1, <1>2, <1>3, Signalled
<1>5. Owned(k2, P, {}, {} \cup {p})
  BY <1>1, <1>2, SignalOwned
<1>6. AllExact(k1, {}) => AllExact(k2, {})
  BY <1>1, <1>2, <1>3, SignalExact
<1> HIDE DEF k2
<1>7. Owned(k2, P, {}, {})
  BY <1>5 DEF Owned, Listed
<1>8. k2.priority = k1.priority /\ Eases(k1.state, k2.state)
  <2>1. CASE \E h \in Task : k1.state[h] \in TS_WAIT /\ Hands(k1, k2, p, h)
    BY <1>1, <1>2, <2>1 DEF Hands, Eases, TS_WAIT
  <2>2. CASE GivesBack(k1, k2, p)
    BY <1>3, <2>2 DEF GivesBack, KernelStates, Eases
  <2> QED BY <1>4, <2>1, <2>2
<1>9. Spares(k, k2)
  BY <1>1, <1>8, AboveSpares
<1> QED BY <1>1, <1>4, <1>6, <1>7, <1>8, <1>9 DEF k2, k1

(* A semaphore is deleted: its task loses it, and those that wait for it   *)
(* are released.                                                           *)
LEMMA SemaphoreDeleted ==
  ASSUME NEW k, Sound(k, {}), NEW P \in SUBSET Pis, NEW p \in P, Owned(k, P, {}, {}),
         ipriority \in PriorityMap
  PROVE  LET k1 == IF k.pistsk[p] # NoTask THEN release_prisem(k, k.pistsk[p], p) ELSE k
             k2 == released_all(k1, k1.wait_queue[p])
         IN  /\ Sound(k2, {})
             /\ Owned(k2, P \ {p}, {}, {})
             /\ AllExact(k, {}) => AllExact(k2, {})
             /\ Eases(k.state, k2.state)
             /\ Spares(k, k2)
<1> DEFINE k1 == IF k.pistsk[p] # NoTask THEN release_prisem(k, k.pistsk[p], p) ELSE k
           k2 == released_all(k1, k1.wait_queue[p])
<1>1. /\ Sound(k1, {}) /\ OwnedBut(k1, P, {}, {}, p) /\ k1.state = k.state
      /\ \A u \in Task \ Above(k, p) : k1.priority[u] = k.priority[u]
      /\ AllExact(k, {}) => AllExact(k1, {})
  <2>1. CASE k.pistsk[p] # NoTask
    <3> DEFINE t == k.pistsk[p]
    <3>1. t \in Task
      BY <2>1, KernelFields DEF Sound
    <3>2. k1 = release_prisem(k, t, p)
      BY <2>1
    <3> HIDE DEF k1
    <3>3. k.pistsk[p] = t
      OBVIOUS
    <3> HIDE DEF t
    <3> QED BY <3>1, <3>2, <3>3, SemaphoreLost
  <2>2. CASE k.pistsk[p] = NoTask
    <3>1. k1 = k
      BY <2>2
    <3> HIDE DEF k1
    <3> QED BY <2>2, <3>1, NobodyHas
  <2> QED BY <2>1, <2>2
<1> HIDE DEF k1
<1>2. /\ Sound(k2, {}) /\ Owned(k2, P \ {p}, {}, {})
      /\ AllExact(k1, {}) => AllExact(k2, {})
      /\ Eases(k1.state, k2.state) /\ k2.priority = k1.priority
  BY <1>1, ReleasedAll
<1> HIDE DEF k2
<1>3. Spares(k, k2)
  BY <1>1, <1>2, AboveSpares
<1> QED BY <1>1, <1>2, <1>3 DEF k2, k1

(* A semaphore is created; no task has it or waits for it.                 *)
LEMMA SemaphoreCreated ==
  ASSUME NEW k, Sound(k, {}), NEW P \in SUBSET Pis, NEW p \in Pis \ P, Owned(k, P, {}, {})
  PROVE  LET k2 == [k EXCEPT !.pistsk[p] = NoTask] IN
         /\ Sound(k2, {})
         /\ Owned(k2, P \cup {p}, {}, {})
         /\ AllExact(k, {}) => AllExact(k2, {})
<1> DEFINE k2 == [k EXCEPT !.pistsk[p] = NoTask]
<1>t. k \in KernelStates /\ k.pistsk \in [Pis -> Task \cup {NoTask}]
  BY KernelFields DEF Sound
<1>1. /\ k2.state = k.state /\ k2.priority = k.priority /\ k2.wspec = k.wspec
      /\ k2.wait_queue = k.wait_queue /\ k2.timer_queue = k.timer_queue
      /\ k2.ready_queue = k.ready_queue /\ k2.schedtsk = k.schedtsk
      /\ k2.pistsk = [k.pistsk EXCEPT ![p] = NoTask] /\ k2.pislist = k.pislist
      /\ k2 = [k EXCEPT !.pistsk = [k.pistsk EXCEPT ![p] = NoTask]]
  BY <1>t DEF KernelStates
<1> HIDE DEF k2
<1>2. Sound(k2, {})
  <2>1. k2 \in KernelStates
    BY <1>t, <1>1 DEF KernelStates
  <2> QED BY <1>1, <2>1 DEF Sound, Scheduled, Queued, ReadyIn, WaitIn
<1>3. Owned(k2, P \cup {p}, {}, {})
  <2>1. /\ \A u \in Task : p \notin ToSet(k.pislist[u])
        /\ \A u \in Task : k.wspec[u] # p
    BY PisAreObjects DEF Owned, Held
  <2>2. Held(k2, P \cup {p})
    BY <1>1 DEF Owned, Held
  <2>3. Listed(k2, P \cup {p}, {}, {}, p) /\ HasOwner(k2, {}, p)
    BY <1>t, <1>1, <2>1, ReadyQueueAssumption DEF Listed, HasOwner
  <2>4. \A q \in P : Listed(k2, P \cup {p}, {}, {}, q) /\ HasOwner(k2, {}, q)
    BY <1>t, <1>1 DEF Owned, Listed, HasOwner, AliveIn
  <2> QED BY <2>2, <2>3, <2>4 DEF Owned
<1>4. ASSUME AllExact(k, {}) PROVE AllExact(k2, {})
  <2> DEFINE W == WaitOf(k, {})
  <2>1. WaitOf(k2, {}) = W
    BY <1>1 DEF WaitOf
  <2> HIDE DEF W
  <2>2. ASSUME NEW u \in Task, AliveIn(k2, u) PROVE ExactFor(k2, W, u)
    <3>1. ExactFor(k, W, u)
      BY <1>1, <1>4, <2>2 DEF AllExact, AliveIn, W
    <3> QED BY <1>1, <3>1, SameExact
  <2> QED BY <2>1, <2>2 DEF AllExact
<1> QED BY <1>2, <1>3, <1>4 DEF k2

(* chg_pri sets any priority, and the change is led on along the chain.    *)
LEMMA PrioritySet ==
  ASSUME NEW k, Sound(k, {}), NEW P \in SUBSET Pis, Owned(k, P, {}, {}),
         NEW t \in Task, NEW pri \in Priority, ipriority \in PriorityMap
  PROVE  LET k2 == change_priority(to_change(k, t, pri)) IN
         Sound(k2, {}) /\ Owned(k2, P, {}, {}) /\ Same(k, k2)
<1> DEFINE c  == to_change(k, t, pri)
           k2 == change_priority(c)
<1>1. c.k = k /\ k \in KernelStates /\ c \in [k : KernelStates, t : Task \cup {NoTask}, pri : Priority]
  BY DEF to_change, Sound
<1>2. Closed(k, {}, Task) /\ {} \in SUBSET Task
  <2>1. \A u \in Task : k.state[u] \in TS_WAIT => k.pistsk[k.wspec[u]] \in Task
    BY WaitsForOwned
  <2> QED BY <2>1 DEF Closed
<1> HIDE DEF c
<1>3. Sound(k2, {}) /\ Same(k, k2)
  <2>1. Sound(c.k, {}) /\ Closed(c.k, {}, Task)
    BY <1>1, <1>2
  <2>2. Sound(k2, {}) /\ Same(c.k, k2)
    BY <1>1, <1>2, <2>1, PrioritiesChanged
  <2> QED BY <1>1, <2>2
<1> HIDE DEF k2
<1>4. Owned(k2, P, {}, {})
  BY <1>3 DEF Same, Owned, Held, Listed, HasOwner, AliveIn
<1> QED BY <1>3, <1>4 DEF k2, c

-----------------------------------------------------------------------------
(***************************************************************************)
(* The inductive invariant.                                                *)
(***************************************************************************)
(* Besides that of task management: the queues are sorted and tasks wait   *)
(* for semaphores only, and a semaphore and its task know of each other,   *)
(* in the order in which tasks take semaphores.                            *)
SemInv ==
  /\ Sound(kernel, {})
  /\ piss \in SUBSET Pis
  /\ chg_pri_used \in BOOLEAN
  /\ Owned(kernel, piss, {}, {})

(* Until chg_pri is called, priorities are exact, also those of the tasks  *)
(* that are about to be started.                                           *)
PriExact  == AllExact(kernel, {})
PriAtRest == \A t \in Task : state[t] = "DORMANT" => priority[t] = ipriority[t]
PriInv    == ~chg_pri_used => PriExact /\ PriAtRest

PInv == IInv /\ SemInv /\ PriInv

(* The record that becomes the next state is the next state.               *)
LEMMA Became ==
  ASSUME NEW k2 \in KernelStates, becomes(k2)
  PROVE  kernel' = k2
BY DEF KernelStates, becomes, kernel

(* The fields of kernel are the variables.                                 *)
LEMMA KernelIs ==
  /\ kernel.state = state /\ kernel.priority = priority /\ kernel.wspec = wspec
  /\ kernel.wait_queue = wait_queue /\ kernel.timer_queue = timer_queue
  /\ kernel.ready_queue = ready_queue /\ kernel.schedtsk = schedtsk
  /\ kernel.pistsk = pistsk /\ kernel.pislist = pislist
BY DEF kernel

(* A sound record makes the next state consistent.                         *)
LEMMA BecameSound ==
  ASSUME NEW k2, Sound(k2, {}), becomes(k2)
  PROVE  /\ Sound(kernel, {})'
         /\ StateType' /\ SchedInv' /\ WaitInv'
         /\ wspec' \in [Task -> Pis \cup {"none"}]
         /\ timer_queue' \in SUBSET Task
         /\ ready_queue' \in RDYQUE
         /\ schedtsk' \in Task \cup {NoTask}
<1>1. k2 \in KernelStates /\ kernel' = k2
  BY Became DEF Sound
<1>2. Sound(kernel, {})'
  BY <1>1
<1>3. /\ k2.state \in [Task -> TSTAT] /\ k2.priority \in PriorityMap
      /\ k2.wspec \in [Task -> Pis \cup {"none"}] /\ k2.wait_queue \in [Gcb -> Seq(Task)]
      /\ k2.timer_queue \in SUBSET Task /\ k2.ready_queue \in RDYQUE
      /\ k2.schedtsk \in Task \cup {NoTask}
  BY <1>1, KernelFields
<1>4. /\ state' = k2.state /\ priority' = k2.priority /\ wspec' = k2.wspec
      /\ wait_queue' = k2.wait_queue /\ timer_queue' = k2.timer_queue
      /\ ready_queue' = k2.ready_queue /\ schedtsk' = k2.schedtsk
  BY DEF becomes
<1>5. StateType'
  BY <1>3, <1>4 DEF StateType, PriorityMap
<1>6. SchedInv'
  <2>1. ReadyTasks' = ReadyIn(k2, {})
    BY <1>4 DEF ReadyTasks, ReadyIn
  <2>2. Consistent(k2.ready_queue, ReadyIn(k2, {}), k2.priority)
        /\ k2.schedtsk = ready_queue_top(k2.ready_queue)
    BY DEF Sound, Scheduled
  <2> QED BY <1>4, <2>1, <2>2 DEF SchedInv, SchedtskIsTop
<1>7. WaitInv'
  <2>1. \A t \in Task : k2.state[t] \in TS_WAIT <=> k2.wspec[t] # "none"
    BY DEF Sound, Queued
  <2>2. \A t \in k2.timer_queue : k2.state[t] \in TS_WAIT
    BY DEF Sound, Queued, WaitIn
  <2>3. \A g \in Gcb : /\ IsInjective(k2.wait_queue[g])
                       /\ ToSet(k2.wait_queue[g]) = {t \in Task : k2.wspec[t] = g}
    BY DEF Sound, Queued, Queue
  <2> QED BY <1>3, <1>4, <2>1, <2>2, <2>3
      DEF WaitInv, WaitQueues, TimeoutOnlyWhileWaiting, waiting
<1> QED BY <1>2, <1>3, <1>4, <1>5, <1>6, <1>7

(* And a consistent next state is a sound record.                          *)
LEMMA SoundNext ==
  ASSUME StateType', SchedInv', WaitInv', wspec' \in [Task -> Pis \cup {"none"}],
         timer_queue' \in SUBSET Task, ready_queue' \in RDYQUE,
         schedtsk' \in Task \cup {NoTask},
         pistsk' \in [Pis -> Task \cup {NoTask}], pislist' \in [Task -> Queue(Pis)],
         \A g \in Gcb : SortedBy(wait_queue'[g], priority')
  PROVE  Sound(kernel, {})'
<1> DEFINE k2 == kernel'
<1>1. /\ k2.state = state' /\ k2.priority = priority' /\ k2.wspec = wspec'
      /\ k2.wait_queue = wait_queue' /\ k2.timer_queue = timer_queue'
      /\ k2.ready_queue = ready_queue' /\ k2.schedtsk = schedtsk'
      /\ k2.pistsk = pistsk' /\ k2.pislist = pislist'
  BY DEF kernel
<1>2. k2 \in KernelStates
  BY DEF KernelStates, kernel, StateType, PriorityMap, WaitInv, WaitQueues
<1> HIDE DEF k2
<1>3. Scheduled(k2, {})
  <2>1. ReadyTasks' = ReadyIn(k2, {})
    BY <1>1 DEF ReadyTasks, ReadyIn
  <2> QED BY <1>1, <2>1 DEF SchedInv, SchedtskIsTop, Scheduled
<1>4. Queued(k2, {})
  <2>1. \A t \in Task : k2.state[t] \in TS_WAIT <=> k2.wspec[t] # "none"
    BY <1>1 DEF WaitInv, waiting
  <2>2. k2.timer_queue \subseteq WaitIn(k2, {})
    BY <1>1 DEF WaitInv, TimeoutOnlyWhileWaiting, waiting, WaitIn
  <2>3. ASSUME NEW g \in Gcb
        PROVE  /\ k2.wait_queue[g] \in Queue(Task)
               /\ ToSet(k2.wait_queue[g]) = {u \in Task \ {} : k2.wspec[u] = g}
               /\ SortedBy(k2.wait_queue[g], k2.priority)
    <3>1. /\ wait_queue' \in [Gcb -> Seq(Task)] /\ IsInjective(wait_queue'[g])
          /\ ToSet(wait_queue'[g]) = {t \in Task : wspec'[t] = g}
      BY DEF WaitInv, WaitQueues
    <3> QED BY <1>1, <3>1 DEF Queue
  <2> QED BY <2>1, <2>2, <2>3 DEF Queued
<1>5. Sound(k2, {})
  BY <1>2, <1>3, <1>4 DEF Sound
<1> QED BY <1>5 DEF k2

-----------------------------------------------------------------------------
(***************************************************************************)
(* The steps.                                                              *)
(***************************************************************************)
(* What a call makes of the kernel carries over to the next state.         *)
LEMMA BecomesKeeps ==
  ASSUME PInv, NEW k2, Sound(k2, {}), becomes(k2), piss' \in SUBSET Pis,
         chg_pri_used' \in BOOLEAN, Owned(k2, piss', {}, {}), IInv', ipriority' = ipriority,
         ~chg_pri_used' =>
           /\ ~chg_pri_used
           /\ AllExact(kernel, {}) => AllExact(k2, {})
           /\ \A t \in Task : k2.state[t] = "DORMANT" =>
                \/ k2.priority[t] = ipriority[t]
                \/ state[t] = "DORMANT" /\ k2.priority[t] = priority[t]
  PROVE  PInv'
<1>1. kernel' = k2
  BY Became DEF Sound
<1>2. SemInv'
  BY <1>1 DEF SemInv
<1>3. PriInv'
  <2> SUFFICES ASSUME ~chg_pri_used' PROVE PriExact' /\ PriAtRest'
    BY DEF PriInv
  <2>1. AllExact(k2, {}) /\ PriAtRest
    BY DEF PInv, PriInv, PriExact
  <2>2. AllExact(kernel, {})'
    <3> DEFINE W == WaitOf(k2, {})
    <3>1. WaitOf(kernel, {})' = W
      BY <1>1
    <3> HIDE DEF W
    <3>2. ASSUME NEW u \in Task, AliveIn(kernel', u)
          PROVE  Least(kernel'.priority[u],
                       {ipriority'[u]} \cup {kernel'.priority[v] : v \in Donors(W, kernel'.pislist[u])})
      BY <1>1, <2>1, <3>2 DEF AllExact, ExactFor, Shares, W
    <3> QED BY <3>1, <3>2 DEF AllExact, ExactFor, Shares
  <2>3. PriAtRest'
    <3>1. state' = k2.state /\ priority' = k2.priority
      BY DEF becomes
    <3> QED BY <2>1, <3>1 DEF PriAtRest
  <2> QED BY <2>2, <2>3 DEF PriExact
<1> QED BY <1>2, <1>3 DEF PInv

(* The types of what a call changes, and of what it leaves.                *)
LEMMA CallTypes ==
  ASSUME TypeOK, NEW k2, Sound(k2, {}), becomes(k2), ipriority' = ipriority,
         wupcnt' \in [Task -> 0 .. INT_MAX], suscnt' \in [Task -> 0 .. INT_MAX],
         dispatch_disabled' \in BOOLEAN, ipm' \in 0 .. IPM_MAX, in_indp' \in BOOLEAN,
         ctxtsk' \in Task \cup {NoTask}
  PROVE  TypeOK'
<1>1. /\ StateType' /\ WaitInv'
      /\ wspec' \in [Task -> Pis \cup {"none"}]
      /\ timer_queue' \in SUBSET Task
      /\ ready_queue' \in RDYQUE
      /\ schedtsk' \in Task \cup {NoTask}
  BY BecameSound
<1>2. wspec' \in [Task -> Gcb \cup {"none", "slp", "dly", "tmb", "rdv"}]
  BY <1>1, PisAreObjects
<1>3. /\ ipriority' \in [Task -> Priority]
      /\ wait_queue' \in [Gcb -> Seq(Task)]
      /\ state' \in [Task -> TSTAT] /\ priority' \in [Task -> Priority]
  BY <1>1 DEF TypeOK, StateType, WaitInv, WaitQueues
<1> QED BY <1>1, <1>2, <1>3 DEF TypeOK

(* Nobody sleeps where tasks wait for semaphores only.                     *)
LEMMA NobodySleeps ==
  ASSUME wspec' \in [Task -> Pis \cup {"none"}]
  PROVE  NoLostWakeup'
<1>1. "slp" \notin Pis \cup {"none"}
  BY PriSemAssumption, TaskCoreAssumption
<1>2. \A t \in Task : wspec'[t] # "slp"
  BY <1>1
<1> QED BY <1>2 DEF NoLostWakeup

(* The end of waits keeps the invariant of task management.                *)
LEMMA EasesInv ==
  ASSUME IInv, NEW k2, Sound(k2, {}), becomes(k2), Eases(state, k2.state),
         UNCHANGED <<countvars, ipriority, cpuvars>>
  PROVE  IInv'
<1>1. /\ SchedInv' /\ WaitInv' /\ wspec' \in [Task -> Pis \cup {"none"}]
  BY BecameSound
<1>2. TypeOK'
  <2>1. TypeOK
    BY DEF IInv
  <2>2. /\ ipriority' = ipriority
        /\ wupcnt' \in [Task -> 0 .. INT_MAX] /\ suscnt' \in [Task -> 0 .. INT_MAX]
        /\ dispatch_disabled' \in BOOLEAN /\ ipm' \in 0 .. IPM_MAX /\ in_indp' \in BOOLEAN
        /\ ctxtsk' \in Task \cup {NoTask}
    BY <2>1 DEF TypeOK, countvars, cpuvars
  <2> QED BY <2>1, <2>2, CallTypes
<1>3. Eases(state, state')
  BY DEF becomes
<1>4. \A t \in Task : /\ task_alive(t) <=> task_alive(t)'
                      /\ state[t] \in TS_SUSPEND <=> state'[t] \in TS_SUSPEND
                      /\ state'[t] = "DORMANT" => state[t] = "DORMANT"
                      /\ state[t] \in {"READY", "SUSPEND"} => state'[t] = state[t]
  BY <1>3 DEF Eases, task_alive, TS_WAIT, TS_SUSPEND
<1>5. CountInv'
  <2>1. NoLostWakeup'
    BY <1>1, NobodySleeps
  <2> QED BY <1>4, <2>1 DEF IInv, CountInv, SuspendCount, StartsFresh, countvars
<1>6. RunInv'
  <2>1. ctxtsk \in Task \cup {NoTask}
    BY DEF IInv, TypeOK
  <2> QED BY <1>4, <2>1 DEF IInv, RunInv, RunningTaskAlive, NoWaitWithoutDispatch,
             dispatch_enabled, cpuvars
<1> QED BY <1>1, <1>2, <1>5, <1>6 DEF IInv

(* So does a wait of the running task.                                     *)
LEMMA WaitsInv ==
  ASSUME IInv, in_task, ~in_ddsp, NEW k2, Sound(k2, {}), becomes(k2),
         k2.state = [state EXCEPT ![ctxtsk] = "WAIT"],
         UNCHANGED <<countvars, ipriority, cpuvars>>
  PROVE  IInv'
<1>1. /\ SchedInv' /\ WaitInv' /\ wspec' \in [Task -> Pis \cup {"none"}]
  BY BecameSound
<1>2. TypeOK'
  <2>1. TypeOK
    BY DEF IInv
  <2>2. /\ ipriority' = ipriority
        /\ wupcnt' \in [Task -> 0 .. INT_MAX] /\ suscnt' \in [Task -> 0 .. INT_MAX]
        /\ dispatch_disabled' \in BOOLEAN /\ ipm' \in 0 .. IPM_MAX /\ in_indp' \in BOOLEAN
        /\ ctxtsk' \in Task \cup {NoTask}
    BY <2>1 DEF TypeOK, countvars, cpuvars
  <2> QED BY <2>1, <2>2, CallTypes
<1>3. /\ ctxtsk \in Task /\ dispatch_enabled /\ state[ctxtsk] = "READY"
      /\ state \in [Task -> TSTAT] /\ IPM_MAX \in Nat
  <2>1. ipm \in 0 .. IPM_MAX /\ IPM_MAX \in Nat /\ state \in [Task -> TSTAT]
    BY TaskCoreAssumption DEF IInv, TypeOK
  <2>2. dispatch_enabled
    BY <2>1 DEF in_ddsp, in_loc, dispatch_enabled
  <2> QED BY <2>1, <2>2, CallerTask
<1>4. state' = [state EXCEPT ![ctxtsk] = "WAIT"]
  BY DEF becomes
<1>5. \A t \in Task : /\ task_alive(t) <=> task_alive(t)'
                      /\ state[t] \in TS_SUSPEND <=> state'[t] \in TS_SUSPEND
                      /\ state'[t] = "DORMANT" => state[t] = "DORMANT"
  BY <1>3, <1>4 DEF task_alive, TS_WAIT, TS_SUSPEND
<1>6. CountInv'
  <2>1. NoLostWakeup'
    BY <1>1, NobodySleeps
  <2> QED BY <1>5, <2>1 DEF IInv, CountInv, SuspendCount, StartsFresh, countvars
<1>7. RunInv'
  BY <1>3, <1>5 DEF IInv, RunInv, RunningTaskAlive, NoWaitWithoutDispatch,
         dispatch_enabled, cpuvars
<1> QED BY <1>1, <1>2, <1>6, <1>7 DEF IInv

(* And the end of a task, by another one or by itself.                     *)
Ends(t, s, k2) ==
  \E mid : /\ Eases(state, mid) /\ mid[t] = state[t] /\ mid \in [Task -> TSTAT]
           /\ k2.state = [mid EXCEPT ![t] = s]

CountsReset(t, s) ==
  IF s = "DORMANT"
  THEN wupcnt' = [wupcnt EXCEPT ![t] = 0] /\ suscnt' = [suscnt EXCEPT ![t] = 0]
  ELSE UNCHANGED countvars

(* The end of a task keeps the invariant of task management.               *)
LEMMA EndsInv ==
  ASSUME IInv, in_task, NEW t \in Task, NEW s \in {"DORMANT", "NONEXIST"},
         NEW k2, Sound(k2, {}), becomes(k2), Ends(t, s, k2), CountsReset(t, s),
         ipriority' = ipriority,
         (t # ctxtsk /\ UNCHANGED cpuvars) \/ force_dispatch
  PROVE  IInv'
<1>1. /\ StateType' /\ SchedInv' /\ WaitInv' /\ wspec' \in [Task -> Pis \cup {"none"}]
      /\ schedtsk' \in Task \cup {NoTask}
  BY BecameSound
<1>2. TypeOK'
  <2>1. TypeOK
    BY DEF IInv
  <2>2. wupcnt' \in [Task -> 0 .. INT_MAX] /\ suscnt' \in [Task -> 0 .. INT_MAX]
    <3>1. 0 \in 0 .. INT_MAX
      BY TaskManagementAssumption
    <3> QED BY <2>1, <3>1 DEF TypeOK, CountsReset, countvars
  <2>3. /\ dispatch_disabled' \in BOOLEAN /\ ipm' \in 0 .. IPM_MAX /\ in_indp' \in BOOLEAN
        /\ ctxtsk' \in Task \cup {NoTask}
    <3>1. 0 \in 0 .. IPM_MAX
      BY TaskCoreAssumption
    <3> QED BY <1>1, <2>1, <3>1 DEF TypeOK, cpuvars, force_dispatch
  <2> QED BY <2>1, <2>2, <2>3, CallTypes
<1>3. PICK mid : /\ Eases(state, mid) /\ mid[t] = state[t] /\ mid \in [Task -> TSTAT]
                 /\ state' = [mid EXCEPT ![t] = s]
  BY DEF Ends, becomes
<1>4. \A u \in Task \ {t} : /\ task_alive(u) <=> task_alive(u)'
                            /\ state[u] \in TS_SUSPEND <=> state'[u] \in TS_SUSPEND
                            /\ state'[u] = "DORMANT" => state[u] = "DORMANT"
                            /\ state[u] \in {"READY", "SUSPEND"} => state'[u] = state[u]
  BY <1>3 DEF Eases, task_alive, TS_WAIT, TS_SUSPEND
<1>5. state'[t] = s /\ ~task_alive(t)'
  BY <1>3 DEF task_alive, TS_WAIT, TS_SUSPEND
<1>6. CountInv'
  <2>1. NoLostWakeup'
    BY <1>1, NobodySleeps
  <2>2. \A u \in Task \ {t} : wupcnt'[u] = wupcnt[u] /\ suscnt'[u] = suscnt[u]
    BY DEF CountsReset, countvars, IInv, TypeOK
  <2>3. s = "DORMANT" => wupcnt'[t] = 0 /\ suscnt'[t] = 0
    BY DEF CountsReset, IInv, TypeOK
  <2> QED BY <1>4, <1>5, <2>1, <2>2, <2>3 DEF IInv, CountInv, SuspendCount, StartsFresh
<1>7. RunInv'
  <2>1. ctxtsk \in Task
    BY CallerTask
  <2>2. CASE t # ctxtsk /\ UNCHANGED cpuvars
    BY <1>4, <2>1, <2>2 DEF IInv, RunInv, RunningTaskAlive, NoWaitWithoutDispatch,
       dispatch_enabled, cpuvars
  <2>3. CASE force_dispatch
    <3>1. schedtsk' # NoTask => state'[schedtsk'] = "READY"
      BY <1>1, SchedtskReadyNext
    <3> QED BY <2>3, <3>1 DEF RunInv, RunningTaskAlive, NoWaitWithoutDispatch,
               force_dispatch, task_alive
  <2> QED BY <2>2, <2>3
<1> QED BY <1>1, <1>2, <1>6, <1>7 DEF IInv

(* What a call may assume of the kernel.                                   *)
LEMMA CallAssumes ==
  ASSUME PInv
  PROVE  /\ Sound(kernel, {}) /\ piss \in SUBSET Pis /\ Owned(kernel, piss, {}, {})
         /\ ipriority \in PriorityMap /\ IInv /\ chg_pri_used \in BOOLEAN
BY DEF PInv, SemInv, IInv, TypeOK, PriorityMap

(* A call that ends waits, or none.                                        *)
LEMMA EasesCall ==
  ASSUME PInv, NEW k2, Sound(k2, {}), becomes(k2), piss' \in SUBSET Pis,
         Owned(k2, piss', {}, {}), AllExact(kernel, {}) => AllExact(k2, {}),
         Eases(kernel.state, k2.state), Spares(kernel, k2),
         UNCHANGED <<chg_pri_used, countvars, ipriority, cpuvars>>
  PROVE  PInv'
<1>1. Eases(state, k2.state)
  BY KernelIs
<1>2. IInv'
  BY <1>1, CallAssumes, EasesInv
<1>3. \A t \in Task : k2.state[t] = "DORMANT" =>
        state[t] = "DORMANT" /\ k2.priority[t] = priority[t]
  BY <1>1, KernelIs DEF Eases, Spares, AliveIn, TS_WAIT, TS_SUSPEND
<1>4. chg_pri_used' \in BOOLEAN /\ ipriority' = ipriority /\ chg_pri_used' = chg_pri_used
  BY CallAssumes
<1> QED BY <1>2, <1>3, <1>4, BecomesKeeps

(* vcre_pis: nobody has the new semaphore.                                 *)
LEMMA CreateKeeps ==
  ASSUME PInv, NEW p \in Pis, vcre_pis(p)
  PROVE  PInv'
<1> DEFINE k2 == [kernel EXCEPT !.pistsk[p] = NoTask]
<1>1. /\ Sound(kernel, {}) /\ piss \in SUBSET Pis /\ Owned(kernel, piss, {}, {})
  BY CallAssumes
<1>2. p \in Pis \ piss /\ piss' = piss \cup {p} /\ pistsk' = [pistsk EXCEPT ![p] = NoTask]
      /\ UNCHANGED <<pislist, chg_pri_used, vars>>
  BY DEF vcre_pis
<1>3. /\ Sound(k2, {})
      /\ Owned(k2, piss \cup {p}, {}, {})
      /\ AllExact(kernel, {}) => AllExact(k2, {})
  BY <1>1, <1>2, SemaphoreCreated
<1>4. /\ k2.state = state /\ k2.priority = priority /\ k2.wspec = wspec
      /\ k2.wait_queue = wait_queue /\ k2.timer_queue = timer_queue
      /\ k2.ready_queue = ready_queue /\ k2.schedtsk = schedtsk
      /\ k2.pistsk = [pistsk EXCEPT ![p] = NoTask] /\ k2.pislist = pislist
  BY DEF kernel
<1> HIDE DEF k2
<1>5. becomes(k2)
  BY <1>2, <1>4 DEF becomes, vars, taskvars, privars, waitvars, schedvars
<1>6. Eases(kernel.state, k2.state) /\ Spares(kernel, k2)
  BY <1>4, KernelIs DEF Eases, Spares
<1>7. piss' \in SUBSET Pis /\ Owned(k2, piss', {}, {})
  BY <1>1, <1>2, <1>3
<1>8. UNCHANGED <<chg_pri_used, countvars, ipriority, cpuvars>>
  BY <1>2 DEF vars, taskvars, privars
<1> QED BY <1>3, <1>5, <1>6, <1>7, <1>8, EasesCall

(* vdel_pis: the semaphore is taken from its task, and nobody waits on.    *)
LEMMA DeleteKeeps ==
  ASSUME PInv, NEW p \in Pis, vdel_pis(p)
  PROVE  PInv'
<1> DEFINE k1 == IF kernel.pistsk[p] # NoTask THEN release_prisem(kernel, kernel.pistsk[p], p)
                 ELSE kernel
           k2 == released_all(k1, k1.wait_queue[p])
<1>1. /\ Sound(kernel, {}) /\ piss \in SUBSET Pis /\ Owned(kernel, piss, {}, {})
      /\ ipriority \in PriorityMap
  BY CallAssumes
<1>2. p \in piss /\ piss' = piss \ {p} /\ UNCHANGED <<chg_pri_used, countvars, ipriority, cpuvars>>
  BY DEF vdel_pis
<1>3. becomes(k2)
  <2>1. kernel.pistsk = pistsk
    BY KernelIs
  <2> QED BY <2>1 DEF vdel_pis
<1>4. /\ Sound(k2, {})
      /\ Owned(k2, piss \ {p}, {}, {})
      /\ AllExact(kernel, {}) => AllExact(k2, {})
      /\ Eases(kernel.state, k2.state)
      /\ Spares(kernel, k2)
  BY <1>1, <1>2, SemaphoreDeleted
<1> HIDE DEF k1, k2
<1>5. piss' \in SUBSET Pis /\ Owned(k2, piss', {}, {})
  BY <1>1, <1>2, <1>4
<1> QED BY <1>2, <1>3, <1>4, <1>5, EasesCall

(* vsig_pis: the first of those who wait has the semaphore.                *)
LEMMA SignalKeeps ==
  ASSUME PInv, NEW p \in Pis, vsig_pis(p)
  PROVE  PInv'
<1> DEFINE k2 == signal(release_prisem(kernel, ctxtsk, p), p)
<1>1. /\ Sound(kernel, {}) /\ piss \in SUBSET Pis /\ Owned(kernel, piss, {}, {})
      /\ ipriority \in PriorityMap /\ IInv
  BY CallAssumes
<1>2. /\ p \in piss /\ pistsk[p] = ctxtsk /\ in_task /\ becomes(k2)
      /\ UNCHANGED <<piss, chg_pri_used, countvars, ipriority, cpuvars>>
  BY DEF vsig_pis
<1>3. ctxtsk \in Task /\ kernel.pistsk[p] = ctxtsk
  BY <1>1, <1>2, CallerTask, KernelIs
<1>4. /\ Sound(k2, {})
      /\ Owned(k2, piss, {}, {})
      /\ AllExact(kernel, {}) => AllExact(k2, {})
      /\ Eases(kernel.state, k2.state)
      /\ Spares(kernel, k2)
  BY <1>1, <1>2, <1>3, SemaphoreReturned
<1> HIDE DEF k2
<1>5. piss' \in SUBSET Pis /\ Owned(k2, piss', {}, {})
  BY <1>1, <1>2, <1>4
<1> QED BY <1>2, <1>4, <1>5, EasesCall

(* The end of a wait, by rel_wai or by its time-out.                       *)
LEMMA ReleaseKeeps ==
  ASSUME PInv, NEW t \in Task, pis_rel_wai_tsk(t) \/ pis_timer_handler(t)
  PROVE  PInv'
<1> DEFINE k2 == pis_rel_wai(released(kernel, t), t, kernel.wspec[t])
<1>1. /\ Sound(kernel, {}) /\ piss \in SUBSET Pis /\ Owned(kernel, piss, {}, {})
      /\ ipriority \in PriorityMap /\ IInv
  BY CallAssumes
<1>2. /\ kernel.state[t] \in TS_WAIT /\ becomes(k2)
      /\ UNCHANGED <<piss, chg_pri_used, countvars, ipriority, cpuvars>>
  <2>1. t \in timer_queue => waiting(t)
    BY <1>1 DEF IInv, WaitInv, TimeoutOnlyWhileWaiting
  <2> QED BY <2>1, KernelIs DEF pis_rel_wai_tsk, pis_timer_handler, waiting
<1>3. /\ Sound(k2, {})
      /\ Owned(k2, piss, {}, {})
      /\ AllExact(kernel, {}) => AllExact(k2, {})
      /\ Eases(kernel.state, k2.state)
      /\ Spares(kernel, k2)
  BY <1>1, <1>2, WaitBroken
<1> HIDE DEF k2
<1>4. piss' \in SUBSET Pis /\ Owned(k2, piss', {}, {})
  BY <1>1, <1>2, <1>3
<1> QED BY <1>2, <1>3, <1>4, EasesCall

(* chg_pri: only what the queues need stays true of priorities.            *)
LEMMA ChangeKeeps ==
  ASSUME PInv, NEW t \in Task, NEW pri \in Priority, pis_chg_pri_tsk(t, pri)
  PROVE  PInv'
<1> DEFINE k2 == change_priority(to_change(kernel, t, pri))
<1>1. /\ Sound(kernel, {}) /\ piss \in SUBSET Pis /\ Owned(kernel, piss, {}, {})
      /\ ipriority \in PriorityMap /\ IInv
  BY CallAssumes
<1>2. /\ becomes(k2) /\ chg_pri_used' = TRUE
      /\ UNCHANGED <<piss, countvars, ipriority, cpuvars>>
  BY DEF pis_chg_pri_tsk
<1>3. Sound(k2, {}) /\ Owned(k2, piss, {}, {}) /\ Same(kernel, k2)
  BY <1>1, PrioritySet
<1> HIDE DEF k2
<1>4. Eases(state, k2.state)
  BY <1>3, KernelIs DEF Same, Eases
<1>5. IInv'
  BY <1>1, <1>2, <1>3, <1>4, EasesInv
<1>6. /\ piss' \in SUBSET Pis /\ Owned(k2, piss', {}, {}) /\ chg_pri_used' \in BOOLEAN
      /\ ipriority' = ipriority /\ chg_pri_used'
  BY <1>1, <1>2, <1>3
<1> QED BY <1>2, <1>3, <1>5, <1>6, BecomesKeeps

(* vtwai_pis: the running task takes the semaphore or waits for it.        *)
LEMMA WaitKeeps ==
  ASSUME PInv, NEW p \in Pis, NEW timed \in BOOLEAN, in_task, taken_in_order(p), vtwai_pis(p, timed)
  PROVE  PInv'
<1>1. /\ Sound(kernel, {}) /\ piss \in SUBSET Pis /\ Owned(kernel, piss, {}, {})
      /\ ipriority \in PriorityMap /\ IInv /\ chg_pri_used \in BOOLEAN
      /\ kernel.pistsk \in [Pis -> Task \cup {NoTask}]
  BY CallAssumes, KernelFields DEF Sound
<1>2. /\ p \in piss /\ ~in_ddsp /\ UNCHANGED <<piss, chg_pri_used, countvars, ipriority, cpuvars>>
      /\ \A q \in ToSet(kernel.pislist[ctxtsk]) : <<q, p>> \in IsBefore
  BY KernelIs DEF vtwai_pis, taken_in_order
<1>3. ctxtsk \in Task /\ kernel.state[ctxtsk] = "READY" /\ state \in [Task -> TSTAT]
  <2>1. dispatch_enabled
    <3>1. ipm \in 0 .. IPM_MAX /\ IPM_MAX \in Nat
      BY <1>1, TaskCoreAssumption DEF IInv, TypeOK
    <3> QED BY <1>2, <3>1 DEF in_ddsp, in_loc, dispatch_enabled
  <2> QED BY <1>1, <2>1, CallerTask, KernelIs DEF IInv, TypeOK
<1>4. CASE pistsk[p] = NoTask
  <2> DEFINE k2 == [kernel EXCEPT !.pistsk[p] = ctxtsk, !.pislist[ctxtsk] = <<p>> \o @]
  <2>1. /\ Sound(k2, {})
        /\ Owned(k2, piss, {}, {})
        /\ AllExact(kernel, {}) => AllExact(k2, {})
        /\ k2.state = kernel.state /\ k2.priority = kernel.priority
    <3>1. kernel.pistsk[p] = NoTask /\ kernel.state[ctxtsk] \in {"READY", "SUSPEND"}
      BY <1>3, <1>4, KernelIs
    <3>2. /\ Sound(kernel, {}) /\ piss \in SUBSET Pis /\ Owned(kernel, piss, {}, {})
          /\ p \in piss /\ ctxtsk \in Task
      BY <1>1, <1>2, <1>3
    <3>3. k2 = Takes(kernel, ctxtsk, p)
      BY DEF Takes
    <3> HIDE DEF k2
    <3> QED BY <3>1, <3>2, <3>3, TakesFree
  <2>2. /\ pistsk' = [pistsk EXCEPT ![p] = ctxtsk]
        /\ pislist' = [pislist EXCEPT ![ctxtsk] = <<p>> \o @]
        /\ UNCHANGED <<state, priority, waitvars, schedvars>>
    BY <1>4 DEF vtwai_pis
  <2>3. /\ k2.state = state /\ k2.priority = priority /\ k2.wspec = wspec
        /\ k2.wait_queue = wait_queue /\ k2.timer_queue = timer_queue
        /\ k2.ready_queue = ready_queue /\ k2.schedtsk = schedtsk
        /\ k2.pistsk = [pistsk EXCEPT ![p] = ctxtsk]
        /\ k2.pislist = [pislist EXCEPT ![ctxtsk] = <<p>> \o @]
    BY DEF kernel
  <2> HIDE DEF k2
  <2>4. becomes(k2)
    BY <2>2, <2>3 DEF becomes, waitvars, schedvars
  <2>5. Eases(kernel.state, k2.state) /\ Spares(kernel, k2)
    BY <2>1 DEF Eases, Spares
  <2>6. piss' \in SUBSET Pis /\ Owned(k2, piss', {}, {})
    BY <1>1, <1>2, <2>1
  <2> QED BY <1>2, <2>1, <2>4, <2>5, <2>6, EasesCall
<1>5. CASE pistsk[p] # NoTask
  <2> DEFINE o  == kernel.pistsk[p]
             k1 == IF kernel.priority[o] > kernel.priority[ctxtsk]
                   THEN change_priority(to_change(kernel, o, kernel.priority[ctxtsk])) ELSE kernel
             k2 == Enqueue(k1, ctxtsk, p, timed)
  <2>1. /\ Sound(k2, {})
        /\ Owned(k2, piss, {}, {})
        /\ AllExact(kernel, {}) => AllExact(k2, {})
        /\ k1.state = kernel.state
        /\ WaitsNow(kernel, k2, ctxtsk)
        /\ Spares(kernel, k2)
    <3>1. kernel.pistsk[p] \in Task
      BY <1>1, <1>5, KernelIs
    <3>2. /\ Sound(kernel, {}) /\ piss \in SUBSET Pis /\ Owned(kernel, piss, {}, {})
          /\ p \in piss /\ ctxtsk \in Task /\ kernel.state[ctxtsk] = "READY"
          /\ ipriority \in PriorityMap
      BY <1>1, <1>2, <1>3
    <3>3. \A q \in ToSet(kernel.pislist[ctxtsk]) : <<q, p>> \in IsBefore
      BY <1>2
    <3>4. k1 = Raised(kernel, kernel.pistsk[p], ctxtsk) /\ k2 = Enqueue(k1, ctxtsk, p, timed)
      BY DEF Raised
    <3> HIDE DEF k1, k2, o
    <3> QED BY <3>1, <3>2, <3>3, <3>4, WaitBegins
  <2>2. /\ o = pistsk[p]
        /\ k1 = IF priority[o] > priority[ctxtsk]
                THEN change_priority(to_change(kernel, o, priority[ctxtsk])) ELSE kernel
    BY KernelIs
  <2> HIDE DEF k1, o
  <2>3. /\ k1.state[ctxtsk] = "READY" /\ state[ctxtsk] = "READY"
    BY <1>3, <2>1, KernelIs
  <2>4. becomes(k2)
    BY <1>5, <2>2, <2>3 DEF vtwai_pis, Enqueue
  <2> HIDE DEF k2
  <2>5. k2.state = [state EXCEPT ![ctxtsk] = "WAIT"]
    BY <2>1, KernelIs DEF WaitsNow
  <2>6. IInv'
    BY <1>1, <1>2, <2>1, <2>4, <2>5, WaitsInv
  <2>7. \A t \in Task : k2.state[t] = "DORMANT" =>
          state[t] = "DORMANT" /\ k2.priority[t] = priority[t]
    BY <1>3, <2>1, <2>5, KernelIs DEF Spares, AliveIn, TS_WAIT, TS_SUSPEND
  <2>8. /\ piss' \in SUBSET Pis /\ Owned(k2, piss', {}, {}) /\ chg_pri_used' \in BOOLEAN
        /\ ipriority' = ipriority /\ chg_pri_used' = chg_pri_used
    BY <1>1, <1>2, <2>1
  <2> QED BY <2>1, <2>4, <2>6, <2>7, <2>8, BecomesKeeps
<1> QED BY <1>4, <1>5

(* The end of a task.                                                      *)
LEMMA EndKeeps ==
  ASSUME PInv, in_task, NEW t \in Task, task_alive(t), NEW s \in {"DORMANT", "NONEXIST"},
         becomes(terminated(kernel, t, s)), CountsReset(t, s),
         UNCHANGED <<piss, chg_pri_used, ipriority>>,
         (t # ctxtsk /\ UNCHANGED cpuvars) \/ force_dispatch
  PROVE  PInv'
<1> DEFINE k2 == terminated(kernel, t, s)
<1>1. /\ Sound(kernel, {}) /\ piss \in SUBSET Pis /\ Owned(kernel, piss, {}, {})
      /\ ipriority \in PriorityMap /\ IInv /\ chg_pri_used \in BOOLEAN
      /\ AliveIn(kernel, t)
  BY CallAssumes, KernelIs DEF AliveIn, task_alive
<1>2. /\ Sound(k2, {})
      /\ Owned(k2, piss, {}, {})
      /\ AllExact(kernel, {}) => AllExact(k2, {})
      /\ \E mid : /\ Eases(kernel.state, mid) /\ mid[t] = kernel.state[t]
                  /\ mid \in [Task -> TSTAT] /\ k2.state = [mid EXCEPT ![t] = s]
      /\ s = "DORMANT" => k2.priority[t] = ipriority[t]
      /\ \A u \in Task \ {t} : ~AliveIn(kernel, u) => k2.priority[u] = kernel.priority[u]
  BY <1>1, Terminated
<1>3. becomes(k2)
  OBVIOUS
<1> HIDE DEF k2
<1>4. Ends(t, s, k2)
  BY <1>2, KernelIs DEF Ends
<1>5. IInv'
  BY <1>1, <1>2, <1>3, <1>4, EndsInv
<1>6. ASSUME NEW u \in Task, k2.state[u] = "DORMANT"
      PROVE  \/ k2.priority[u] = ipriority[u]
             \/ state[u] = "DORMANT" /\ k2.priority[u] = priority[u]
  <2>1. PICK mid : /\ Eases(state, mid) /\ mid \in [Task -> TSTAT]
                   /\ k2.state = [mid EXCEPT ![t] = s]
    BY <1>4 DEF Ends
  <2>2. CASE u = t
    BY <1>2, <1>6, <2>1, <2>2
  <2>3. CASE u # t
    <3>1. state[u] = "DORMANT"
      BY <1>6, <2>1, <2>3 DEF Eases
    <3> QED BY <1>2, <2>3, <3>1, KernelIs DEF AliveIn, TS_WAIT, TS_SUSPEND
  <2> QED BY <2>2, <2>3
<1>7. /\ piss' \in SUBSET Pis /\ Owned(k2, piss', {}, {}) /\ chg_pri_used' \in BOOLEAN
      /\ ipriority' = ipriority /\ chg_pri_used' = chg_pri_used
  BY <1>1, <1>2
<1>8. Sound(k2, {}) /\ (AllExact(kernel, {}) => AllExact(k2, {}))
  BY <1>2
<1> QED BY <1>3, <1>5, <1>6, <1>7, <1>8, BecomesKeeps

(* The calls that end a task: ter_tsk, ext_tsk and exd_tsk.                *)
LEMMA EndCallKeeps ==
  ASSUME PInv, (\E t \in Task : pis_ter_tsk(t)) \/ pis_ext_tsk \/ pis_exd_tsk
  PROVE  PInv'
<1>0. IInv
  BY CallAssumes
<1>1. ASSUME NEW t \in Task, pis_ter_tsk(t) PROVE PInv'
  <2>1. /\ in_task /\ task_alive(t) /\ t # ctxtsk
        /\ becomes(terminated(kernel, t, "DORMANT")) /\ UNCHANGED cpuvars
        /\ CountsReset(t, "DORMANT") /\ UNCHANGED <<piss, chg_pri_used, ipriority>>
    BY <1>1 DEF pis_ter_tsk, CountsReset, nonself, in_task
  <2> QED BY <2>1, EndKeeps
<1>2. in_task => ctxtsk \in Task /\ task_alive(ctxtsk)
  BY <1>0, CallerTask DEF task_alive, TS_SUSPEND
<1>3. CASE pis_ext_tsk
  <2>1. /\ in_task /\ becomes(terminated(kernel, ctxtsk, "DORMANT")) /\ force_dispatch
        /\ CountsReset(ctxtsk, "DORMANT") /\ UNCHANGED <<piss, chg_pri_used, ipriority>>
    BY <1>3 DEF pis_ext_tsk, CountsReset
  <2> QED BY <1>2, <2>1, EndKeeps
<1>4. CASE pis_exd_tsk
  <2>1. /\ in_task /\ becomes(terminated(kernel, ctxtsk, "NONEXIST")) /\ force_dispatch
        /\ CountsReset(ctxtsk, "NONEXIST") /\ UNCHANGED <<piss, chg_pri_used, ipriority>>
    BY <1>4 DEF pis_exd_tsk, CountsReset
  <2> QED BY <1>2, <2>1, EndKeeps
<1> QED BY <1>1, <1>3, <1>4

(* What the calls that no hook is part of do to a task: they leave waits   *)
(* alone, end no task, and give a priority only to one that they create.   *)
OtherSteps(u) ==
  /\ task_alive(u) => task_alive(u)'
  /\ task_alive(u)' => task_alive(u) \/ state[u] = "DORMANT"
  /\ state[u] # "NONEXIST" => priority'[u] = priority[u] /\ ipriority'[u] = ipriority[u]
  /\ state'[u] = "DORMANT" => state[u] = "DORMANT" \/ priority'[u] = ipriority'[u]

(* That is what they do.                                                   *)
LEMMA OtherCallSteps ==
  ASSUME TypeOK, NEW t \in Task, NEW pri \in Priority,
         \/ del_tsk(t) \/ sta_tsk(t) \/ sus_tsk(t) \/ rsm_tsk(t) \/ frsm_tsk(t)
         \/ cre_tsk(t, pri)
  PROVE  UNCHANGED waitvars /\ \A u \in Task : OtherSteps(u)
<1>t. /\ state \in [Task -> TSTAT] /\ priority \in [Task -> Priority]
      /\ ipriority \in [Task -> Priority]
  BY DEF TypeOK
<1>1. CASE cre_tsk(t, pri)
  BY <1>t, <1>1 DEF cre_tsk, set_state, OtherSteps, task_alive, TS_WAIT, TS_SUSPEND
<1>2. CASE del_tsk(t)
  BY <1>t, <1>2 DEF del_tsk, set_state, privars, OtherSteps, task_alive, TS_WAIT, TS_SUSPEND
<1>3. CASE sta_tsk(t)
  BY <1>t, <1>3 DEF sta_tsk, make_ready, privars, OtherSteps, task_alive, TS_WAIT, TS_SUSPEND
<1>4. CASE sus_tsk(t)
  <2>1. UNCHANGED waitvars /\ UNCHANGED privars /\ task_alive(t)
    BY <1>4 DEF sus_tsk
  <2>2. \/ state' = [state EXCEPT ![t] = "SUSPEND"] \/ state' = [state EXCEPT ![t] = "WAITSUS"]
        \/ state' = state
    BY <1>4 DEF sus_tsk, make_non_ready, set_state
  <2> QED BY <1>t, <2>1, <2>2 DEF privars, OtherSteps, task_alive, TS_WAIT, TS_SUSPEND
<1>5. CASE rsm_tsk(t) \/ frsm_tsk(t)
  <2>1. UNCHANGED waitvars /\ UNCHANGED privars /\ task_alive(t)
    BY <1>5 DEF rsm_tsk, frsm_tsk, task_alive
  <2>2. \/ state' = [state EXCEPT ![t] = "READY"] \/ state' = [state EXCEPT ![t] = "WAIT"]
        \/ state' = state
    BY <1>5 DEF rsm_tsk, frsm_tsk, resume, make_ready, set_state
  <2> QED BY <1>t, <2>1, <2>2 DEF privars, OtherSteps, task_alive, TS_WAIT, TS_SUSPEND
<1> QED BY <1>1, <1>2, <1>3, <1>4, <1>5

(* They keep the invariant: those who wait and those who are waited for    *)
(* keep their priorities, and a task that is started has no semaphores.    *)
LEMMA OtherKeeps ==
  ASSUME PInv, OtherCall \/ UNCHANGED <<vars, pisvars>>
  PROVE  PInv'
<1>t. /\ Sound(kernel, {}) /\ piss \in SUBSET Pis /\ Owned(kernel, piss, {}, {})
      /\ IInv /\ chg_pri_used \in BOOLEAN /\ TypeOK
  BY CallAssumes DEF IInv
<1>1. /\ IInv' /\ UNCHANGED <<waitvars, pisvars>>
      /\ \A u \in Task : OtherSteps(u)
  <2>1. CASE (CpuStep /\ UNCHANGED pisvars) \/ UNCHANGED <<vars, pisvars>>
    <3>1. UNCHANGED taskvars /\ UNCHANGED pisvars
      BY <2>1, CpuStepTasks DEF vars
    <3>2. [Next]_vars
      BY <2>1 DEF Next
    <3>3. IInv'
      BY <1>t, <3>2, StepInv
    <3> QED BY <3>1, <3>3 DEF taskvars, privars, OtherSteps, task_alive
  <2>2. CASE ~CpuStep /\ OtherCall
    <3>1. PICK t \in Task, pri \in Priority :
            \/ del_tsk(t) \/ sta_tsk(t) \/ sus_tsk(t) \/ rsm_tsk(t) \/ frsm_tsk(t)
            \/ cre_tsk(t, pri)
      BY <2>2, TaskManagementAssumption DEF OtherCall
    <3>2. Next
      BY <3>1, CallIsStep DEF CallOn
    <3>3. IInv' /\ UNCHANGED pisvars
      BY <1>t, <2>2, <3>2, StepInv DEF OtherCall
    <3>4. UNCHANGED waitvars /\ \A u \in Task : OtherSteps(u)
      BY <1>t, <3>1, OtherCallSteps
    <3> QED BY <3>3, <3>4
  <2> QED BY <2>1, <2>2 DEF OtherCall
<1>2. /\ wspec' = wspec /\ wait_queue' = wait_queue /\ timer_queue' = timer_queue
      /\ piss' = piss /\ pistsk' = pistsk /\ pislist' = pislist /\ chg_pri_used' = chg_pri_used
  BY <1>1 DEF waitvars, pisvars
<1>3. /\ wspec \in [Task -> Pis \cup {"none"}]
      /\ wait_queue \in [Gcb -> Seq(Task)]
      /\ pistsk \in [Pis -> Task \cup {NoTask}] /\ pislist \in [Task -> Queue(Pis)]
  BY <1>t, KernelFields, KernelIs DEF Sound
<1>4. /\ \A u \in Task : state[u] \in TS_WAIT <=> wspec[u] # "none"
      /\ \A g \in Gcb : /\ wait_queue[g] \in Queue(Task)
                        /\ ToSet(wait_queue[g]) = {u \in Task \ {} : wspec[u] = g}
                        /\ SortedBy(wait_queue[g], priority)
  BY <1>t, KernelIs DEF Sound, Queued
<1>5. ASSUME NEW u \in Task, wspec[u] # "none"
      PROVE  priority'[u] = priority[u] /\ task_alive(u)
  BY <1>1, <1>4, <1>5 DEF OtherSteps, task_alive, TS_WAIT, TS_SUSPEND
<1>6. Sound(kernel, {})'
  <2>1. ASSUME NEW g \in Gcb PROVE SortedBy(wait_queue'[g], priority')
    <3>1. \A u \in ToSet(wait_queue[g]) : priority'[u] = priority[u]
      BY <1>4, <1>5, PisAreObjects, TaskCoreAssumption
    <3> QED BY <1>2, <1>4, <3>1, SameSorted
  <2>2. StateType' /\ SchedInv' /\ WaitInv'
    BY <1>1 DEF IInv, TypeOK, StateType
  <2>3. ready_queue' \in RDYQUE /\ schedtsk' \in Task \cup {NoTask} /\ timer_queue' \in SUBSET Task
    BY <1>1 DEF IInv, TypeOK
  <2> QED BY <1>2, <1>3, <2>1, <2>2, <2>3, SoundNext
<1>7. (chg_pri_used \in BOOLEAN)' /\ (piss \in SUBSET Pis)'
  BY <1>t, <1>2
<1> DEFINE k2 == kernel'
<1>8. /\ k2.state = state' /\ k2.priority = priority' /\ k2.wspec = wspec
      /\ k2.pistsk = pistsk /\ k2.pislist = pislist
  BY <1>2 DEF kernel
<1> HIDE DEF k2
<1>9. \A u \in Task : /\ AliveIn(kernel, u) <=> task_alive(u)
                      /\ AliveIn(k2, u) <=> task_alive(u)'
  BY <1>8, KernelIs DEF AliveIn, task_alive
<1>10. Owned(k2, piss, {}, {})
  <2>1. Held(k2, piss)
    BY <1>t, <1>8, KernelIs DEF Owned, Held
  <2>2. \A q \in piss : Listed(k2, piss, {}, {}, q)
    BY <1>t, <1>8, KernelIs DEF Owned, Listed
  <2>3. ASSUME NEW q \in piss PROVE HasOwner(k2, {}, q)
    <3>1. q \in Pis /\ (pistsk[q] = NoTask \/ pistsk[q] \in Task)
      BY <1>t, <1>3
    <3>2. HasOwner(kernel, {}, q)
      BY <1>t DEF Owned
    <3>3. pistsk[q] # NoTask => AliveIn(kernel, pistsk[q])
      BY <3>2, KernelIs DEF HasOwner
    <3>4. pistsk[q] # NoTask => AliveIn(k2, pistsk[q])
      BY <1>1, <1>9, <3>1, <3>3 DEF OtherSteps
    <3> QED BY <1>8, <3>2, <3>4, KernelIs DEF HasOwner
  <2> QED BY <2>1, <2>2, <2>3 DEF Owned
<1>11. SemInv'
  BY <1>2, <1>6, <1>7, <1>10 DEF SemInv, k2
<1>12. PriInv'
  <2> SUFFICES ASSUME ~chg_pri_used' PROVE PriExact' /\ PriAtRest'
    BY DEF PriInv
  <2>1. AllExact(kernel, {}) /\ PriAtRest
    BY <1>2 DEF PInv, PriInv, PriExact
  <2>2. PriAtRest'
    <3>1. \A u \in Task : state[u] = "DORMANT" /\ state'[u] = "DORMANT" => priority'[u] = ipriority'[u]
      BY <1>1, <2>1 DEF PriAtRest, OtherSteps
    <3> QED BY <1>1, <3>1 DEF PriAtRest, OtherSteps
  <2> DEFINE W == WaitOf(kernel, {})
  <2>3. WaitOf(k2, {}) = W /\ \A u \in Task : W[u] = wspec[u]
    BY <1>8, KernelIs DEF WaitOf
  <2> HIDE DEF W
  <2>4. ASSUME NEW u \in Task, task_alive(u)'
        PROVE  Least(priority'[u], {ipriority'[u]} \cup {priority'[v] : v \in Donors(W, pislist[u])})
    <3>1. "none" \notin ToSet(pislist[u])
      BY <1>t, KernelIs, PisAreObjects DEF Owned, Held
    <3>2. \A v \in Donors(W, pislist[u]) : priority'[v] = priority[v]
      BY <1>5, <2>3, <3>1 DEF Donors
    <3>3. CASE task_alive(u)
      <4>1. Least(priority[u], {ipriority[u]} \cup {priority[v] : v \in Donors(W, pislist[u])})
        BY <1>9, <2>1, <3>3, KernelIs DEF AllExact, ExactFor, Shares, W
      <4>2. priority'[u] = priority[u] /\ ipriority'[u] = ipriority[u]
        BY <1>1, <3>3 DEF OtherSteps, task_alive, TS_WAIT, TS_SUSPEND
      <4>3. {priority'[v] : v \in Donors(W, pislist[u])} = {priority[v] : v \in Donors(W, pislist[u])}
        BY <3>2
      <4> QED BY <4>1, <4>2, <4>3
    <3>4. CASE ~task_alive(u)
      <4>1. state[u] = "DORMANT" /\ priority'[u] = priority[u] /\ ipriority'[u] = ipriority[u]
        BY <1>1, <2>4, <3>4 DEF OtherSteps
      <4>2. priority'[u] = ipriority'[u] /\ priority'[u] \in Nat
        BY <1>1, <2>1, <4>1, ReadyQueueAssumption DEF PriAtRest, IInv, TypeOK, Priority
      <4>3. ToSet(pislist[u]) = {}
        <5>1. ASSUME NEW q \in ToSet(pislist[u]) PROVE FALSE
          <6>1. q \in piss
            BY <1>t, KernelIs DEF Owned, Held
          <6>2. pistsk[q] = u /\ (pistsk[q] # NoTask => AliveIn(kernel, pistsk[q]))
            BY <1>t, <6>1, KernelIs DEF Owned, Listed, HasOwner
          <6> QED BY <1>9, <3>4, <6>2, ReadyQueueAssumption
        <5> QED BY <5>1
      <4>4. Donors(W, pislist[u]) = {}
        BY <4>3 DEF Donors
      <4> QED BY <4>2, <4>4 DEF Least
    <3> QED BY <3>3, <3>4
  <2>5. AllExact(kernel, {})'
    <3>1. WaitOf(kernel, {})' = W
      BY <2>3 DEF k2
    <3>2. ASSUME NEW u \in Task, AliveIn(kernel', u)
          PROVE  Least(kernel'.priority[u],
                       {ipriority'[u]} \cup {kernel'.priority[v] : v \in Donors(W, kernel'.pislist[u])})
      BY <1>8, <1>9, <2>4, <3>2 DEF k2
    <3> QED BY <3>1, <3>2 DEF AllExact, ExactFor, Shares
  <2> QED BY <2>2, <2>5 DEF PriExact
<1> QED BY <1>1, <1>11, <1>12 DEF PInv

(* At the start no semaphore exists, and the initial task runs.            *)
LEMMA InitKeeps ==
  ASSUME PisInit
  PROVE  PInv
<1>1. IInv
  BY InitInv DEF PisInit
<1>2. /\ state = [t \in Task |-> IF t = TSK_INIT THEN "READY" ELSE "NONEXIST"]
      /\ priority = ipriority
      /\ wspec = [t \in Task |-> "none"] /\ wait_queue = [g \in Gcb |-> << >>]
      /\ piss = {} /\ pistsk = [p \in Pis |-> NoTask] /\ pislist = [t \in Task |-> << >>]
      /\ chg_pri_used = FALSE
  BY DEF PisInit, Init, prisem_initialize
<1>3. << >> \in Queue(Pis) /\ << >> \in Queue(Task) /\ ToSet(<< >>) = {}
  BY DEF Queue, IsInjective, ToSet
<1>4. /\ state \in [Task -> TSTAT] /\ priority \in PriorityMap
      /\ wspec \in [Task -> Pis \cup {"none"}]
      /\ wait_queue \in [Gcb -> Seq(Task)] /\ timer_queue \in SUBSET Task
      /\ ready_queue \in RDYQUE /\ schedtsk \in Task \cup {NoTask}
      /\ pistsk \in [Pis -> Task \cup {NoTask}] /\ pislist \in [Task -> Queue(Pis)]
  BY <1>1, <1>2, <1>3 DEF IInv, TypeOK, PriorityMap
<1>5. Sound(kernel, {})
  <2>1. kernel \in KernelStates
    BY <1>4 DEF KernelStates, kernel
  <2>2. Scheduled(kernel, {})
    <3>1. ReadyTasks = ReadyIn(kernel, {})
      BY KernelIs DEF ReadyTasks, ReadyIn
    <3> QED BY <1>1, <3>1, KernelIs DEF IInv, SchedInv, SchedtskIsTop, Scheduled
  <2>3. Queued(kernel, {})
    <3>1. \A t \in Task : state[t] \in TS_WAIT <=> wspec[t] # "none"
      BY <1>1 DEF IInv, WaitInv, waiting
    <3>2. timer_queue \subseteq WaitIn(kernel, {})
      BY <1>1, <1>4, KernelIs DEF IInv, WaitInv, TimeoutOnlyWhileWaiting, waiting, WaitIn
    <3>3. ASSUME NEW g \in Gcb
          PROVE  /\ wait_queue[g] \in Queue(Task)
                 /\ ToSet(wait_queue[g]) = {u \in Task \ {} : wspec[u] = g}
                 /\ SortedBy(wait_queue[g], priority)
      <4>1. wait_queue[g] = << >>
        BY <1>2
      <4>2. g # "none"
        BY TaskCoreAssumption
      <4>3. {u \in Task \ {} : wspec[u] = g} = {}
        BY <1>2, <4>2
      <4> QED BY <1>3, <4>1, <4>3 DEF SortedBy, before
    <3> QED BY <3>1, <3>2, <3>3, KernelIs DEF Queued
  <2> QED BY <2>1, <2>2, <2>3 DEF Sound
<1>6. Owned(kernel, piss, {}, {})
  <2>1. Held(kernel, {})
    BY <1>2, <1>3, KernelIs DEF Held
  <2> QED BY <1>2, <2>1 DEF Owned
<1>7. SemInv
  BY <1>2, <1>5, <1>6 DEF SemInv
<1>8. PriInv
  <2>1. ASSUME NEW u \in Task, AliveIn(kernel, u) PROVE ExactFor(kernel, WaitOf(kernel, {}), u)
    <3> DEFINE W == WaitOf(kernel, {})
    <3>1. kernel.pislist[u] = << >> /\ kernel.priority[u] = ipriority[u] /\ priority[u] \in Nat
      BY <1>2, <1>4, KernelIs, ReadyQueueAssumption DEF PriorityMap, Priority
    <3> HIDE DEF W
    <3>2. Donors(W, << >>) = {}
      BY <1>3 DEF Donors
    <3>3. Shares(kernel, W, u, << >>) = {ipriority[u]}
      BY <3>2 DEF Shares
    <3> QED BY <1>2, <3>1, <3>3 DEF ExactFor, Least, W
  <2>2. AllExact(kernel, {})
    BY <2>1 DEF AllExact
  <2>3. PriAtRest
    BY <1>2 DEF PriAtRest
  <2> QED BY <2>2, <2>3 DEF PriInv, PriExact
<1> QED BY <1>1, <1>7, <1>8 DEF PInv

(* Every step keeps the invariant.                                         *)
LEMMA PisStepKeeps ==
  ASSUME PInv, [PisNext]_<<vars, pisvars>>
  PROVE  PInv'
<1>1. CASE PisCall
  <2>1. PICK p \in Pis :
          \/ vcre_pis(p) \/ vdel_pis(p) \/ vsig_pis(p)
          \/ in_task /\ taken_in_order(p) /\ \E timed \in BOOLEAN : vtwai_pis(p, timed)
    BY <1>1 DEF PisCall
  <2>2. CASE vcre_pis(p)
    BY <2>2, CreateKeeps
  <2>3. CASE vdel_pis(p)
    BY <2>3, DeleteKeeps
  <2>4. CASE vsig_pis(p)
    BY <2>4, SignalKeeps
  <2>5. CASE in_task /\ taken_in_order(p) /\ \E timed \in BOOLEAN : vtwai_pis(p, timed)
    BY <2>5, WaitKeeps
  <2> QED BY <2>1, <2>2, <2>3, <2>4, <2>5
<1>2. CASE PisTaskCall
  <2>1. ASSUME NEW t \in Task, pis_rel_wai_tsk(t) \/ pis_timer_handler(t)
        PROVE  PInv'
    BY <2>1, ReleaseKeeps
  <2>2. ASSUME NEW t \in Task, NEW pri \in Priority, pis_chg_pri_tsk(t, pri)
        PROVE  PInv'
    BY <2>2, ChangeKeeps
  <2>3. CASE (\E t \in Task : pis_ter_tsk(t)) \/ pis_ext_tsk \/ pis_exd_tsk
    BY <2>3, EndCallKeeps
  <2> QED BY <1>2, <2>1, <2>2, <2>3 DEF PisTaskCall
<1>3. CASE OtherCall \/ UNCHANGED <<vars, pisvars>>
  BY <1>3, OtherKeeps
<1> QED BY <1>1, <1>2, <1>3 DEF PisNext

(* The inductive invariant holds in every state.                           *)
THEOREM PisInvariance == PisSpec => []PInv
<1>1. PisInit => PInv
  BY InitKeeps
<1>2. PInv /\ [PisNext]_<<vars, pisvars>> => PInv'
  BY PisStepKeeps
<1> QED BY <1>1, <1>2, PTL DEF PisSpec

-----------------------------------------------------------------------------
(***************************************************************************)
(* The properties.                                                         *)
(***************************************************************************)
(* However tasks, waits and semaphores end: a semaphore is in the list of  *)
(* the task that has it and in no other, tasks that have ended have none,  *)
(* and one that is waited for is had (prisem.c, vsig_pis, vdel_pis,        *)
(* signal_all_prisem, pis_rel_wai).                                        *)
THEOREM OwnersStaySound == PisSpec => []OwnersSound
<1>1. PInv => OwnersSound
  <2>0. HAVE PInv
  <2>1. /\ Sound(kernel, {}) /\ piss \in SUBSET Pis /\ Owned(kernel, piss, {}, {})
        /\ chg_pri_used \in BOOLEAN /\ TypeOK
    BY <2>0, CallAssumes DEF IInv
  <2>2. pistsk \in [Pis -> Task \cup {NoTask}] /\ pislist \in [Task -> Queue(Pis)]
    BY <2>1, KernelFields, KernelIs DEF Sound
  <2>3. PisTypeOK
    BY <2>1, <2>2 DEF PisTypeOK, Queue
  <2>4. \A p \in piss : \A t \in Task : pistsk[p] = t <=> p \in ToSet(pislist[t])
    BY <2>1, KernelIs DEF Owned, Listed
  <2>5. \A t \in Task : ToSet(pislist[t]) \subseteq piss
    BY <2>1, KernelIs DEF Owned, Held
  <2>6. \A p \in piss : pistsk[p] # NoTask => task_alive(pistsk[p])
    BY <2>1, KernelIs DEF Owned, HasOwner, AliveIn, task_alive
  <2>7. ASSUME NEW p \in piss, wait_queue[p] # << >> PROVE pistsk[p] # NoTask
    <3>1. wait_queue[p] \in Queue(Task) /\ ToSet(wait_queue[p]) = {u \in Task \ {} : wspec[u] = p}
      BY <2>1, KernelIs, PisAreObjects DEF Sound, Queued
    <3>2. PICK u \in Task : wspec[u] = p
      <4>1. wait_queue[p][1] \in ToSet(wait_queue[p])
        BY <2>7, <3>1, EmptySeq, LenProperties DEF Queue, ToSet
      <4> QED BY <3>1, <4>1
    <3> QED BY <2>1, <3>2, KernelIs DEF Owned, HasOwner
  <2> QED BY <2>3, <2>4, <2>5, <2>6, <2>7 DEF OwnersSound, OwnersExact
<1> QED BY <1>1, PisInvariance, PTL

(* The waiters of a semaphore stay in the order of their priorities when   *)
(* these change along a chain of waits (prisem.c, pis_chg_pri).            *)
THEOREM PisQueuesStaySorted == PisSpec => []PisQueueSorted
<1>1. PInv => PisQueueSorted
  <2>0. HAVE PInv
  <2> SUFFICES ASSUME NEW p \in Pis, NEW i \in DOMAIN wait_queue[p], NEW j \in DOMAIN wait_queue[p],
                      i < j
               PROVE  priority[wait_queue[p][i]] <= priority[wait_queue[p][j]]
    BY DEF PisQueueSorted
  <2>1. SortedBy(wait_queue[p], priority)
    BY <2>0, CallAssumes, KernelIs, PisAreObjects DEF Sound, Queued
  <2>2. before(wait_queue[p], wait_queue[p][i], wait_queue[p][j])
    BY DEF before
  <2> QED BY <2>1, <2>2 DEF SortedBy
<1> QED BY <1>1, PisInvariance, PTL

(* Without chg_pri the priority of every task is exactly the one it        *)
(* inherits, whatever ends the waits for the semaphores that it has        *)
(* (prisem.c, with tasks that take semaphores in one order).               *)
THEOREM PrioritiesAreInherited == PisSpec => []InheritsUnlessChanged
<1>1. PInv => InheritsUnlessChanged
  <2>0. HAVE PInv
  <2> SUFFICES ASSUME ~chg_pri_used, NEW t \in Task, task_alive(t)
               PROVE  priority[t] =
                        Min({ipriority[t]} \cup
                            {priority[u] : u \in {w \in Task : waiting(w) /\ wspec[w] \in ToSet(pislist[t])}})
    BY DEF InheritsUnlessChanged, InheritsExactly
  <2> DEFINE W == WaitOf(kernel, {})
             S == {ipriority[t]} \cup {priority[u] : u \in Donors(W, pislist[t])}
  <2>1. /\ Sound(kernel, {}) /\ piss \in SUBSET Pis /\ Owned(kernel, piss, {}, {}) /\ TypeOK
    BY <2>0, CallAssumes DEF IInv
  <2>2. \A u \in Task : W[u] = wspec[u]
    BY KernelIs DEF WaitOf
  <2>3. Least(priority[t], S)
    <3>1. AllExact(kernel, {})
      BY <2>0 DEF PInv, PriInv, PriExact
    <3> QED BY <3>1, KernelIs DEF AllExact, ExactFor, Shares, AliveIn, task_alive
  <2>4. {w \in Task : waiting(w) /\ wspec[w] \in ToSet(pislist[t])} = Donors(W, pislist[t])
    <3>1. "none" \notin ToSet(pislist[t])
      BY <2>1, KernelIs, PisAreObjects DEF Owned, Held
    <3>2. \A w \in Task : waiting(w) <=> wspec[w] # "none"
      BY <2>1, KernelIs DEF Sound, Queued, waiting
    <3> HIDE DEF W
    <3> QED BY <2>2, <3>1, <3>2 DEF Donors
  <2>5. S \in SUBSET Int
    BY <2>1, ReadyQueueAssumption DEF TypeOK, Priority, Donors
  <2> HIDE DEF W, S
  <2>6. Min(S) = priority[t]
    BY <2>3, <2>5, MinIsLeast DEF Least
  <2> QED BY <2>4, <2>6 DEF S
<1> QED BY <1>1, PisInvariance, PTL
=============================================================================
