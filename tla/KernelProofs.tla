---------------------------- MODULE KernelProofs ----------------------------
(***************************************************************************)
(* Proofs about the parts of the kernel that keep time, services and       *)
(* memory: 1 the clock, 2 the services, 3 the stacks of tasks, 4 the timer *)
(* queue.  The parts do not share state, so each has an invariant of its   *)
(* own, which says nothing while another part works.                       *)
(***************************************************************************)
EXTENDS MCKernel, QueueProofs, FiniteSetTheorems

(***************************************************************************)
(* 1. The clock.  In each state that vget_tim can be in, what it has read  *)
(* so far tells its result, and the result is a moment of the call: the    *)
(* clock, the count and the pending interrupt account for all of the time  *)
(* that has gone by.                                                       *)
(***************************************************************************)
TimeTypes ==
  /\ elapsed \in Nat /\ clock \in Nat /\ entry \in Nat
  /\ ctime \in Nat /\ tick \in Nat /\ sysutim \in Nat
  /\ hw_count \in 0 .. PERIOD - 1
  /\ handler \in {"idle", "entered"}
  /\ reader \in {"idle", "ctime", "tick", "ireq"}

(* A period the clock does not know of yet, or knows of too late.          *)
pending == ireq \/ handler = "entered"

(* No tick is lost: the clock lags behind by a period while its interrupt  *)
(* is pending or being handled, which is never two at once and not long.   *)
NoTickIsLost ==
  /\ ~(ireq /\ handler = "entered")
  /\ pending => hw_count <= LATENCY
  /\ elapsed = clock + hw_count + IF pending THEN PERIOD ELSE 0

(* What vget_tim would answer if it read the request now.                  *)
answer == IF ireq /\ tick < PERIOD - GET_TOLERANCE THEN ctime + PERIOD + tick
                                                   ELSE ctime + tick

ReadsSound ==
  /\ reader # "idle" => /\ handler = "idle"
                        /\ entry <= elapsed /\ elapsed <= entry + GET_TOLERANCE
  /\ reader = "ctime" => ctime = clock
  /\ reader = "tick" => /\ ctime = clock
                        /\ tick \in 0 .. PERIOD - 1
                        /\ answer \in entry .. elapsed
                        /\ tick <= hw_count \/ (ireq /\ tick >= PERIOD - GET_TOLERANCE)
                        /\ ireq /\ tick <= hw_count => tick < PERIOD - GET_TOLERANCE
  /\ reader = "ireq" => sysutim \in entry .. elapsed

ClockInv == part = "clock" => TimeTypes /\ NoTickIsLost /\ ReadsSound

(* vget_tim masks the interrupt of the timer, so that only the handler of  *)
(* a level above it finds the timer's handler half-way; and an interrupt   *)
(* that waits shows in a count too small to be taken for one before it     *)
(* came.                                                                   *)
TimerTrusted == ~NESTED /\ LATENCY < PERIOD - GET_TOLERANCE

(* The clock and the reads of vget_tim keep the invariant.                 *)
LEMMA ClockInvariance ==
  ASSUME TimerTrusted
  PROVE  KernelSpec => []ClockInv
<1>1. KernelInit => ClockInv
  BY KernelAssumption DEF KernelInit, ClockInit, Clock!Init, ClockInv, TimeTypes, NoTickIsLost,
     ReadsSound, pending, Clock!SystemTimeAssumption
<1>2. ClockInv /\ [KernelNext]_kernelvars => ClockInv'
  <2> SUFFICES ASSUME ClockInv, [KernelNext]_kernelvars, part' = "clock" PROVE ClockInv'
    BY DEF ClockInv
  <2> USE TimerTrusted, KernelAssumption DEF TimerTrusted, Clock!SystemTimeAssumption
  <2>1. part = "clock"
    BY DEF KernelNext, kernelvars
  <2>2. TimeTypes /\ NoTickIsLost /\ ReadsSound
    BY <2>1 DEF ClockInv
  <2>3. CASE UNCHANGED clockvars
    BY <2>2, <2>3 DEF clockvars, ClockInv, TimeTypes, NoTickIsLost, ReadsSound, pending, answer
  <2>4. CASE Clock!Next
    <3>1. ASSUME Clock!count PROVE TimeTypes' /\ NoTickIsLost' /\ ReadsSound'
      <4>1. TimeTypes'
        BY <2>2, <3>1 DEF Clock!count, Clock!readvars, TimeTypes
      <4>2. /\ UNCHANGED <<clock, handler, reader, ctime, tick, entry, sysutim>>
            /\ elapsed' = elapsed + 1
            /\ pending => hw_count < LATENCY
            /\ reader # "idle" => elapsed - entry < GET_TOLERANCE
        BY <2>2, <3>1 DEF Clock!count, Clock!readvars, Clock!get_current_hw_time, Clock!masked, pending,
           TimeTypes
      <4>3. CASE hw_count = PERIOD - 1
        <5>1. ~pending /\ ~ireq /\ hw_count' = 0 /\ ireq'
          <6>1. ~pending
            BY <2>2, <4>2, <4>3 DEF TimeTypes
          <6>2. hw_count' = 0
            BY <3>1, <4>3 DEF Clock!count
          <6> QED BY <3>1, <6>1, <6>2, Zenon DEF Clock!count, pending
        <5>2. NoTickIsLost'
          BY <2>2, <4>2, <4>3, <5>1 DEF TimeTypes, NoTickIsLost, pending
        <5>3. ReadsSound'
          BY <2>2, <4>2, <4>3, <5>1 DEF TimeTypes, NoTickIsLost, pending, ReadsSound, answer
        <5> QED BY <4>1, <5>2, <5>3
      <4>4. CASE hw_count # PERIOD - 1
        <5>1. hw_count' = hw_count + 1 /\ (ireq' <=> ireq)
          <6>1. hw_count' = hw_count + 1 /\ hw_count' # 0
            BY <2>2, <3>1, <4>4 DEF Clock!count, TimeTypes
          <6> QED BY <3>1, <6>1, Zenon DEF Clock!count
        <5>2. NoTickIsLost'
          BY <2>2, <4>2, <5>1 DEF TimeTypes, NoTickIsLost, pending
        <5>3. ReadsSound'
          BY <2>2, <4>2, <5>1 DEF TimeTypes, NoTickIsLost, pending, ReadsSound, answer
        <5> QED BY <4>1, <5>2, <5>3
      <4> QED BY <4>3, <4>4
    <3>2. ASSUME Clock!clear_hw_timer_interrupt \/ Clock!timer_handler
          PROVE  TimeTypes' /\ NoTickIsLost' /\ ReadsSound'
      BY <2>2, <3>2 DEF Clock!clear_hw_timer_interrupt, Clock!timer_handler, Clock!readvars, Clock!masked,
         TimeTypes, NoTickIsLost, pending, ReadsSound
    <3>3. ASSUME Clock!i_vget_tim PROVE TimeTypes' /\ NoTickIsLost' /\ ReadsSound'
      BY <2>2, <3>3 DEF Clock!i_vget_tim, TimeTypes, NoTickIsLost, pending, ReadsSound
    <3>4. ASSUME Clock!read_tick PROVE TimeTypes' /\ NoTickIsLost' /\ ReadsSound'
      BY <2>2, <3>4 DEF Clock!read_tick, Clock!get_current_hw_time, TimeTypes, NoTickIsLost, pending,
         ReadsSound, answer
    <3>5. ASSUME Clock!read_ireq PROVE TimeTypes' /\ NoTickIsLost' /\ ReadsSound'
      BY <2>2, <3>5 DEF Clock!read_ireq, TimeTypes, NoTickIsLost, pending, ReadsSound, answer
    <3>6. ASSUME Clock!vget_tim_returns PROVE TimeTypes' /\ NoTickIsLost' /\ ReadsSound'
      BY <2>2, <3>6 DEF Clock!vget_tim_returns, TimeTypes, NoTickIsLost, pending, ReadsSound
    <3> QED BY <2>4, <3>1, <3>2, <3>3, <3>4, <3>5, <3>6 DEF Clock!Next, ClockInv
  <2> QED BY <2>1, <2>3, <2>4 DEF KernelNext, ClockStep, StacksStep, ServicesStep,
          EventsStep, kernelvars
<1> QED BY <1>1, <1>2, PTL DEF KernelSpec

(* The time that vget_tim returns is a moment between its call and its     *)
(* return, wherever the timer interrupt comes between its three reads, for *)
(* every period, tolerance and latency of the interrupt that leave it a    *)
(* way to tell.                                                            *)
THEOREM TimeIsReadSoundly == TimerTrusted => (KernelSpec => []ReadsTheTime)
<1> SUFFICES ASSUME TimerTrusted PROVE KernelSpec => []ReadsTheTime
  OBVIOUS
<1>1. ClockInv => ReadsTheTime
  BY DEF ClockInv, ReadsSound, ReadsTheTime, Clock!ReadsTheTime
<1> QED BY <1>1, ClockInvariance, PTL

(***************************************************************************)
(* 2. The services.  The count of a task and the services it is in change  *)
(* together, as long as no service returns before it counts itself out.    *)
(***************************************************************************)
(* The rights of tasks match the services they are in, for any number of   *)
(* tasks and services, however deep they nest.                             *)
THEOREM RightsAreThoseOfServices == LeavesEarly = {} => (KernelSpec => []RightsMatchServices)
<1> SUFFICES ASSUME LeavesEarly = {} PROVE KernelSpec => []RightsMatchServices
  OBVIOUS
<1>1. KernelInit => RightsMatchServices
  <2> SUFFICES ASSUME KernelInit, part = "services"
               PROVE  Services!TypeOK /\ Services!RightsMatchServices
    BY DEF RightsMatchServices
  <2>1. Services!Init
    BY DEF KernelInit, ServicesInit
  <2>2. <<>> \in Seq(Svc \cup Counting) /\ <<>> \in Seq(Svc \cup {"handler"}) /\ Len(<<>>) = 0
    OBVIOUS
  <2>3. Services!TypeOK
    BY <2>1, <2>2, KernelAssumption DEF Services!Init, Services!TypeOK, Services!isysmode,
       Services!SvcAssumption
  <2>4. Services!RightsMatchServices
    BY <2>1, <2>2 DEF Services!Init, Services!RightsMatchServices, Services!isysmode
  <2> QED BY <2>3, <2>4
<1>2. RightsMatchServices /\ [KernelNext]_kernelvars => RightsMatchServices'
  <2> SUFFICES ASSUME RightsMatchServices, [KernelNext]_kernelvars, part' = "services"
               PROVE  Services!TypeOK' /\ Services!RightsMatchServices'
    BY DEF RightsMatchServices
  <2> DEFINE Tasks == SystemTask \cup UserTask
  <2>1. part = "services"
    BY DEF KernelNext, kernelvars
  <2>2. Services!TypeOK /\ Services!RightsMatchServices
    BY <2>1 DEF RightsMatchServices
  <2>3. SystemTask \subseteq Tasks /\ NUM_SVC \in Nat \ {0}
    BY KernelAssumption DEF Services!SvcAssumption
  <2>4. CASE UNCHANGED servicevars
    BY <2>2, <2>4 DEF servicevars, Services!TypeOK, Services!FN, Services!RightsMatchServices
  <2>5. CASE Services!Next
    <3>1. ASSUME NEW t \in Tasks, NEW s \in Svc \cup Counting
          PROVE  /\ <<s>> \o calls[t] \in Seq(Svc \cup Counting)
                 /\ Len(<<s>> \o calls[t]) = Len(calls[t]) + 1
      BY <2>2, <3>1 DEF Services!TypeOK
    <3>2. ASSUME NEW t \in Tasks, calls[t] # <<>>
          PROVE  /\ Tail(calls[t]) \in Seq(Svc \cup Counting)
                 /\ Len(Tail(calls[t])) = Len(calls[t]) - 1 /\ Len(calls[t]) \in Nat \ {0}
      BY <2>2, <3>2 DEF Services!TypeOK
    <3>3. <<>> \in Seq(Svc \cup Counting) /\ Len(<<>>) = 0
      OBVIOUS
    <3>4. ASSUME NEW t \in Tasks, NEW c \in Seq(Svc \cup Counting), NEW m \in Nat,
                 m = Services!isysmode(t) + Len(c),
                 calls' = [calls EXCEPT ![t] = c], sysmode' = [sysmode EXCEPT ![t] = m],
                 svchdr' = svchdr, indp' = indp, svc_ctxtsk' \in alive', alive' \subseteq Tasks
          PROVE  Services!TypeOK' /\ Services!RightsMatchServices'
      <4>1. calls' \in [Tasks -> Seq(Svc \cup Counting)] /\ sysmode' \in [Tasks -> Nat]
        BY <2>2, <3>4 DEF Services!TypeOK
      <4>2. ASSUME NEW u \in Tasks PROVE sysmode'[u] = Services!isysmode(u) + Len(calls'[u])
        BY <2>2, <3>4, <4>2 DEF Services!TypeOK, Services!RightsMatchServices
      <4> QED BY <2>2, <3>4, <4>1, <4>2 DEF Services!TypeOK, Services!RightsMatchServices,
              Services!isysmode, Services!FN
    <3>5. /\ svc_ctxtsk \in Tasks /\ svc_ctxtsk \in alive /\ alive \subseteq Tasks
          /\ sysmode[svc_ctxtsk] \in Nat
          /\ sysmode[svc_ctxtsk] = Services!isysmode(svc_ctxtsk) + Len(calls[svc_ctxtsk])
      BY <2>2 DEF Services!TypeOK, Services!RightsMatchServices
    <3>6a. Services!isysmode(svc_ctxtsk) \in Nat /\ Len(calls[svc_ctxtsk]) \in Nat
      BY <2>2, <3>5 DEF Services!TypeOK, Services!isysmode
    <3>6. ASSUME NEW s \in Svc \cup Counting,
                 calls' = [calls EXCEPT ![svc_ctxtsk] = <<s>> \o @], Services!sysmode_add(1),
                 UNCHANGED <<svchdr, alive, svc_ctxtsk, indp>>
          PROVE  Services!TypeOK' /\ Services!RightsMatchServices'
      <4> DEFINE c == <<s>> \o calls[svc_ctxtsk]
                 m == sysmode[svc_ctxtsk] + 1
      <4>1. c \in Seq(Svc \cup Counting) /\ m \in Nat /\ m = Services!isysmode(svc_ctxtsk) + Len(c)
        BY <3>1, <3>5, <3>6a
      <4>2. calls' = [calls EXCEPT ![svc_ctxtsk] = c] /\ sysmode' = [sysmode EXCEPT ![svc_ctxtsk] = m]
        BY <3>6 DEF Services!sysmode_add
      <4> HIDE DEF c, m
      <4> QED BY <3>4, <3>5, <3>6, <4>1, <4>2
    <3>7. ASSUME NEW fn \in 1 .. NUM_SVC, Services!svc_ientry(fn)
          PROVE  Services!TypeOK' /\ Services!RightsMatchServices'
      <4>1. svchdr[fn] \in Svc
        BY <2>2, <3>7 DEF Services!svc_ientry, Services!TypeOK, Services!FN
      <4>2. <<svchdr[fn]>> \o indp \in Seq(Svc \cup {"handler"})
        BY <2>2, <4>1 DEF Services!TypeOK
      <4>3. CASE Services!in_indp
        BY <2>2, <3>7, <4>2, <4>3 DEF Services!svc_ientry, Services!TypeOK, Services!RightsMatchServices,
           Services!FN, Services!isysmode
      <4>4. CASE ~Services!in_indp
        BY <3>6, <3>7, <4>1, <4>4 DEF Services!svc_ientry
      <4> QED BY <4>3, <4>4
    <3>8. ASSUME NEW f \in Counting, Services!enter_extended_svc(f)
          PROVE  Services!TypeOK' /\ Services!RightsMatchServices'
      BY <3>6, <3>8 DEF Services!enter_extended_svc
    <3>9. ASSUME Services!svc_returns PROVE Services!TypeOK' /\ Services!RightsMatchServices'
      <4>1. CASE Services!in_indp
        <5>1. Tail(indp) \in Seq(Svc \cup {"handler"})
          BY <2>2, <4>1 DEF Services!in_indp, Services!TypeOK
        <5> QED BY <2>2, <3>9, <4>1, <5>1 DEF Services!svc_returns, Services!TypeOK,
                Services!RightsMatchServices, Services!FN, Services!isysmode
      <4>2. CASE ~Services!in_indp
        <5> DEFINE c == Tail(calls[svc_ctxtsk])
                   m == sysmode[svc_ctxtsk] - 1
        <5>1. c \in Seq(Svc \cup Counting) /\ m \in Nat /\ m = Services!isysmode(svc_ctxtsk) + Len(c)
          <6>1. calls[svc_ctxtsk] # <<>>
            BY <3>9, <4>2 DEF Services!svc_returns
          <6> QED BY <3>2, <3>5, <3>6a, <6>1
        <5>2. calls' = [calls EXCEPT ![svc_ctxtsk] = c]
          BY <3>9, <4>2 DEF Services!svc_returns
        <5>3. sysmode' = [sysmode EXCEPT ![svc_ctxtsk] = m]
          BY <3>5, <3>9, <4>2 DEF Services!svc_returns, Services!sysmode_add
        <5>4. UNCHANGED <<svchdr, alive, svc_ctxtsk, indp>>
          BY <3>9, <4>2 DEF Services!svc_returns
        <5> HIDE DEF c, m
        <5> QED BY <3>4, <3>5, <5>1, <5>2, <5>3, <5>4
      <4> QED BY <4>1, <4>2
    <3>a. ASSUME NEW t \in Tasks, Services!make_dormant(t), UNCHANGED <<svchdr, indp>>,
                 svc_ctxtsk' \in alive'
          PROVE  Services!TypeOK' /\ Services!RightsMatchServices'
      <4> DEFINE m == Services!isysmode(t)
      <4>1. m \in Nat /\ m = Services!isysmode(t) + Len(<<>>)
        BY DEF Services!isysmode
      <4>2. /\ calls' = [calls EXCEPT ![t] = <<>>] /\ sysmode' = [sysmode EXCEPT ![t] = m]
            /\ alive' \subseteq Tasks
        BY <3>5, <3>a DEF Services!make_dormant
      <4> HIDE DEF m
      <4> QED BY <3>3, <3>4, <3>a, <4>1, <4>2
    <3> USE DEF Services!FN, Services!isysmode, Services!TypeOK, Services!RightsMatchServices
    <3>b. ASSUME NEW fn \in 1 .. NUM_SVC, NEW hdr \in Svc \cup {no_support}, Services!def_svc(fn, hdr)
          PROVE  Services!TypeOK' /\ Services!RightsMatchServices'
      BY <2>2, <3>b DEF Services!def_svc
    <3>c. ASSUME Services!interrupt \/ Services!ret_int
          PROVE  Services!TypeOK' /\ Services!RightsMatchServices'
      <4>1. <<>> \in Seq(Svc \cup {"handler"}) /\ <<"handler">> \in Seq(Svc \cup {"handler"})
        OBVIOUS
      <4> QED BY <2>2, <3>c, <4>1 DEF Services!interrupt, Services!ret_int
    <3>10. ASSUME NEW t \in Tasks, Services!dispatch(t) \/ Services!sta_tsk(t)
           PROVE  Services!TypeOK' /\ Services!RightsMatchServices'
      BY <2>2, <3>10 DEF Services!dispatch, Services!sta_tsk
    <3>11. ASSUME Services!ext_tsk PROVE Services!TypeOK' /\ Services!RightsMatchServices'
      BY <2>2, <3>a, <3>11 DEF Services!ext_tsk
    <3>12. ASSUME NEW t \in Tasks, Services!ter_tsk(t)
           PROVE  Services!TypeOK' /\ Services!RightsMatchServices'
      <4>1. svc_ctxtsk' \in alive'
        BY <2>2, <3>12 DEF Services!ter_tsk, Services!make_dormant
      <4> QED BY <3>a, <3>12, <4>1 DEF Services!ter_tsk
    <3> QED BY <2>5, <3>7, <3>8, <3>9, <3>b, <3>c, <3>10, <3>11, <3>12 DEF Services!Next, Services!FN
  <2> QED BY <2>1, <2>4, <2>5 DEF KernelNext, ClockStep, StacksStep, ServicesStep,
          EventsStep, kernelvars
<1> QED BY <1>1, <1>2, PTL DEF KernelSpec

(***************************************************************************)
(* 3. The stacks of tasks.                                                 *)
(***************************************************************************)
(* The queues of TaskStacks are those of Queues.                           *)
LEMMA QueuesOfParts ==
  ASSUME NEW q, NEW e
  PROVE  /\ Stacks!queue_delete(q, e) = queue_delete(q, e)
         /\ Stacks!ToSet(q) = ToSet(q) /\ Stacks!IsInjective(q) = IsInjective(q)
<1>1. Stacks!queue_delete(q, e) = queue_delete(q, e)
  BY DEF Stacks!queue_delete, Stacks!RemoveFirst, Stacks!RemoveAt, Stacks!SelectInSeq, Stacks!Min,
     queue_delete, RemoveFirst, RemoveAt, SelectInSeq, Min
<1>2. Stacks!ToSet(q) = ToSet(q) /\ Stacks!IsInjective(q) = IsInjective(q)
  BY DEF Stacks!ToSet, Stacks!IsInjective, ToSet, IsInjective
<1> QED BY <1>1, <1>2

(* A sequence of all elements of a finite set is a queue of them.          *)
LEMMA AllInAQueue ==
  ASSUME NEW S, IsFiniteSet(S), NEW q \in Stacks!SetToSeqs(S)
  PROVE  q \in Queue(S) /\ ToSet(q) = S
<1> DEFINE D == 1 .. Cardinality(S)
<1>1. Cardinality(S) \in Nat
  BY FS_CardinalityType
<1>2. q \in [D -> S] /\ \A i, j \in D : i # j => q[i] # q[j]
  <2>1. Stacks!Cardinality(S) = Cardinality(S)
    BY DEF Stacks!Cardinality, Cardinality
  <2> QED BY <2>1 DEF Stacks!SetToSeqs
<1>3. q \in Seq(S) /\ Len(q) = Cardinality(S) /\ DOMAIN q = D
  BY <1>1, <1>2
<1>4. q \in Injection(D, S)
  BY <1>2 DEF Injection, IsInjective
<1>5. IsFiniteSet(D) /\ Cardinality(D) = Cardinality(S)
  BY <1>1, FS_Interval
<1>6. q \in Surjection(D, S)
  BY <1>4, <1>5, FS_Injection
<1>7. \A x \in S : \E i \in D : q[i] = x
  BY <1>6 DEF Surjection
<1>8. ToSet(q) = S
  BY <1>2, <1>3, <1>7 DEF ToSet
<1> QED BY <1>2, <1>3, <1>8 DEF Queue, IsInjective

has(t, b) == isstack[t] = b \/ istack[t] = b

StackTypes ==
  /\ state \in [Stacks!Task -> {"NONEXIST", "DORMANT", "READY", "WAIT"}]
  /\ isstack \in [Stacks!Task -> Block \cup {NULL}]
  /\ istack \in [Stacks!Task -> Block \cup {NULL}]
  /\ others \subseteq used /\ used \subseteq Block
  /\ ctxtsk \in Stacks!Task \cup {NULL}
  /\ sp \in Block \cup {NULL}

(* The stacks of a task are its own.                                       *)
OwnStacks(t) ==
  /\ isstack[t] \in Block
  /\ isstack[t] # istack[t]
  /\ \A b \in Block : has(t, b) =>
       /\ b \in used \ others
       /\ \A u \in Stacks!Task \ {t} : Stacks!exists(u) => ~has(u, b)

BlocksOwned ==
  /\ \A t \in Stacks!Task : Stacks!exists(t) => OwnStacks(t)
  /\ \A b \in used \ others : \E t \in Stacks!Task : Stacks!exists(t) /\ has(t, b)

FreeTasks ==
  /\ free_tcb \in Queue(UserTask)
  /\ ToSet(free_tcb) = {t \in UserTask : ~Stacks!exists(t)}

(* A task that runs is alive; and the stack that the processor is left on  *)
(* when none runs is nobody's, or still that of the task that ran on it.   *)
RunsOnStack ==
  /\ ctxtsk # NULL => state[ctxtsk] \in {"READY", "WAIT"} /\ sp = isstack[ctxtsk]
  /\ sp \notin others
  /\ \A t \in Stacks!Task : Stacks!exists(t) /\ istack[t] # NULL => sp # istack[t]

StacksIInv == StackTypes /\ BlocksOwned /\ FreeTasks /\ RunsOnStack

StacksInv == part = "stacks" => StacksIInv

(* Without guard pages sys_get_stack tells that there is no memory, and    *)
(* nobody creates an object while the processor idles on a stack that was  *)
(* given back.                                                             *)
StacksTrusted == ~USE_MPROTECT_STACK /\ ~IDLE_CREATES

(* What the module promises follows.                                       *)
LEMMA StacksAreSound ==
  ASSUME StacksIInv
  PROVE  Stacks!TypeOK /\ Stacks!NothingLeaksOrShared /\ Stacks!FreeListExact /\ Stacks!RunsOnOwnStack
<1> USE DEF StacksIInv
<1>0. NULL \notin Block /\ NULL \notin Stacks!Task
  BY KernelAssumption DEF Stacks!StacksAssumption, Stacks!Task
<1>1. Stacks!TypeOK
  BY DEF StackTypes, FreeTasks, Queue, Stacks!TypeOK
<1>2. ASSUME NEW t \in Stacks!Task, Stacks!exists(t)
      PROVE  /\ isstack[t] # istack[t]
             /\ Stacks!stacks(t) \cap others = {}
             /\ \A u \in Stacks!Task \ {t} : Stacks!exists(u) => Stacks!stacks(t) \cap Stacks!stacks(u) = {}
  BY <1>2, <1>0 DEF BlocksOwned, OwnStacks, Stacks!stacks, has, StackTypes
<1>3. ASSUME NEW b PROVE b \in used <=> b \in others \cup UNION {Stacks!stacks(t) : t \in {u \in Stacks!Task : Stacks!exists(u)}}
  <2>1. ASSUME b \in used \ others
        PROVE  b \in UNION {Stacks!stacks(t) : t \in {u \in Stacks!Task : Stacks!exists(u)}}
    <3>1. PICK t \in Stacks!Task : Stacks!exists(t) /\ has(t, b)
      BY <2>1 DEF BlocksOwned
    <3>2. b \in Stacks!stacks(t)
      BY <1>0, <2>1, <3>1 DEF has, Stacks!stacks, StackTypes
    <3> QED BY <3>1, <3>2
  <2>2. ASSUME NEW t \in Stacks!Task, Stacks!exists(t), b \in Stacks!stacks(t) PROVE b \in used
    BY <2>2 DEF BlocksOwned, OwnStacks, Stacks!stacks, has, StackTypes
  <2> QED BY <2>1, <2>2 DEF StackTypes
<1>4. Stacks!NothingLeaksOrShared
  BY <1>2, <1>3 DEF Stacks!NothingLeaksOrShared
<1>5. Stacks!FreeListExact
  BY QueuesOfParts DEF FreeTasks, Queue, Stacks!FreeListExact
<1>6. Stacks!RunsOnOwnStack
  BY DEF RunsOnStack, Stacks!RunsOnOwnStack
<1> QED BY <1>1, <1>4, <1>5, <1>6

(* The initial task has the only stack.                                    *)
LEMMA StacksStart ==
  ASSUME Stacks!Init
  PROVE  StacksIInv
<1> PICK t \in SystemTask, b \in Block :
      /\ state = [u \in Stacks!Task |-> IF u = t THEN "READY" ELSE "NONEXIST"]
      /\ isstack = [u \in Stacks!Task |-> IF u = t THEN b ELSE NULL]
      /\ istack = [u \in Stacks!Task |-> NULL]
      /\ free_tcb \in Stacks!SetToSeqs(UserTask)
      /\ used = {b} /\ others = {}
      /\ ctxtsk = NULL /\ sp = NULL
  BY DEF Stacks!Init
<1>0. /\ NULL \notin Block /\ NULL \notin Stacks!Task /\ t \in Stacks!Task
      /\ UserTask \subseteq Stacks!Task /\ t \notin UserTask
  BY KernelAssumption DEF Stacks!StacksAssumption, Stacks!Task
<1>1. StackTypes
  BY <1>0 DEF StackTypes
<1>2. BlocksOwned
  BY <1>0 DEF BlocksOwned, OwnStacks, has, Stacks!exists
<1>3. IsFiniteSet(UserTask)
  BY KernelAssumption DEF Stacks!StacksAssumption, Stacks!IsFiniteSet, IsFiniteSet
<1>4. free_tcb \in Queue(UserTask) /\ ToSet(free_tcb) = UserTask
  BY <1>3, AllInAQueue
<1>5. FreeTasks
  BY <1>0, <1>4 DEF FreeTasks, Stacks!exists
<1>6. RunsOnStack
  BY <1>0 DEF RunsOnStack
<1> QED BY <1>1, <1>2, <1>5, <1>6 DEF StacksIInv

(* A creation gives the task stacks that nobody had, or changes nothing.   *)
LEMMA StacksCreate ==
  ASSUME StacksTrusted, StacksIInv, NEW t \in Stacks!Task, ~Stacks!exists(t), Stacks!creates,
         NEW separate \in BOOLEAN, Stacks!_cre_tsk(t, separate), UNCHANGED <<ctxtsk, sp>>
  PROVE  StacksIInv'
<1>0. /\ NULL \notin Block /\ NULL \notin Stacks!Task
      /\ UserTask \subseteq Stacks!Task
  BY KernelAssumption DEF Stacks!StacksAssumption, Stacks!Task
<1>1. CASE UNCHANGED <<Stacks!taskvars, Stacks!memvars>>
  BY <1>1 DEF StacksIInv, StackTypes, BlocksOwned, OwnStacks, has, FreeTasks, RunsOnStack, Stacks!exists,
     Stacks!taskvars, Stacks!memvars
<1>2. CASE ~UNCHANGED <<Stacks!taskvars, Stacks!memvars>>
  <2>1. PICK s \in Stacks!sys_get_stack(used) :
          \E u \in IF separate THEN Stacks!sys_get_stack(used \cup {s}) ELSE {NULL} :
            /\ ~(s = NULL \/ (separate /\ u = NULL))
            /\ used' = used \cup ({s, u} \cap Block)
            /\ free_tcb' = IF t \in UserTask THEN Stacks!queue_delete(free_tcb, t) ELSE free_tcb
            /\ isstack' = [isstack EXCEPT ![t] = s]
            /\ istack' = [istack EXCEPT ![t] = u]
            /\ state' = [state EXCEPT ![t] = "DORMANT"]
            /\ UNCHANGED others
    BY <1>2 DEF Stacks!_cre_tsk
  <2>2. PICK u \in IF separate THEN Stacks!sys_get_stack(used \cup {s}) ELSE {NULL} :
            /\ ~(s = NULL \/ (separate /\ u = NULL))
            /\ used' = used \cup ({s, u} \cap Block)
            /\ free_tcb' = IF t \in UserTask THEN Stacks!queue_delete(free_tcb, t) ELSE free_tcb
            /\ isstack' = [isstack EXCEPT ![t] = s]
            /\ istack' = [istack EXCEPT ![t] = u]
            /\ state' = [state EXCEPT ![t] = "DORMANT"]
            /\ UNCHANGED others
    BY <2>1
  <2>3. s \in Block \ used
    BY <2>2 DEF StacksTrusted, Stacks!sys_get_stack, Stacks!sys_get_blk
  <2>4. u = NULL \/ u \in Block \ (used \cup {s})
    BY <2>2 DEF StacksTrusted, Stacks!sys_get_stack, Stacks!sys_get_blk
  <2>5. StackTypes'
    BY <2>2, <2>3, <2>4 DEF StacksIInv, StackTypes
  <2>6. ASSUME NEW v \in Stacks!Task
        PROVE  /\ Stacks!exists(v)' <=> v = t \/ Stacks!exists(v)
               /\ isstack'[v] = IF v = t THEN s ELSE isstack[v]
               /\ istack'[v] = IF v = t THEN u ELSE istack[v]
    BY <2>2 DEF StacksIInv, StackTypes, Stacks!exists
  <2>7. ASSUME NEW v \in Stacks!Task, Stacks!exists(v)'
        PROVE  OwnStacks(v)'
    <3>1. CASE v = t
      BY <1>0, <2>2, <2>3, <2>4, <2>6, <3>1 DEF StacksIInv, StackTypes, BlocksOwned, OwnStacks, has
    <3>2. CASE v # t
      BY <1>0, <2>2, <2>3, <2>4, <2>6, <2>7, <3>2 DEF StacksIInv, StackTypes, BlocksOwned, OwnStacks, has
    <3> QED BY <3>1, <3>2
  <2>8. ASSUME NEW b \in used' \ others'
        PROVE  \E v \in Stacks!Task : Stacks!exists(v)' /\ has(v, b)'
    <3>1. CASE b \in used
      <4>1. PICK v \in Stacks!Task : Stacks!exists(v) /\ has(v, b)
        BY <2>2, <3>1, <2>8 DEF StacksIInv, BlocksOwned
      <4> QED BY <2>6, <4>1 DEF has
    <3>2. CASE b \notin used
      BY <2>2, <2>6, <2>8, <3>2 DEF has
    <3> QED BY <3>1, <3>2
  <2>9. BlocksOwned'
    BY <2>7, <2>8 DEF BlocksOwned
  <2>10. FreeTasks'
    <3>1. CASE t \in UserTask
      <4>1. t \in ToSet(free_tcb)
        BY <3>1 DEF StacksIInv, FreeTasks
      <4>2. free_tcb' = queue_delete(free_tcb, t)
        BY <2>2, <3>1, QueuesOfParts
      <4>3. free_tcb' \in Queue(UserTask) /\ ToSet(free_tcb') = ToSet(free_tcb) \ {t}
        BY <4>1, <4>2, QueueDelete DEF StacksIInv, FreeTasks
      <4> QED BY <1>0, <2>6, <3>1, <4>3 DEF StacksIInv, FreeTasks
    <3>2. CASE t \notin UserTask
      BY <1>0, <2>2, <2>6, <3>2 DEF StacksIInv, FreeTasks
    <3> QED BY <3>1, <3>2
  <2>11. ctxtsk # NULL /\ ctxtsk \in Stacks!Task /\ ctxtsk # t /\ sp = isstack[ctxtsk] /\ Stacks!exists(ctxtsk)
    BY DEF StacksTrusted, Stacks!creates, Stacks!exists, StacksIInv, StackTypes, RunsOnStack
  <2>12. sp \in used
    BY <2>11 DEF StacksIInv, BlocksOwned, OwnStacks, has
  <2>13. RunsOnStack'
    BY <2>2, <2>3, <2>4, <2>6, <2>11, <2>12 DEF StacksIInv, StackTypes, RunsOnStack
  <2> QED BY <2>5, <2>9, <2>10, <2>13 DEF StacksIInv
<1> QED BY <1>1, <1>2

(* A deletion gives the stacks back.                                       *)
LEMMA StacksDelete ==
  ASSUME StacksIInv, NEW t \in Stacks!Task, Stacks!exists(t), Stacks!_del_tsk(t), sp' = sp,
         ctxtsk' = NULL \/ (ctxtsk' = ctxtsk /\ ctxtsk # t)
  PROVE  StacksIInv'
<1>0. /\ NULL \notin Block /\ NULL \notin Stacks!Task
      /\ UserTask \subseteq Stacks!Task
  BY KernelAssumption DEF Stacks!StacksAssumption, Stacks!Task
<1>1. /\ used' = used \ {isstack[t], istack[t]}
      /\ free_tcb' = IF t \in UserTask THEN Append(free_tcb, t) ELSE free_tcb
      /\ UNCHANGED <<isstack, istack, others>>
  BY DEF Stacks!_del_tsk
<1>2. ASSUME NEW v \in Stacks!Task
      PROVE  /\ state'[v] = IF v = t THEN "NONEXIST" ELSE state[v]
             /\ Stacks!exists(v)' <=> v # t /\ Stacks!exists(v)
  BY DEF Stacks!_del_tsk, StacksIInv, StackTypes, Stacks!exists
<1>3. OwnStacks(t)
  BY DEF StacksIInv, BlocksOwned
<1>4. StackTypes'
  BY <1>0, <1>1, <1>3 DEF StacksIInv, StackTypes, OwnStacks, has, Stacks!_del_tsk
<1>5. ASSUME NEW v \in Stacks!Task, Stacks!exists(v)'
      PROVE  OwnStacks(v)'
  BY <1>1, <1>2, <1>3, <1>5 DEF StacksIInv, StackTypes, BlocksOwned, OwnStacks, has
<1>6. ASSUME NEW b \in used' \ others'
      PROVE  \E v \in Stacks!Task : Stacks!exists(v)' /\ has(v, b)'
  <2>1. PICK v \in Stacks!Task : Stacks!exists(v) /\ has(v, b)
    BY <1>1, <1>6 DEF StacksIInv, BlocksOwned
  <2>2. v # t
    BY <1>1, <1>6, <2>1 DEF has
  <2> QED BY <1>1, <1>2, <2>1, <2>2 DEF has
<1>7. BlocksOwned'
  BY <1>5, <1>6 DEF BlocksOwned
<1>8. FreeTasks'
  <2>1. CASE t \in UserTask
    <3>1. t \in UserTask \ ToSet(free_tcb)
      BY <2>1 DEF StacksIInv, FreeTasks
    <3>2. free_tcb' \in Queue(UserTask) /\ ToSet(free_tcb') = ToSet(free_tcb) \cup {t}
      BY <1>1, <3>1, QueueAppend DEF StacksIInv, FreeTasks
    <3> QED BY <1>0, <1>2, <2>1, <3>2 DEF StacksIInv, FreeTasks
  <2>2. CASE t \notin UserTask
    BY <1>0, <1>1, <1>2, <2>2 DEF StacksIInv, FreeTasks
  <2> QED BY <2>1, <2>2
<1>9. RunsOnStack'
  BY <1>1, <1>2 DEF StacksIInv, StackTypes, RunsOnStack
<1> QED BY <1>4, <1>7, <1>8, <1>9 DEF StacksIInv

(* The other calls move no stack of a task.                                *)
LEMMA StacksStay ==
  ASSUME StacksIInv, UNCHANGED <<isstack, istack, free_tcb>>, StackTypes', RunsOnStack',
         \A t \in Stacks!Task : Stacks!exists(t)' <=> Stacks!exists(t),
         \A b \in Block : b \in used' \ others' <=> b \in used \ others
  PROVE  StacksIInv'
<1>1. ASSUME NEW t \in Stacks!Task, Stacks!exists(t) PROVE OwnStacks(t)'
  BY <1>1 DEF StacksIInv, StackTypes, BlocksOwned, OwnStacks, has
<1>2. BlocksOwned'
  BY <1>1 DEF StacksIInv, StackTypes, BlocksOwned, has
<1>3. FreeTasks'
  <2>1. UserTask \subseteq Stacks!Task
    BY DEF Stacks!Task
  <2> QED BY <2>1 DEF StacksIInv, FreeTasks
<1> QED BY <1>2, <1>3 DEF StacksIInv

(* Every step keeps the invariant.                                         *)
LEMMA StacksStepSound ==
  ASSUME StacksTrusted, StacksIInv, Stacks!Next
  PROVE  StacksIInv'
<1>0. /\ NULL \notin Block /\ NULL \notin Stacks!Task
      /\ UserTask \subseteq Stacks!Task /\ SystemTask \subseteq Stacks!Task
  BY KernelAssumption DEF Stacks!StacksAssumption, Stacks!Task
<1>1. StackTypes /\ RunsOnStack /\ BlocksOwned /\ FreeTasks
  BY DEF StacksIInv
<1>2. ASSUME NEW t \in Stacks!Task, Stacks!del_tsk(t) PROVE StacksIInv'
  BY <1>0, <1>1, <1>2, StacksDelete DEF Stacks!del_tsk, Stacks!exists, RunsOnStack
<1>3. ASSUME NEW t \in Stacks!Task, NEW from, NEW to, Stacks!set_state(t, from, to),
             from \in {"DORMANT", "WAIT", "READY"}, to \in {"WAIT", "READY"}
      PROVE  StacksIInv'
  <2>1. StackTypes' /\ (\A u \in Stacks!Task : Stacks!exists(u)' <=> Stacks!exists(u))
    BY <1>1, <1>3 DEF Stacks!set_state, StackTypes, Stacks!memvars, Stacks!exists
  <2>2. RunsOnStack'
    BY <1>1, <1>3, <2>1 DEF Stacks!set_state, StackTypes, Stacks!memvars, RunsOnStack
  <2> QED BY <1>3, <2>1, <2>2, StacksStay DEF Stacks!set_state, Stacks!memvars
<1>4. ASSUME NEW t \in Stacks!Task, Stacks!start_or_wake(t) PROVE StacksIInv'
  BY <1>3, <1>4 DEF Stacks!start_or_wake
<1>5. ASSUME Stacks!wait PROVE StacksIInv'
  BY <1>1, <1>3, <1>5 DEF Stacks!wait, StackTypes
<1>6. ASSUME NEW t \in Stacks!Task, NEW separate \in BOOLEAN, Stacks!cre_tsk(t, separate)
      PROVE  StacksIInv'
  BY <1>6, StacksCreate DEF Stacks!cre_tsk
<1>7. ASSUME NEW separate \in BOOLEAN, Stacks!vcre_tsk(separate) PROVE StacksIInv'
  <2>1. free_tcb # <<>> /\ free_tcb \in Seq(UserTask)
    BY <1>1, <1>7 DEF Stacks!vcre_tsk, FreeTasks, Queue
  <2>2. Head(free_tcb) \in ToSet(free_tcb)
    BY <2>1 DEF ToSet
  <2>3. Head(free_tcb) \in Stacks!Task /\ ~Stacks!exists(Head(free_tcb))
    BY <1>0, <1>1, <2>2 DEF FreeTasks
  <2> QED BY <1>7, <2>3, StacksCreate DEF Stacks!vcre_tsk
<1>8. ASSUME Stacks!ext_tsk PROVE StacksIInv'
  <2>1. StackTypes' /\ (\A u \in Stacks!Task : Stacks!exists(u)' <=> Stacks!exists(u))
    BY <1>1, <1>8 DEF Stacks!ext_tsk, StackTypes, RunsOnStack, Stacks!memvars, Stacks!exists
  <2>2. RunsOnStack'
    BY <1>1, <1>8, <2>1 DEF Stacks!ext_tsk, StackTypes, Stacks!memvars, RunsOnStack
  <2> QED BY <1>8, <2>1, <2>2, StacksStay DEF Stacks!ext_tsk, Stacks!memvars
<1>9. ASSUME Stacks!exd_tsk PROVE StacksIInv'
  BY <1>1, <1>9, StacksDelete DEF Stacks!exd_tsk, Stacks!exists, RunsOnStack, StackTypes
<1>10. ASSUME Stacks!dispatch PROVE StacksIInv'
  <2>1. UNCHANGED <<Stacks!taskvars, Stacks!memvars>>
    BY <1>10 DEF Stacks!dispatch
  <2>2. \A u \in Stacks!Task : Stacks!exists(u)' <=> Stacks!exists(u)
    BY <2>1 DEF Stacks!taskvars, Stacks!exists
  <2>3. StackTypes' /\ RunsOnStack'
    <3>1. ASSUME NEW t \in Stacks!Task, state[t] = "READY", ctxtsk' = t, sp' = isstack[t]
          PROVE  StackTypes' /\ RunsOnStack'
      <4>1. Stacks!exists(t) /\ OwnStacks(t)
        BY <1>1, <3>1 DEF Stacks!exists, BlocksOwned
      <4>2. sp' \in Block /\ sp' \notin others
        BY <3>1, <4>1 DEF OwnStacks, has
      <4>3. ASSUME NEW u \in Stacks!Task, Stacks!exists(u), istack[u] # NULL PROVE sp' # istack[u]
        BY <3>1, <4>1, <4>2, <4>3 DEF OwnStacks, has
      <4> QED BY <1>0, <1>1, <2>1, <2>2, <3>1, <4>2, <4>3 DEF StackTypes, RunsOnStack, Stacks!taskvars, Stacks!memvars
    <3>2. ASSUME ctxtsk' = NULL, sp' = sp PROVE StackTypes' /\ RunsOnStack'
      BY <1>1, <2>1, <2>2, <3>2 DEF StackTypes, RunsOnStack, Stacks!taskvars, Stacks!memvars
    <3> QED BY <1>10, <3>1, <3>2 DEF Stacks!dispatch
  <2> QED BY <2>1, <2>2, <2>3, StacksStay DEF Stacks!taskvars, Stacks!memvars
<1>11. ASSUME Stacks!create_other PROVE StacksIInv'
  <2>1. PICK b \in Block \ used : used' = used \cup {b} /\ others' = others \cup {b}
    BY <1>11, <1>0 DEF Stacks!create_other, Stacks!sys_get_blk
  <2>2. UNCHANGED <<Stacks!taskvars, ctxtsk, sp>>
    BY <1>11 DEF Stacks!create_other
  <2>3. \A u \in Stacks!Task : Stacks!exists(u)' <=> Stacks!exists(u)
    BY <2>2 DEF Stacks!taskvars, Stacks!exists
  <2>4. StackTypes'
    BY <1>1, <2>1, <2>2 DEF StackTypes, Stacks!taskvars
  <2>5. ctxtsk # NULL /\ ctxtsk \in Stacks!Task /\ Stacks!exists(ctxtsk) /\ sp = isstack[ctxtsk]
    BY <1>1, <1>11 DEF Stacks!create_other, Stacks!creates, StacksTrusted, StackTypes, RunsOnStack, Stacks!exists
  <2>6. sp \in used
    BY <1>1, <2>5 DEF BlocksOwned, OwnStacks, has
  <2>7. RunsOnStack'
    BY <1>1, <2>1, <2>2, <2>3, <2>6 DEF RunsOnStack, Stacks!taskvars
  <2> QED BY <1>1, <2>1, <2>2, <2>3, <2>4, <2>7, StacksStay DEF Stacks!taskvars, StackTypes
<1>12. ASSUME NEW b \in others, Stacks!delete_other(b) PROVE StacksIInv'
  <2>1. \A u \in Stacks!Task : Stacks!exists(u)' <=> Stacks!exists(u)
    BY <1>12 DEF Stacks!delete_other, Stacks!taskvars, Stacks!exists
  <2>2. StackTypes' /\ RunsOnStack'
    BY <1>1, <1>12, <2>1 DEF Stacks!delete_other, StackTypes, RunsOnStack, Stacks!taskvars
  <2> QED BY <1>1, <1>12, <2>1, <2>2, StacksStay DEF Stacks!delete_other, Stacks!taskvars, StackTypes
<1> QED BY <1>0, <1>2, <1>4, <1>5, <1>6, <1>7, <1>8, <1>9, <1>10, <1>11, <1>12 DEF Stacks!Next

-----------------------------------------------------------------------------
(* Memory is neither lost nor given out twice, for any number of tasks, of *)
(* blocks and of other objects.                                            *)
THEOREM MemoryIsSound == StacksTrusted => (KernelSpec => []MemorySound)
<1> SUFFICES ASSUME StacksTrusted PROVE KernelSpec => []MemorySound
  OBVIOUS
<1>1. KernelInit => StacksInv
  BY StacksStart DEF KernelInit, StacksInit, StacksInv
<1>2. StacksInv /\ [KernelNext]_kernelvars => StacksInv'
  <2> SUFFICES ASSUME StacksInv, [KernelNext]_kernelvars PROVE StacksInv'
    OBVIOUS
  <2>1. part' = part
    BY DEF KernelNext, kernelvars
  <2>2. ASSUME part = "stacks" PROVE StacksIInv'
    <3>1. StacksIInv
      BY <2>2 DEF StacksInv
    <3>2. CASE UNCHANGED stackvars
      BY <3>1, <3>2 DEF stackvars, StacksIInv, StackTypes, BlocksOwned, OwnStacks, has, FreeTasks,
         RunsOnStack, Stacks!exists
    <3>3. CASE Stacks!Next
      BY <3>1, <3>3, StacksStepSound
    <3> QED BY <2>2, <3>2, <3>3 DEF KernelNext, StacksStep, ServicesStep,
            ClockStep, EventsStep, kernelvars
  <2> QED BY <2>1, <2>2 DEF StacksInv
<1>3. StacksInv => MemorySound
  BY StacksAreSound DEF StacksInv, MemorySound
<1> QED BY <1>1, <1>2, <1>3, PTL DEF KernelSpec

-----------------------------------------------------------------------------
(***************************************************************************)
(* 4. The timer queue.                                                     *)
(***************************************************************************)
(* The entries of q are in the order of their times.                       *)
InTime(q, tm) == \A i, j \in 1 .. Len(q) : i <= j => tm[q[i]] <= tm[q[j]]

(* Where enqueue_tmeb puts an event with time at.                          *)
Later(q, tm, at) == {i \in DOMAIN q : at <= tm[q[i]]}

PlaceFor(q, tm, at) ==
  IF Later(q, tm, at) = {} THEN Len(q) + 1 ELSE Min(Later(q, tm, at))

(* The queues of Timer are those of Queues.                                *)
LEMMA QueuesOfTimer ==
  ASSUME NEW q, NEW e, NEW at
  PROVE  /\ Events!RemoveFirst(q, e) = queue_delete(q, e)
         /\ Events!timer_delete(e) = queue_delete(timer_queue, e)
         /\ Events!enqueue_tmeb(q, e, at) = queue_insert(q, PlaceFor(q, time, at), e)
         /\ Events!ToSet(q) = ToSet(q) /\ Events!IsInjective(q) = IsInjective(q)
<1>1. \A r : Events!RemoveFirst(r, e) = queue_delete(r, e)
  BY DEF Events!RemoveFirst, Events!RemoveAt, Events!SelectInSeq, Events!Min,
     queue_delete, RemoveFirst, RemoveAt, SelectInSeq, Min
<1>2. Events!timer_delete(e) = queue_delete(timer_queue, e)
  BY <1>1 DEF Events!timer_delete
<1>3. Events!ToSet(q) = ToSet(q) /\ Events!IsInjective(q) = IsInjective(q)
  BY DEF Events!ToSet, Events!IsInjective, ToSet, IsInjective
<1>4. Events!enqueue_tmeb(q, e, at) = queue_insert(q, PlaceFor(q, time, at), e)
  BY DEF Events!enqueue_tmeb, Events!InsertAt, Events!Min, queue_insert, InsertAt, PlaceFor,
     Later, Min
<1> QED BY <1>1, <1>2, <1>3, <1>4

(* The entries of a queue in which one was inserted.                       *)
LEMMA InsertEntries ==
  ASSUME NEW S, NEW q \in Queue(S), NEW t \in S \ ToSet(q), NEW i \in 1 .. Len(q) + 1
  PROVE  /\ Len(queue_insert(q, i, t)) = Len(q) + 1
         /\ \A j \in 1 .. Len(q) + 1 : queue_insert(q, i, t)[j] =
              IF j < i THEN q[j] ELSE IF j = i THEN t ELSE q[j - 1]
<1>1. q \in Seq(S) /\ t \in S /\ queue_insert(q, i, t) = InsertAt(q, i, t)
  BY QueueEntries DEF queue_insert
<1> QED BY <1>1, InsertAtEntries

(* An event that is not registered goes between those that are due before  *)
(* it and the others.                                                      *)
LEMMA EnqueueInTime ==
  ASSUME NEW E, NEW q \in Queue(E), NEW tm \in [E -> Int], InTime(q, tm),
         NEW e \in E \ ToSet(q), NEW at \in Int
  PROVE  LET r == queue_insert(q, PlaceFor(q, tm, at), e) IN
         r \in Queue(E) /\ ToSet(r) = ToSet(q) \cup {e} /\ InTime(r, [tm EXCEPT ![e] = at])
<1> DEFINE n == PlaceFor(q, tm, at)
           r == queue_insert(q, n, e)
           new == [tm EXCEPT ![e] = at]
<1>q. /\ q \in Seq(E) /\ Len(q) \in Nat /\ DOMAIN q = 1 .. Len(q)
      /\ ToSet(q) = {q[j] : j \in 1 .. Len(q)}
  BY QueueEntries
<1>1. /\ n \in 1 .. Len(q) + 1
      /\ \A i \in 1 .. Len(q) : IF i < n THEN tm[q[i]] < at ELSE at <= tm[q[i]]
  <2> DEFINE L == Later(q, tm, at)
  <2>1. L = {i \in 1 .. Len(q) : at <= tm[q[i]]}
    BY <1>q DEF Later
  <2>e. \A i \in 1 .. Len(q) : tm[q[i]] \in Int
    BY <1>q
  <2>2. CASE L = {}
    <3>1. n = Len(q) + 1
      BY <2>2 DEF PlaceFor
    <3>2. \A i \in 1 .. Len(q) : tm[q[i]] < at
      BY <2>1, <2>2, <2>e
    <3> QED BY <1>q, <3>1, <3>2
  <2>3. CASE L # {}
    <3>1. n = Min(L)
      BY <2>3 DEF PlaceFor
    <3>2. L \in SUBSET Nat
      BY <2>1, <1>q
    <3> HIDE DEF n, L
    <3>3. n \in L /\ \A i \in L : n <= i
      BY <2>3, <3>1, <3>2, MinOfNaturals
    <3>4. n \in 1 .. Len(q) /\ at <= tm[q[n]]
      BY <2>1, <3>3
    <3>5. ASSUME NEW i \in 1 .. Len(q), i < n PROVE tm[q[i]] < at
      <4>1. i \notin L
        BY <3>3, <3>4, <3>5, <1>q
      <4> QED BY <2>1, <2>e, <4>1
    <3>6. ASSUME NEW i \in 1 .. Len(q), ~(i < n) PROVE at <= tm[q[i]]
      <4>1. tm[q[n]] <= tm[q[i]]
        BY <1>q, <3>4, <3>6 DEF InTime
      <4> QED BY <2>e, <3>4, <4>1
    <3> QED BY <1>q, <3>4, <3>5, <3>6
  <2> QED BY <2>2, <2>3
<1> HIDE DEF n
<1>2. r \in Queue(E) /\ ToSet(r) = ToSet(q) \cup {e}
  BY <1>1, QueueInsert
<1>3. /\ Len(r) = Len(q) + 1
      /\ \A j \in 1 .. Len(q) + 1 : r[j] = IF j < n THEN q[j] ELSE IF j = n THEN e ELSE q[j - 1]
  BY <1>1, InsertEntries
<1> HIDE DEF r
<1>4. new[e] = at /\ \A i \in 1 .. Len(q) : new[q[i]] = tm[q[i]] /\ tm[q[i]] \in Int
  BY <1>q
<1> HIDE DEF new
<1>5. ASSUME NEW i \in 1 .. Len(q) + 1, NEW j \in 1 .. Len(q) + 1, i <= j
      PROVE  new[r[i]] <= new[r[j]]
  <2>1. CASE j < n
    <3>1. i \in 1 .. Len(q) /\ j \in 1 .. Len(q) /\ r[i] = q[i] /\ r[j] = q[j]
      BY <1>q, <1>1, <1>3, <1>5, <2>1
    <3> QED BY <1>4, <1>5, <3>1 DEF InTime
  <2>2. CASE i < n /\ j = n
    <3>1. i \in 1 .. Len(q) /\ r[i] = q[i] /\ r[j] = e
      BY <1>q, <1>1, <1>3, <2>2
    <3> QED BY <1>1, <1>4, <2>2, <3>1
  <2>3. CASE i < n /\ n < j
    <3>1. i \in 1 .. Len(q) /\ j - 1 \in 1 .. Len(q) /\ i <= j - 1 /\ r[i] = q[i] /\ r[j] = q[j - 1]
      BY <1>q, <1>1, <1>3, <2>3
    <3> QED BY <1>4, <3>1 DEF InTime
  <2>4. CASE i = n /\ n < j
    <3>1. j - 1 \in 1 .. Len(q) /\ ~(j - 1 < n) /\ r[i] = e /\ r[j] = q[j - 1]
      BY <1>q, <1>1, <1>3, <2>4
    <3> QED BY <1>1, <1>4, <3>1
  <2>5. CASE i = n /\ j = n
    BY <1>3, <1>4, <2>5
  <2>6. CASE n < i
    <3>1. i - 1 \in 1 .. Len(q) /\ j - 1 \in 1 .. Len(q) /\ i - 1 <= j - 1
          /\ r[i] = q[i - 1] /\ r[j] = q[j - 1]
      BY <1>q, <1>1, <1>3, <1>5, <2>6
    <3> QED BY <1>4, <3>1 DEF InTime
  <2> QED BY <1>q, <1>1, <1>5, <2>1, <2>2, <2>3, <2>4, <2>5, <2>6
<1>6. InTime(r, new)
  BY <1>3, <1>5 DEF InTime
<1> QED BY <1>2, <1>6 DEF n, r, new

(* The others stay in order when one is deleted, wherever it was.          *)
LEMMA DeleteInTime ==
  ASSUME NEW E, NEW q \in Queue(E), NEW tm \in [E -> Int], InTime(q, tm), NEW e
  PROVE  LET r == queue_delete(q, e) IN
         r \in Queue(E) /\ ToSet(r) = ToSet(q) \ {e} /\ InTime(r, tm)
<1>q. /\ q \in Seq(E) /\ Len(q) \in Nat /\ ToSet(q) = {q[j] : j \in 1 .. Len(q)}
  BY QueueEntries
<1>1. CASE e \notin ToSet(q)
  <2>1. queue_delete(q, e) = q
    BY <1>q, <1>1 DEF queue_delete, RemoveFirst
  <2> QED BY <1>1, <2>1
<1>2. CASE e \in ToSet(q)
  <2>1. PICK n \in 1 .. Len(q) : q[n] = e /\ queue_delete(q, e) = RemoveAt(q, n)
    BY <1>2, QueueDeleteAt
  <2> DEFINE r == queue_delete(q, e)
  <2>2. /\ Len(r) = Len(q) - 1
        /\ \A j \in 1 .. Len(q) - 1 : r[j] = IF j < n THEN q[j] ELSE q[j + 1]
    BY <1>q, <2>1, RemoveAtEntries
  <2>3. r \in Queue(E) /\ ToSet(r) = ToSet(q) \ {e}
    BY <1>2, QueueDelete
  <2> HIDE DEF r
  <2>4. ASSUME NEW i \in 1 .. Len(q) - 1, NEW j \in 1 .. Len(q) - 1, i <= j
        PROVE  tm[r[i]] <= tm[r[j]]
    <3>1. PICK k \in 1 .. Len(q), m \in 1 .. Len(q) : k <= m /\ r[i] = q[k] /\ r[j] = q[m]
      <4>1. CASE j < n
        <5>1. i \in 1 .. Len(q) /\ j \in 1 .. Len(q) /\ i < n
          BY <1>q, <2>4, <4>1
        <5> QED BY <2>2, <2>4, <4>1, <5>1
      <4>2. CASE i < n /\ ~(j < n)
        <5>1. i \in 1 .. Len(q) /\ j + 1 \in 1 .. Len(q) /\ i <= j + 1
          BY <1>q, <2>4
        <5> QED BY <2>2, <4>2, <5>1
      <4>3. CASE ~(i < n)
        <5>1. i + 1 \in 1 .. Len(q) /\ j + 1 \in 1 .. Len(q) /\ i + 1 <= j + 1 /\ ~(j < n)
          BY <1>q, <2>4, <4>3
        <5> QED BY <2>2, <4>3, <5>1
      <4> QED BY <2>4, <4>1, <4>2, <4>3
    <3> QED BY <3>1 DEF InTime
  <2>5. InTime(r, tm)
    BY <2>2, <2>4 DEF InTime
  <2> QED BY <2>3, <2>5 DEF r
<1> QED BY <1>1, <1>2

(* The head of the queue is due first.                                     *)
LEMMA HeadInTime ==
  ASSUME NEW E, NEW q \in Queue(E), NEW tm \in [E -> Int], InTime(q, tm), q # << >>
  PROVE  /\ Head(q) \in ToSet(q) /\ \A e \in ToSet(q) : tm[Head(q)] <= tm[e]
         /\ Tail(q) \in Queue(E) /\ ToSet(Tail(q)) = ToSet(q) \ {Head(q)} /\ InTime(Tail(q), tm)
<1>q. /\ q \in Seq(E) /\ Len(q) \in Nat \ {0} /\ ToSet(q) = {q[j] : j \in 1 .. Len(q)}
      /\ Head(q) = q[1]
  BY QueueEntries
<1>1. /\ Tail(q) \in Queue(E) /\ Head(q) \in ToSet(q) /\ ToSet(Tail(q)) = ToSet(q) \ {Head(q)}
      /\ Len(Tail(q)) = Len(q) - 1
  BY QueueTail
<1>2. \A i \in 1 .. Len(q) - 1 : Tail(q)[i] = q[i + 1]
  BY <1>q
<1>3. ASSUME NEW e \in ToSet(q) PROVE tm[Head(q)] <= tm[e]
  <2>1. PICK j \in 1 .. Len(q) : q[j] = e
    BY <1>q
  <2>2. 1 \in 1 .. Len(q) /\ 1 <= j
    BY <1>q
  <2> QED BY <1>q, <2>1, <2>2 DEF InTime
<1>4. ASSUME NEW i \in 1 .. Len(q) - 1, NEW j \in 1 .. Len(q) - 1, i <= j
      PROVE  tm[Tail(q)[i]] <= tm[Tail(q)[j]]
  <2>1. i + 1 \in 1 .. Len(q) /\ j + 1 \in 1 .. Len(q) /\ i + 1 <= j + 1
    BY <1>q, <1>4
  <2> QED BY <1>2, <2>1 DEF InTime
<1>5. InTime(Tail(q), tm)
  BY <1>1, <1>4 DEF InTime
<1> QED BY <1>1, <1>3, <1>5

(* The blocks that are in use leave the free list, and come back to it.    *)
LEMMA FreeLists ==
  ASSUME NEW S, NEW q \in Queue(S), NEW D \in SUBSET S, ToSet(q) = S \ D, NEW c \in S
  PROVE  /\ LET r == queue_delete(IF c \in D THEN Append(q, c) ELSE q, c) IN
            r \in Queue(S) /\ ToSet(r) = S \ (D \cup {c})
         /\ c \in D => Append(q, c) \in Queue(S) /\ ToSet(Append(q, c)) = S \ (D \ {c})
<1>1. c \in D => Append(q, c) \in Queue(S) /\ ToSet(Append(q, c)) = S \ (D \ {c})
  <2>1. ASSUME c \in D PROVE Append(q, c) \in Queue(S) /\ ToSet(Append(q, c)) = ToSet(q) \cup {c}
    BY <2>1, QueueAppend
  <2> QED BY <2>1
<1> DEFINE f == IF c \in D THEN Append(q, c) ELSE q
<1>2. f \in Queue(S) /\ c \in ToSet(f) /\ ToSet(f) \ {c} = S \ (D \cup {c})
  BY <1>1
<1> HIDE DEF f
<1>3. queue_delete(f, c) \in Queue(S) /\ ToSet(queue_delete(f, c)) = ToSet(f) \ {c}
  BY <1>2, QueueDelete
<1> QED BY <1>1, <1>2, <1>3 DEF f

-----------------------------------------------------------------------------
(* The queue is sorted, and a handler is defined while its event is in it. *)
Ev == Timed \cup Cyc \cup Alm

Times == 0 .. MAX_TIME + MAX_REL

TimesInv ==
  /\ current_time \in 0 .. MAX_TIME
  /\ timer_queue \in Queue(Ev) /\ time \in [Ev -> Times] /\ InTime(timer_queue, time)
  /\ running \in {"none", "loop"} \cup Cyc \cup Alm

CyclicInv ==
  /\ cychdr \in SUBSET Cyc /\ cycact \in SUBSET Cyc /\ cyctim \in [Cyc -> 0 .. MAX_REL]
  /\ \A c \in cychdr : cyctim[c] > 0
  /\ free_cyccb \in Queue(Cyc) /\ ToSet(free_cyccb) = Cyc \ cychdr

AlarmInv ==
  /\ almhdr \in SUBSET Alm
  /\ free_almcb \in Queue(Alm) /\ ToSet(free_almcb) = Alm \ almhdr

Defined == \A e \in Cyc \cup Alm : e \in ToSet(timer_queue) <=> e \in cychdr \cup almhdr

TimerIInv == TimesInv /\ CyclicInv /\ AlarmInv /\ Defined

(* What registering an event does to the queue.                            *)
Registers(e, at) ==
  /\ timer_queue' \in Queue(Ev) /\ ToSet(timer_queue') = ToSet(timer_queue) \cup {e}
  /\ time' = [time EXCEPT ![e] = at] /\ time' \in [Ev -> Times]
  /\ InTime(timer_queue', time')

(* What ending its registration does.                                      *)
Cancels(e) ==
  /\ timer_queue' \in Queue(Ev) /\ ToSet(timer_queue') = ToSet(timer_queue) \ {e}
  /\ time' = time /\ InTime(timer_queue', time')

(* What the sets of tasks and handlers and the bounds are known to be.     *)
LEMMA TimerConstants ==
  /\ MAX_TIME \in Nat /\ MAX_REL \in Nat \ {0} /\ TIMER_PERIOD \in Nat \ {0}
  /\ Timed \cap Cyc = {} /\ Timed \cap Alm = {} /\ Cyc \cap Alm = {}
  /\ "none" \notin Cyc \cup Alm /\ "loop" \notin Cyc \cup Alm
  /\ IsFiniteSet(Cyc) /\ IsFiniteSet(Alm)
  /\ Events!Event = Ev
<1>1. \A S : Events!IsFiniteSet(S) <=> IsFiniteSet(S)
  BY DEF Events!IsFiniteSet, IsFiniteSet
<1> QED BY <1>1, KernelAssumption DEF Events!TimerAssumption, Events!Event, Ev

(* timer_insert_abs registers an event, in a queue it is no longer in.     *)
LEMMA EventRegisters ==
  ASSUME TimesInv, NEW e \in Ev, NEW at \in Times, NEW q \in Queue(Ev), InTime(q, time),
         ToSet(q) = ToSet(timer_queue) \ {e}, Events!timer_insert_abs(q, e, at)
  PROVE  Registers(e, at)
<1>1. /\ time' = [time EXCEPT ![e] = at]
      /\ timer_queue' = queue_insert(q, PlaceFor(q, time, at), e)
  BY QueuesOfTimer DEF Events!timer_insert_abs
<1>2. time \in [Ev -> Int] /\ at \in Int /\ e \in Ev \ ToSet(q)
  BY TimerConstants DEF TimesInv, Times
<1>3. /\ timer_queue' \in Queue(Ev) /\ ToSet(timer_queue') = ToSet(q) \cup {e}
      /\ InTime(timer_queue', [time EXCEPT ![e] = at])
  <2> DEFINE r == queue_insert(q, PlaceFor(q, time, at), e)
  <2>1. r \in Queue(Ev) /\ ToSet(r) = ToSet(q) \cup {e} /\ InTime(r, [time EXCEPT ![e] = at])
    BY <1>2, EnqueueInTime
  <2> HIDE DEF r
  <2>2. timer_queue' = r
    BY <1>1 DEF r
  <2> QED BY <2>1, <2>2
<1>4. time' \in [Ev -> Times]
  BY <1>1 DEF TimesInv
<1> QED BY <1>1, <1>3, <1>4 DEF Registers

(* timer_delete ends the registration of an event, if there is one.        *)
LEMMA EventCancels ==
  ASSUME TimesInv, NEW e
  PROVE  /\ Events!timer_delete(e) \in Queue(Ev) /\ InTime(Events!timer_delete(e), time)
         /\ ToSet(Events!timer_delete(e)) = ToSet(timer_queue) \ {e}
         /\ timer_queue' = Events!timer_delete(e) /\ UNCHANGED time => Cancels(e)
<1>1. time \in [Ev -> Int]
  BY TimerConstants DEF TimesInv, Times
<1>2. Events!timer_delete(e) = queue_delete(timer_queue, e)
  BY QueuesOfTimer
<1>3. /\ queue_delete(timer_queue, e) \in Queue(Ev)
      /\ ToSet(queue_delete(timer_queue, e)) = ToSet(timer_queue) \ {e}
      /\ InTime(queue_delete(timer_queue, e), time)
  BY <1>1, DeleteInTime DEF TimesInv
<1> QED BY <1>2, <1>3 DEF Cancels

(* To register an event for a time to come is a step of Deadlines.         *)
LEMMA DeadlineArms ==
  ASSUME NEW e \in Ev, NEW at \in Times, Registers(e, at), at > current_time,
         UNCHANGED <<current_time, running>>
  PROVE  Events!DeadlinesStep
<1>1. Events!Abstract!Arm(e, at)
  BY QueuesOfTimer DEF Events!Abstract!Arm, Registers
<1>2. e \in Events!Event /\ at \in 0 .. MAX_TIME + MAX_REL
  BY TimerConstants DEF Times
<1> QED BY <1>1, <1>2 DEF Events!DeadlinesStep, Events!Abstract!Next

(* So is to end the registration of one.                                   *)
LEMMA DeadlineDisarms ==
  ASSUME NEW e \in Ev, Cancels(e), UNCHANGED <<current_time, running>>
  PROVE  Events!DeadlinesStep
<1>1. Events!Abstract!Disarm(e)
  BY QueuesOfTimer DEF Events!Abstract!Disarm, Cancels
<1> QED BY <1>1, TimerConstants DEF Events!DeadlinesStep, Events!Abstract!Next

-----------------------------------------------------------------------------
(* A time from now is one that the queue can hold.                         *)
LEMMA FromNow ==
  ASSUME TimesInv, NEW tim \in 1 .. MAX_REL
  PROVE  /\ current_time + tim \in Times /\ current_time + tim > current_time
         /\ current_time \in Int
BY TimerConstants DEF TimesInv, Times

(* The first definition of a cyclic handler, or another one.               *)
LEMMA CyclicDefined ==
  ASSUME TimerIInv, NEW c \in Cyc, NEW on \in BOOLEAN, NEW tim \in 1 .. MAX_REL,
         NEW q \in Queue(Ev), InTime(q, time), ToSet(q) = ToSet(timer_queue) \ {c},
         Events!_def_cyc(q, IF c \in cychdr THEN Append(free_cyccb, c) ELSE free_cyccb, c, on, tim),
         UNCHANGED <<current_time, running, almhdr, free_almcb>>
  PROVE  TimerIInv' /\ Events!DeadlinesStep
<1>0. TimesInv /\ CyclicInv /\ AlarmInv /\ Defined
  BY DEF TimerIInv
<1>1. /\ current_time + tim \in Times /\ current_time + tim > current_time
  BY <1>0, FromNow
<1>2. Events!timer_insert_abs(q, c, current_time + tim)
  BY DEF Events!_def_cyc, Events!timer_insert_rel
<1>3. c \in Ev
  BY DEF Ev
<1>4. Registers(c, current_time + tim)
  BY <1>0, <1>1, <1>2, <1>3, EventRegisters
<1>5. Events!DeadlinesStep
  BY <1>1, <1>3, <1>4, DeadlineArms
<1>6. TimesInv'
  BY <1>0, <1>4 DEF TimesInv, Registers
<1>7. CyclicInv'
  <2>1. /\ cychdr' = cychdr \cup {c} /\ cycact' \in SUBSET Cyc
        /\ cyctim' = [cyctim EXCEPT ![c] = tim]
        /\ free_cyccb' = queue_delete(IF c \in cychdr THEN Append(free_cyccb, c) ELSE free_cyccb, c)
    BY <1>0, QueuesOfTimer DEF Events!_def_cyc, CyclicInv
  <2>2. free_cyccb' \in Queue(Cyc) /\ ToSet(free_cyccb') = Cyc \ cychdr'
    <3>1. cychdr \in SUBSET Cyc /\ free_cyccb \in Queue(Cyc) /\ ToSet(free_cyccb) = Cyc \ cychdr
      BY <1>0 DEF CyclicInv
    <3> QED BY <2>1, <3>1, FreeLists
  <2>3. cyctim' \in [Cyc -> 0 .. MAX_REL] /\ \A d \in cychdr' : cyctim'[d] > 0
    BY <1>0, <2>1, TimerConstants DEF CyclicInv
  <2> QED BY <1>0, <2>1, <2>2, <2>3 DEF CyclicInv
<1>8. AlarmInv'
  BY <1>0 DEF AlarmInv
<1>9. Defined'
  BY <1>0, <1>4 DEF Defined, Registers, Events!_def_cyc
<1> QED BY <1>5, <1>6, <1>7, <1>8, <1>9 DEF TimerIInv

(* The first definition of an alarm handler, or another one.               *)
LEMMA AlarmDefined ==
  ASSUME TimerIInv, NEW a \in Alm, NEW at \in Events!AlarmTime,
         NEW q \in Queue(Ev), InTime(q, time), ToSet(q) = ToSet(timer_queue) \ {a},
         Events!_def_alm(q, IF a \in almhdr THEN Append(free_almcb, a) ELSE free_almcb, a, at),
         UNCHANGED <<current_time, running, Events!cycvars>>
  PROVE  TimerIInv' /\ Events!DeadlinesStep
<1>0. TimesInv /\ CyclicInv /\ AlarmInv /\ Defined
  BY DEF TimerIInv
<1>1. at \in Times /\ at > current_time
  <2>1. CASE \E tim \in 1 .. MAX_REL : at = current_time + tim
    BY <1>0, <2>1, FromNow
  <2>2. CASE at \in 1 .. MAX_TIME /\ at > current_time
    BY <2>2, TimerConstants DEF Times
  <2> QED BY <2>1, <2>2 DEF Events!AlarmTime
<1>3. a \in Ev
  BY DEF Ev
<1>4. Registers(a, at)
  BY <1>0, <1>1, <1>3, EventRegisters DEF Events!_def_alm
<1>5. Events!DeadlinesStep
  BY <1>1, <1>3, <1>4, DeadlineArms
<1>6. TimesInv'
  BY <1>0, <1>4 DEF TimesInv, Registers
<1>7. AlarmInv'
  <2>1. /\ almhdr' = almhdr \cup {a}
        /\ free_almcb' = queue_delete(IF a \in almhdr THEN Append(free_almcb, a) ELSE free_almcb, a)
    BY QueuesOfTimer DEF Events!_def_alm
  <2>2. almhdr \in SUBSET Alm /\ free_almcb \in Queue(Alm) /\ ToSet(free_almcb) = Alm \ almhdr
    BY <1>0 DEF AlarmInv
  <2>3. free_almcb' \in Queue(Alm) /\ ToSet(free_almcb') = Alm \ almhdr'
    BY <2>1, <2>2, FreeLists
  <2> QED BY <1>0, <2>1, <2>3 DEF AlarmInv
<1>8. CyclicInv' /\ UNCHANGED cychdr
  BY <1>0 DEF CyclicInv, Events!cycvars
<1>9. Defined'
  BY <1>0, <1>4, <1>8 DEF Defined, Registers, Events!_def_alm
<1> QED BY <1>5, <1>6, <1>7, <1>8, <1>9 DEF TimerIInv

(* A time-out is registered or cancelled.                                  *)
LEMMA TimeoutSteps ==
  ASSUME TimerIInv, NEW t \in Timed,
         \/ Events!cancel_timeout(t)
         \/ \E tmout \in 1 .. MAX_REL : Events!timer_insert(t, tmout)
  PROVE  TimerIInv' /\ Events!DeadlinesStep
<1>0. TimesInv /\ CyclicInv /\ AlarmInv /\ Defined /\ t \in Ev /\ t \notin Cyc \cup Alm
  BY TimerConstants DEF TimerIInv, Ev
<1>1. UNCHANGED <<current_time, Events!cycvars, Events!almvars, running>>
  BY DEF Events!cancel_timeout, Events!timer_insert
<1>2. CyclicInv' /\ AlarmInv' /\ UNCHANGED <<cychdr, almhdr>>
  BY <1>0, <1>1 DEF CyclicInv, AlarmInv, Events!cycvars, Events!almvars
<1>3. CASE Events!cancel_timeout(t)
  <2>1. Cancels(t)
    BY <1>0, <1>3, EventCancels DEF Events!cancel_timeout
  <2>2. TimesInv' /\ Defined'
    BY <1>0, <1>1, <1>2, <2>1 DEF TimesInv, Defined, Cancels
  <2>3. Events!DeadlinesStep
    BY <1>0, <1>1, <2>1, DeadlineDisarms
  <2> QED BY <1>2, <2>2, <2>3 DEF TimerIInv
<1>4. ASSUME NEW tmout \in 1 .. MAX_REL, Events!timer_insert(t, tmout)
      PROVE  TimerIInv' /\ Events!DeadlinesStep
  <2>1. current_time + tmout \in Times /\ current_time + tmout > current_time
    BY <1>0, FromNow
  <2>2. /\ timer_queue \in Queue(Ev) /\ InTime(timer_queue, time)
        /\ ToSet(timer_queue) = ToSet(timer_queue) \ {t}
        /\ Events!timer_insert_abs(timer_queue, t, current_time + tmout)
    BY <1>0, <1>4, QueuesOfTimer DEF TimesInv, Events!timer_insert, Events!timer_insert_rel
  <2>3. Registers(t, current_time + tmout)
    BY <1>0, <2>1, <2>2, EventRegisters
  <2>4. TimesInv' /\ Defined'
    BY <1>0, <1>1, <1>2, <2>3 DEF TimesInv, Defined, Registers
  <2>5. Events!DeadlinesStep
    BY <1>0, <1>1, <2>1, <2>3, DeadlineArms
  <2> QED BY <1>2, <2>4, <2>5 DEF TimerIInv
<1> QED BY <1>3, <1>4

(* def_cyc, vdef_cyc, act_cyc and the end of a definition.                 *)
LEMMA CyclicSteps ==
  ASSUME TimerIInv,
         \/ \E on \in BOOLEAN, tim \in 1 .. MAX_REL :
              Events!vdef_cyc(on, tim) \/ \E c \in Cyc : Events!def_cyc(c, on, tim)
         \/ \E c \in Cyc : \/ Events!undef_cyc(c)
                            \/ \E on, ini \in BOOLEAN : Events!act_cyc(c, on, ini)
  PROVE  TimerIInv' /\ Events!DeadlinesStep
<1>0. TimesInv /\ CyclicInv /\ AlarmInv /\ Defined
  BY DEF TimerIInv
<1>1. ASSUME NEW on \in BOOLEAN, NEW tim \in 1 .. MAX_REL, NEW c \in Cyc,
             Events!def_cyc(c, on, tim)
      PROVE  TimerIInv' /\ Events!DeadlinesStep
  <2> DEFINE q == Events!timer_delete(c)
  <2>1. q \in Queue(Ev) /\ InTime(q, time) /\ ToSet(q) = ToSet(timer_queue) \ {c}
    BY <1>0, EventCancels
  <2>2. /\ Events!_def_cyc(q, IF c \in cychdr THEN Append(free_cyccb, c) ELSE free_cyccb, c, on, tim)
        /\ UNCHANGED <<current_time, running, almhdr, free_almcb>>
    BY <1>1 DEF Events!def_cyc, Events!almvars
  <2> HIDE DEF q
  <2> QED BY <2>1, <2>2, CyclicDefined
<1>2. ASSUME NEW on \in BOOLEAN, NEW tim \in 1 .. MAX_REL, Events!vdef_cyc(on, tim)
      PROVE  TimerIInv' /\ Events!DeadlinesStep
  <2> DEFINE c == Head(free_cyccb)
  <2>1. c \in Cyc \ cychdr
    <3>1. free_cyccb \in Queue(Cyc) /\ free_cyccb # << >> /\ ToSet(free_cyccb) = Cyc \ cychdr
      BY <1>0, <1>2 DEF CyclicInv, Events!vdef_cyc
    <3> QED BY <3>1, QueueTail
  <2>2. c \notin ToSet(timer_queue)
    BY <1>0, <2>1, TimerConstants DEF Defined, AlarmInv
  <2>3. /\ timer_queue \in Queue(Ev) /\ InTime(timer_queue, time)
        /\ ToSet(timer_queue) = ToSet(timer_queue) \ {c}
    BY <1>0, <2>2 DEF TimesInv
  <2>4. /\ Events!_def_cyc(timer_queue, free_cyccb, c, on, tim)
        /\ UNCHANGED <<current_time, running, almhdr, free_almcb>>
    BY <1>2 DEF Events!vdef_cyc, Events!almvars
  <2> HIDE DEF c
  <2>5. Events!_def_cyc(timer_queue, IF c \in cychdr THEN Append(free_cyccb, c) ELSE free_cyccb,
                        c, on, tim)
    BY <2>1, <2>4
  <2> QED BY <2>1, <2>3, <2>4, <2>5, CyclicDefined
<1>3. ASSUME NEW c \in Cyc, Events!undef_cyc(c)
      PROVE  TimerIInv' /\ Events!DeadlinesStep
  <2>0. /\ c \in cychdr /\ timer_queue' = Events!timer_delete(c) /\ cychdr' = cychdr \ {c}
        /\ free_cyccb' = Append(free_cyccb, c)
        /\ UNCHANGED <<current_time, time, cycact, cyctim, almhdr, free_almcb, running>>
    BY <1>3 DEF Events!undef_cyc, Events!almvars
  <2>1. Cancels(c)
    BY <1>0, <2>0, EventCancels
  <2>2. c \in Ev
    BY DEF Ev
  <2>3. Events!DeadlinesStep
    BY <2>0, <2>1, <2>2, DeadlineDisarms
  <2>4. CyclicInv'
    <3>1. cychdr \in SUBSET Cyc /\ free_cyccb \in Queue(Cyc) /\ ToSet(free_cyccb) = Cyc \ cychdr
      BY <1>0 DEF CyclicInv
    <3>2. free_cyccb' \in Queue(Cyc) /\ ToSet(free_cyccb') = Cyc \ cychdr'
      BY <2>0, <3>1, FreeLists
    <3> QED BY <1>0, <2>0, <3>2 DEF CyclicInv
  <2>5. AlarmInv' /\ TimesInv'
    BY <1>0, <2>0, <2>1 DEF AlarmInv, TimesInv, Cancels
  <2>6. Defined'
    BY <1>0, <2>0, <2>1, TimerConstants DEF Defined, Cancels, AlarmInv
  <2> QED BY <2>3, <2>4, <2>5, <2>6 DEF TimerIInv
<1>4. ASSUME NEW c \in Cyc, NEW on \in BOOLEAN, NEW ini \in BOOLEAN, Events!act_cyc(c, on, ini)
      PROVE  TimerIInv' /\ Events!DeadlinesStep
  <2>0. /\ c \in cychdr /\ cycact' = (IF on THEN cycact \cup {c} ELSE cycact \ {c})
        /\ UNCHANGED <<current_time, cychdr, cyctim, free_cyccb, almhdr, free_almcb, running>>
        /\ IF ini THEN Events!timer_insert_rel(Events!timer_delete(c), c, cyctim[c])
           ELSE UNCHANGED <<timer_queue, time>>
    BY <1>4 DEF Events!act_cyc, Events!almvars
  <2>1. CyclicInv' /\ AlarmInv'
    BY <1>0, <2>0 DEF CyclicInv, AlarmInv
  <2>2. CASE ~ini
    <3>1. TimesInv' /\ Defined'
      BY <1>0, <2>0, <2>2 DEF TimesInv, Defined
    <3>2. Events!DeadlinesStep
      BY <2>0, <2>2 DEF Events!DeadlinesStep
    <3> QED BY <2>1, <3>1, <3>2 DEF TimerIInv
  <2>3. CASE ini
    <3> DEFINE q == Events!timer_delete(c)
    <3>1. q \in Queue(Ev) /\ InTime(q, time) /\ ToSet(q) = ToSet(timer_queue) \ {c}
      BY <1>0, EventCancels
    <3>2. Events!timer_insert_abs(q, c, current_time + cyctim[c])
      BY <2>0, <2>3 DEF Events!timer_insert_rel
    <3> HIDE DEF q
    <3>3. cyctim[c] \in 1 .. MAX_REL
      BY <1>0, <2>0, TimerConstants DEF CyclicInv
    <3>4. current_time + cyctim[c] \in Times /\ current_time + cyctim[c] > current_time
      BY <1>0, <3>3, FromNow
    <3>5. c \in Ev
      BY DEF Ev
    <3>6. Registers(c, current_time + cyctim[c])
      BY <1>0, <3>1, <3>2, <3>4, <3>5, EventRegisters
    <3>7. Events!DeadlinesStep
      BY <2>0, <3>4, <3>5, <3>6, DeadlineArms
    <3>8. TimesInv' /\ Defined'
      BY <1>0, <2>0, <3>6 DEF TimesInv, Defined, Registers
    <3> QED BY <2>1, <3>7, <3>8 DEF TimerIInv
  <2> QED BY <2>2, <2>3
<1> QED BY <1>1, <1>2, <1>3, <1>4

(* def_alm, vdef_alm and the end of a definition.                          *)
LEMMA AlarmSteps ==
  ASSUME TimerIInv,
         \/ \E at \in Events!AlarmTime : Events!vdef_alm(at) \/ \E a \in Alm : Events!def_alm(a, at)
         \/ \E a \in Alm : Events!undef_alm(a)
  PROVE  TimerIInv' /\ Events!DeadlinesStep
<1>0. TimesInv /\ CyclicInv /\ AlarmInv /\ Defined
  BY DEF TimerIInv
<1>1. ASSUME NEW at \in Events!AlarmTime, NEW a \in Alm, Events!def_alm(a, at)
      PROVE  TimerIInv' /\ Events!DeadlinesStep
  <2> DEFINE q == Events!timer_delete(a)
  <2>1. q \in Queue(Ev) /\ InTime(q, time) /\ ToSet(q) = ToSet(timer_queue) \ {a}
    BY <1>0, EventCancels
  <2>2. /\ Events!_def_alm(q, IF a \in almhdr THEN Append(free_almcb, a) ELSE free_almcb, a, at)
        /\ UNCHANGED <<current_time, running, Events!cycvars>>
    BY <1>1 DEF Events!def_alm
  <2> HIDE DEF q
  <2> QED BY <2>1, <2>2, AlarmDefined
<1>2. ASSUME NEW at \in Events!AlarmTime, Events!vdef_alm(at)
      PROVE  TimerIInv' /\ Events!DeadlinesStep
  <2> DEFINE a == Head(free_almcb)
  <2>1. a \in Alm \ almhdr
    <3>1. free_almcb \in Queue(Alm) /\ free_almcb # << >> /\ ToSet(free_almcb) = Alm \ almhdr
      BY <1>0, <1>2 DEF AlarmInv, Events!vdef_alm
    <3> QED BY <3>1, QueueTail
  <2>2. a \notin ToSet(timer_queue)
    BY <1>0, <2>1, TimerConstants DEF Defined, CyclicInv
  <2>3. /\ timer_queue \in Queue(Ev) /\ InTime(timer_queue, time)
        /\ ToSet(timer_queue) = ToSet(timer_queue) \ {a}
    BY <1>0, <2>2 DEF TimesInv
  <2>4. /\ Events!_def_alm(timer_queue, free_almcb, a, at)
        /\ UNCHANGED <<current_time, running, Events!cycvars>>
    BY <1>2 DEF Events!vdef_alm
  <2> HIDE DEF a
  <2>5. Events!_def_alm(timer_queue, IF a \in almhdr THEN Append(free_almcb, a) ELSE free_almcb, a, at)
    BY <2>1, <2>4
  <2> QED BY <2>1, <2>3, <2>4, <2>5, AlarmDefined
<1>3. ASSUME NEW a \in Alm, Events!undef_alm(a)
      PROVE  TimerIInv' /\ Events!DeadlinesStep
  <2>0. /\ a \in almhdr /\ timer_queue' = Events!timer_delete(a) /\ almhdr' = almhdr \ {a}
        /\ free_almcb' = Append(free_almcb, a)
        /\ UNCHANGED <<current_time, time, cychdr, cycact, cyctim, free_cyccb, running>>
    BY <1>3 DEF Events!undef_alm, Events!cycvars
  <2>1. Cancels(a)
    BY <1>0, <2>0, EventCancels
  <2>2. a \in Ev
    BY DEF Ev
  <2>3. Events!DeadlinesStep
    BY <2>0, <2>1, <2>2, DeadlineDisarms
  <2>4. AlarmInv'
    <3>1. almhdr \in SUBSET Alm /\ free_almcb \in Queue(Alm) /\ ToSet(free_almcb) = Alm \ almhdr
      BY <1>0 DEF AlarmInv
    <3>2. free_almcb' \in Queue(Alm) /\ ToSet(free_almcb') = Alm \ almhdr'
      BY <2>0, <3>1, FreeLists
    <3> QED BY <1>0, <2>0, <3>2 DEF AlarmInv
  <2>5. CyclicInv' /\ TimesInv'
    BY <1>0, <2>0, <2>1 DEF CyclicInv, TimesInv, Cancels
  <2>6. Defined'
    BY <1>0, <2>0, <2>1, TimerConstants DEF Defined, Cancels, CyclicInv
  <2> QED BY <2>3, <2>4, <2>5, <2>6 DEF TimerIInv
<1> QED BY <1>1, <1>2, <1>3

-----------------------------------------------------------------------------
(* The timer interrupt: the clock advances, the head of the queue is       *)
(* served while it is due, and the interrupt ends when it is not.          *)
LEMMA InterruptSteps ==
  ASSUME TimerIInv, Events!SetClock \/ Events!timer_handler \/ Events!TimerStep
  PROVE  TimerIInv' /\ Events!DeadlinesStep
<1>0. TimesInv /\ CyclicInv /\ AlarmInv /\ Defined
  BY DEF TimerIInv
<1>t. /\ timer_queue \in Queue(Ev) /\ time \in [Ev -> Times] /\ InTime(timer_queue, time)
      /\ time \in [Ev -> Int] /\ current_time \in Int
  BY <1>0, TimerConstants DEF TimesInv, Times
<1>1. ASSUME NEW tim \in 0 .. MAX_TIME, Events!set_tim(tim)
      PROVE  TimerIInv' /\ Events!DeadlinesStep
  <2>1. current_time' = tim
        /\ UNCHANGED <<timer_queue, time, cychdr, cycact, cyctim, free_cyccb, almhdr, free_almcb, running>>
    BY <1>1 DEF Events!set_tim, Events!cycvars, Events!almvars
  <2>2. TimerIInv'
    BY <1>0, <2>1 DEF TimerIInv, TimesInv, CyclicInv, AlarmInv, Defined
  <2>3. tim \in 0 .. MAX_TIME + MAX_REL
    BY TimerConstants
  <2>4. Events!Abstract!SetClock(tim)
    BY <2>1 DEF Events!Abstract!SetClock
  <2> QED BY <2>2, <2>3, <2>4 DEF Events!DeadlinesStep, Events!Abstract!Next
<1>2. CASE Events!timer_handler
  <2>1. /\ running = "none" /\ running' = "loop" /\ current_time' = current_time + TIMER_PERIOD
        /\ current_time + TIMER_PERIOD <= MAX_TIME
        /\ UNCHANGED <<timer_queue, time, cychdr, cycact, cyctim, free_cyccb, almhdr, free_almcb>>
    BY <1>2 DEF Events!timer_handler, Events!cycvars, Events!almvars
  <2>2. current_time' \in 0 .. MAX_TIME /\ current_time' > current_time
    BY <1>0, <2>1, TimerConstants DEF TimesInv
  <2>3. TimerIInv'
    BY <1>0, <2>1, <2>2 DEF TimerIInv, TimesInv, CyclicInv, AlarmInv, Defined
  <2>4. Events!Abstract!Interrupt
    BY <2>1, <2>2 DEF Events!Abstract!Interrupt
  <2> QED BY <2>3, <2>4 DEF Events!DeadlinesStep, Events!Abstract!Next
<1>3. CASE Events!serve_event
  <2> DEFINE e == Head(timer_queue)
  <2>0. /\ timer_queue # << >> /\ time[e] <= current_time /\ running = "loop"
        /\ current_time' = current_time
    BY <1>3 DEF Events!serve_event, Events!due
  <2>1. /\ e \in ToSet(timer_queue) /\ \A f \in ToSet(timer_queue) : time[e] <= time[f]
        /\ Tail(timer_queue) \in Queue(Ev) /\ InTime(Tail(timer_queue), time)
        /\ ToSet(Tail(timer_queue)) = ToSet(timer_queue) \ {e}
    BY <1>t, <2>0, HeadInTime
  <2>2. \/ e \in Timed /\ Events!wait_release_tmout(e)
        \/ e \in Cyc /\ Events!call_cychdr(e)
        \/ e \in Alm /\ Events!call_almhdr(e)
    BY <1>3 DEF Events!serve_event
  <2>3. e \in Ev
    BY <2>2 DEF Ev
  <2> HIDE DEF e
  <2>s. ASSUME running' # "none",
               \/ ToSet(timer_queue') = ToSet(timer_queue) \ {e} /\ time' = time
               \/ /\ ToSet(timer_queue') = ToSet(timer_queue)
                  /\ \E d \in Times : d > current_time /\ time' = [time EXCEPT ![e] = d]
        PROVE  Events!DeadlinesStep
    <3>1. Events!Abstract!Serve(e)
      BY <2>0, <2>1, <2>s, QueuesOfTimer
         DEF Events!Abstract!Serve, Events!Abstract!Due, Times
    <3> QED BY <2>3, <3>1, TimerConstants DEF Events!DeadlinesStep, Events!Abstract!Next
  <2>4. CASE e \in Timed /\ Events!wait_release_tmout(e)
    <3>1. /\ timer_queue' = Tail(timer_queue)
          /\ UNCHANGED <<time, cychdr, cycact, cyctim, free_cyccb, almhdr, free_almcb, running>>
      BY <2>4 DEF Events!wait_release_tmout, Events!cycvars, Events!almvars
    <3>2. TimesInv' /\ CyclicInv' /\ AlarmInv'
      BY <1>0, <2>0, <2>1, <3>1 DEF TimesInv, CyclicInv, AlarmInv
    <3>3. Defined'
      BY <1>0, <2>1, <2>4, <3>1, TimerConstants DEF Defined
    <3>4. Events!DeadlinesStep
      BY <2>0, <2>1, <2>s, <3>1
    <3> QED BY <3>2, <3>3, <3>4 DEF TimerIInv
  <2>5. CASE e \in Cyc /\ Events!call_cychdr(e)
    <3> DEFINE at == current_time + cyctim[e]
    <3>1. /\ Events!timer_insert_abs(Tail(timer_queue), e, at)
          /\ running' = (IF e \in cycact THEN e ELSE running)
          /\ UNCHANGED <<cychdr, cycact, cyctim, free_cyccb, almhdr, free_almcb>>
      BY <2>5 DEF Events!call_cychdr, Events!timer_insert_rel, Events!cycvars, Events!almvars
    <3>2. e \in cychdr
      BY <1>0, <2>1, <2>5, TimerConstants DEF Defined, AlarmInv
    <3>3. cyctim[e] \in 1 .. MAX_REL
      BY <1>0, <2>5, <3>2, TimerConstants DEF CyclicInv
    <3>4. at \in Times /\ at > current_time
      BY <1>0, <3>3, FromNow
    <3> HIDE DEF at
    <3>5. Registers(e, at)
      BY <1>0, <2>1, <2>3, <3>1, <3>4, EventRegisters
    <3>6. ToSet(timer_queue') = ToSet(timer_queue)
      BY <2>1, <3>5 DEF Registers
    <3>7. TimesInv' /\ CyclicInv' /\ AlarmInv' /\ Defined'
      BY <1>0, <2>0, <2>5, <3>1, <3>5, <3>6 DEF TimesInv, CyclicInv, AlarmInv, Defined, Registers
    <3>8. running' # "none"
      BY <2>0, <2>5, <3>1, TimerConstants
    <3>9. Events!DeadlinesStep
      BY <2>s, <3>4, <3>5, <3>6, <3>8 DEF Registers
    <3> QED BY <3>7, <3>9 DEF TimerIInv
  <2>6. CASE e \in Alm /\ Events!call_almhdr(e)
    <3>1. /\ timer_queue' = Tail(timer_queue) /\ running' = e
          /\ almhdr' = almhdr \ {e} /\ free_almcb' = Append(free_almcb, e)
          /\ UNCHANGED <<time, cychdr, cycact, cyctim, free_cyccb>>
      BY <2>6 DEF Events!call_almhdr, Events!cycvars
    <3>2. e \in almhdr /\ e \notin cychdr
      BY <1>0, <2>1, <2>6, TimerConstants DEF Defined, CyclicInv
    <3>3. AlarmInv'
      <4>1. almhdr \in SUBSET Alm /\ free_almcb \in Queue(Alm) /\ ToSet(free_almcb) = Alm \ almhdr
        BY <1>0 DEF AlarmInv
      <4>2. free_almcb' \in Queue(Alm) /\ ToSet(free_almcb') = Alm \ almhdr'
        BY <2>6, <3>1, <3>2, <4>1, FreeLists
      <4> QED BY <3>1, <4>1, <4>2 DEF AlarmInv
    <3>4. TimesInv' /\ CyclicInv'
      BY <1>0, <2>0, <2>1, <2>6, <3>1 DEF TimesInv, CyclicInv
    <3>5. Defined'
      BY <1>0, <2>1, <3>1, <3>2 DEF Defined
    <3>6. running' # "none"
      BY <2>6, <3>1, TimerConstants
    <3>7. Events!DeadlinesStep
      BY <2>1, <2>s, <3>1, <3>6
    <3> QED BY <3>3, <3>4, <3>5, <3>7 DEF TimerIInv
  <2> QED BY <2>2, <2>4, <2>5, <2>6
<1>4. CASE Events!handler_returns
  <2>1. /\ running \in Cyc \cup Alm /\ running' = "loop"
        /\ UNCHANGED <<current_time, timer_queue, time, cychdr, cycact, cyctim, free_cyccb, almhdr, free_almcb>>
    BY <1>4 DEF Events!handler_returns, Events!cycvars, Events!almvars
  <2>2. TimerIInv'
    BY <1>0, <2>1 DEF TimerIInv, TimesInv, CyclicInv, AlarmInv, Defined
  <2>3. running # "none" /\ running' # "none"
    BY <2>1, TimerConstants
  <2>4. (running # "none")' = (running # "none")
    BY <2>3
  <2> QED BY <2>1, <2>2, <2>4 DEF Events!DeadlinesStep
<1>5. CASE Events!timer_handler_ends
  <2>1. /\ running = "loop" /\ running' = "none" /\ ~Events!due
        /\ UNCHANGED <<current_time, timer_queue, time, cychdr, cycact, cyctim, free_cyccb, almhdr, free_almcb>>
    BY <1>5 DEF Events!timer_handler_ends, Events!cycvars, Events!almvars
  <2>2. TimerIInv'
    BY <1>0, <2>1 DEF TimerIInv, TimesInv, CyclicInv, AlarmInv, Defined
  <2>3. ASSUME NEW e \in ToSet(timer_queue) PROVE ~(time[e] <= current_time)
    <3>1. timer_queue # << >>
      BY <1>t, QueueEntries
    <3>2. Head(timer_queue) \in ToSet(timer_queue) /\ time[Head(timer_queue)] <= time[e]
      BY <1>t, <3>1, HeadInTime
    <3>3. ToSet(timer_queue) \subseteq Ev
      BY <1>t, QueueEntries
    <3>4. time[Head(timer_queue)] \in Int /\ time[e] \in Int
      BY <1>t, <3>2, <3>3
    <3>5. ~(time[Head(timer_queue)] <= current_time)
      BY <2>1, <3>1 DEF Events!due
    <3> QED BY <1>t, <3>2, <3>4, <3>5
  <2>4. Events!Abstract!Return
    BY <2>1, <2>3, QueuesOfTimer DEF Events!Abstract!Return, Events!Abstract!Due
  <2> QED BY <2>2, <2>4 DEF Events!DeadlinesStep, Events!Abstract!Next
<1> QED BY <1>1, <1>2, <1>3, <1>4, <1>5 DEF Events!SetClock, Events!TimerStep

(* Every step of the timer keeps the invariant, and is one of Deadlines.   *)
LEMMA TimerStepSound ==
  ASSUME TimerIInv, Events!Next \/ UNCHANGED eventvars
  PROVE  TimerIInv' /\ Events!DeadlinesStep
<1>1. CASE UNCHANGED eventvars
  <2>1. TimerIInv'
    BY <1>1 DEF eventvars, TimerIInv, TimesInv, CyclicInv, AlarmInv, Defined
  <2>2. Events!DeadlinesStep
    BY <1>1 DEF eventvars, Events!DeadlinesStep
  <2> QED BY <2>1, <2>2
<1>2. CASE Events!Next
  <2>1. CASE Events!SetClock \/ Events!timer_handler \/ Events!TimerStep
    BY <2>1, InterruptSteps
  <2>2. CASE Events!Call
    BY <2>2, TimeoutSteps, CyclicSteps, AlarmSteps DEF Events!Call
  <2> QED BY <1>2, <2>1, <2>2 DEF Events!Next
<1> QED BY <1>1, <1>2

(* The free lists start with all of the blocks.                            *)
LEMMA ListOfAll ==
  ASSUME NEW S, IsFiniteSet(S)
  PROVE  Events!SetToSeq(S) \in Queue(S) /\ ToSet(Events!SetToSeq(S)) = S
<1> DEFINE D == 1 .. Cardinality(S)
           q == Events!SetToSeq(S)
<1>1. PICK f \in Bijection(D, S) : TRUE
  BY FS_CardinalityType DEF ExistsBijection
<1>2. f \in [D -> S] /\ Events!IsInjective(f)
  BY <1>1 DEF Bijection, Injection, Events!IsInjective, IsInjective
<1>3. Events!Cardinality(S) = Cardinality(S)
  BY DEF Events!Cardinality, Cardinality
<1>4. q \in [D -> S] /\ Events!IsInjective(q)
  BY <1>2, <1>3 DEF Events!SetToSeq
<1>5. Stacks!Cardinality(S) = Cardinality(S)
  BY DEF Stacks!Cardinality, Cardinality
<1>6. q \in Stacks!SetToSeqs(S)
  BY <1>4, <1>5 DEF Stacks!SetToSeqs, Events!IsInjective
<1> HIDE DEF q
<1>7. q \in Queue(S) /\ ToSet(q) = S
  BY <1>6, AllInAQueue
<1> QED BY <1>7 DEF q

(* Nothing is registered or defined when the system starts.                *)
LEMMA TimerStarts ==
  ASSUME Events!Init
  PROVE  TimerIInv /\ Events!Abstract!Init
<1>1. /\ current_time = 0 /\ timer_queue = << >> /\ time = [e \in Ev |-> 0] /\ running = "none"
      /\ cychdr = {} /\ cycact = {} /\ cyctim = [c \in Cyc |-> 0] /\ almhdr = {}
      /\ free_cyccb = Events!SetToSeq(Cyc) /\ free_almcb = Events!SetToSeq(Alm)
  BY TimerConstants DEF Events!Init, Events!cyclichandler_initialize, Events!alarmhandler_initialize
<1>2. timer_queue \in Queue(Ev) /\ ToSet(timer_queue) = {} /\ InTime(timer_queue, time)
  BY <1>1 DEF Queue, ToSet, IsInjective, InTime
<1>3. current_time \in 0 .. MAX_TIME /\ time \in [Ev -> Times]
  BY <1>1, TimerConstants DEF Times
<1>4. TimesInv /\ Defined
  BY <1>1, <1>2, <1>3 DEF TimesInv, Defined
<1>5. CyclicInv
  <2>1. cyctim \in [Cyc -> 0 .. MAX_REL]
    BY <1>1, TimerConstants
  <2> QED BY <1>1, <2>1, ListOfAll, TimerConstants DEF CyclicInv
<1>6. AlarmInv
  BY <1>1, ListOfAll, TimerConstants DEF AlarmInv
<1>7. Events!Abstract!Init
  BY <1>1, <1>2, <1>3, TimerConstants, QueuesOfTimer DEF Events!Abstract!Init, Times
<1> QED BY <1>4, <1>5, <1>6, <1>7 DEF TimerIInv

(* The invariant tells what the run checks of every state.                 *)
LEMMA TimerIsSound ==
  ASSUME TimerIInv
  PROVE  Events!TypeOK /\ Events!HandlersRegistered
<1>0. TimesInv /\ CyclicInv /\ AlarmInv /\ Defined
  BY DEF TimerIInv
<1>1. Events!TypeOK
  <2>1. timer_queue \in Seq(Events!Event)
    BY <1>0, TimerConstants, QueueEntries DEF TimesInv
  <2> QED BY <1>0, <2>1, TimerConstants
          DEF TimesInv, CyclicInv, AlarmInv, Times, Events!TypeOK
<1>2. Events!HandlersRegistered
  <2>1. IsInjective(timer_queue) /\ IsInjective(free_cyccb) /\ IsInjective(free_almcb)
    BY <1>0 DEF TimesInv, CyclicInv, AlarmInv, Queue
  <2>2. ToSet(timer_queue) \subseteq Ev
    BY <1>0, QueueEntries DEF TimesInv
  <2>3. cychdr \cup almhdr = ToSet(timer_queue) \ Timed
    BY <1>0, <2>2, TimerConstants DEF Defined, CyclicInv, AlarmInv, Ev
  <2> QED BY <1>0, <2>1, <2>3, QueuesOfTimer DEF CyclicInv, AlarmInv, Events!HandlersRegistered
<1> QED BY <1>1, <1>2

TimerInv == part = "timer" => TimerIInv

(* The timer serves every event in time and none early, in the order of    *)
(* their times and with nothing due left over, and the handlers that are   *)
(* defined are those whose events are registered: for any number of tasks  *)
(* and handlers, whatever the handlers define and however the clock is set.*)
THEOREM DeadlinesAreServed == KernelSpec => ServesDeadlines
<1>1. KernelInit => TimerInv /\ (part = "timer" => Events!Abstract!Init)
  BY TimerStarts DEF KernelInit, EventsInit, TimerInv
<1>2. TimerInv /\ [KernelNext]_kernelvars
        => TimerInv' /\ [part = "timer" => Events!DeadlinesStep]_kernelvars
  <2> SUFFICES ASSUME TimerInv, [KernelNext]_kernelvars
               PROVE  TimerInv' /\ (part = "timer" => Events!DeadlinesStep)
    OBVIOUS
  <2>1. part' = part
    BY DEF KernelNext, kernelvars
  <2>2. ASSUME part = "timer" PROVE TimerIInv' /\ Events!DeadlinesStep
    <3>1. TimerIInv
      BY <2>2 DEF TimerInv
    <3>2. Events!Next \/ UNCHANGED eventvars
      BY <2>2 DEF KernelNext, StacksStep, ServicesStep, ClockStep, EventsStep, kernelvars
    <3> QED BY <3>1, <3>2, TimerStepSound
  <2> QED BY <2>1, <2>2 DEF TimerInv
<1>3. TimerInv => (part = "timer" => Events!TypeOK /\ Events!HandlersRegistered)
  BY TimerIsSound DEF TimerInv
<1>4. KernelSpec => /\ (part = "timer" => Events!Abstract!Init)
                    /\ [][part = "timer" => Events!DeadlinesStep]_kernelvars
                    /\ [](part = "timer" => Events!TypeOK /\ Events!HandlersRegistered)
  BY <1>1, <1>2, <1>3, PTL DEF KernelSpec
<1> QED BY <1>4 DEF ServesDeadlines
=============================================================================
