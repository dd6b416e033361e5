----------------------------- MODULE ObjectProofs -----------------------------
(***************************************************************************)
(* The objects that hand something to one task at a time: what their runs  *)
(* check holds for every number of tasks, objects, units, bits, messages   *)
(* and blocks.                                                             *)
(*                                                                         *)
(* The first part says what a call of an object does to the tasks and to   *)
(* the wait queues: each keeps the invariant of the task management calls, *)
(* the order of the queues and the turns of the waiting tasks.  The other  *)
(* parts are about one kind of object each: what the object keeps and who  *)
(* waits for it.                                                           *)
(***************************************************************************)
EXTENDS MCObjects, TaskManagementProofs, FiniteSetTheorems

(* The wait queues of the objects with TA_TPRI are sorted.                 *)
Sorted == \A g \in TaTpri : SortedBy(wait_queue[g], priority)

(* What a call may do to the wait queues of objects with TA_TFIFO.         *)
KeepsTurns ==
  \A g \in Gcb \ TaTpri : \A t, u \in ToSet(wait_queue'[g]) :
    before(wait_queue[g], t, u) => before(wait_queue'[g], t, u)

(* Nobody begins to wait for an object of S.                               *)
NobodyComes(S) == \A g \in S : ToSet(wait_queue'[g]) \subseteq ToSet(wait_queue[g])

(* Sorted is what the property of the runs says.                           *)
LEMMA SortedSays ==
  ASSUME Sorted, IInv
  PROVE  WaitQueueSorted
<1>1. ASSUME NEW g \in TaTpri, NEW i \in DOMAIN wait_queue[g], NEW j \in DOMAIN wait_queue[g], i < j
      PROVE  priority[wait_queue[g][i]] <= priority[wait_queue[g][j]]
  <2>1. before(wait_queue[g], wait_queue[g][i], wait_queue[g][j])
    BY <1>1 DEF before
  <2> QED BY <2>1 DEF Sorted, SortedBy
<1> QED BY <1>1 DEF WaitQueueSorted

(* Queues that nobody enters keep the turns.                               *)
LEMMA ThinnedTurns ==
  ASSUME NEW q, NEW q2, Thinned(q, q2)
  PROVE  \A t, u \in ToSet(q2) : before(q, t, u) => before(q2, t, u)
  BY DEF Thinned

-----------------------------------------------------------------------------
(* What the task management calls do.                                      *)
LEMMA TaskStepKeeps ==
  ASSUME IInv, [Next]_vars
  PROVE  /\ IInv' /\ (Sorted => Sorted') /\ KeepsTurns
         /\ NobodyComes(Gcb)
<1>1. IInv'
  BY StepInv
<1>2. ASSUME NEW g \in TaTpri, Sorted PROVE SortedBy(wait_queue'[g], priority')
  BY <1>2, NextThins, TaskCoreAssumption DEF Sorted
<1>3. ASSUME NEW g \in Gcb PROVE ToSet(wait_queue'[g]) \subseteq ToSet(wait_queue[g])
  BY <1>3, NextThins
<1>4. ASSUME NEW g \in Gcb \ TaTpri PROVE Thinned(wait_queue[g], wait_queue'[g])
  BY <1>4, NextThins
<1>5. KeepsTurns
  BY <1>4, ThinnedTurns DEF KeepsTurns
<1>6. Sorted => Sorted'
  BY <1>2 DEF Sorted
<1> QED BY <1>1, <1>3, <1>5, <1>6 DEF NobodyComes

(* What the end of several waits does, of those for an object or of some.  *)
LEMMA ReleaseKeeps ==
  ASSUME IInv, UNCHANGEDcalls, IInv',
         \A g \in Gcb : Thinned(wait_queue[g], wait_queue'[g])
  PROVE  (Sorted => Sorted') /\ KeepsTurns /\ NobodyComes(Gcb)
<1>1. UNCHANGED priority /\ TaTpri \subseteq Gcb
  BY TaskCoreAssumption DEF UNCHANGEDcalls, privars
<1>2. ASSUME NEW g \in TaTpri, Sorted PROVE SortedBy(wait_queue'[g], priority')
  BY <1>1, <1>2, ThinnedSorted DEF Sorted
<1>3. KeepsTurns
  BY ThinnedTurns DEF KeepsTurns
<1>4. Sorted => Sorted'
  BY <1>2 DEF Sorted
<1> QED BY <1>3, <1>4 DEF NobodyComes, Thinned

(* What the end of an object does.                                         *)
LEMMA DeleteKeeps ==
  ASSUME IInv, NEW g \in Gcb, wait_delete(g), UNCHANGEDcalls
  PROVE  /\ IInv' /\ (Sorted => Sorted') /\ KeepsTurns
         /\ NobodyComes(Gcb) /\ wait_queue'[g] = << >>
<1>1. /\ IInv'
      /\ ToSet(wait_queue'[g]) = {}
      /\ \A h \in Gcb : Thinned(wait_queue[h], wait_queue'[h])
  BY WaitDelete DEF UNCHANGEDcalls
<1>2. wait_queue'[g] \in Seq(Task)
  BY <1>1 DEF IInv, TypeOK
<1>3. wait_queue'[g] = << >>
  BY <1>1, <1>2, NobodyIn
<1> QED BY <1>1, <1>3, ReleaseKeeps

(* What a task does that begins to wait for an object.                     *)
LEMMA WaitKeeps ==
  ASSUME IInv, in_task, ~in_ddsp, NEW g \in Gcb, NEW timed, gcb_make_wait(g, timed), UNCHANGEDcalls
  PROVE  /\ IInv' /\ (Sorted => Sorted') /\ KeepsTurns
         /\ NobodyComes(Gcb \ {g}) /\ ctxtsk \notin ToSet(wait_queue[g])
         /\ ToSet(wait_queue'[g]) = ToSet(wait_queue[g]) \cup {ctxtsk}
         /\ g \notin TaTpri => wait_queue'[g] = Append(wait_queue[g], ctxtsk)
         /\ \A h \in Gcb \ {g} : wait_queue'[h] = wait_queue[h]
<1>1. /\ IInv'
      /\ \A h \in Gcb \ {g} : wait_queue'[h] = wait_queue[h]
      /\ ToSet(wait_queue'[g]) = ToSet(wait_queue[g]) \cup {ctxtsk}
      /\ ctxtsk \notin ToSet(wait_queue[g])
      /\ \A t, u : before(wait_queue[g], t, u) => before(wait_queue'[g], t, u)
      /\ g \notin TaTpri => wait_queue'[g] = Append(wait_queue[g], ctxtsk)
      /\ g \in TaTpri /\ SortedBy(wait_queue[g], priority) => SortedBy(wait_queue'[g], priority)
  BY GcbMakeWait DEF UNCHANGEDcalls
<1>2. UNCHANGED priority
  BY DEF UNCHANGEDcalls, privars
<1>3. ASSUME NEW h \in TaTpri, Sorted PROVE SortedBy(wait_queue'[h], priority')
  <2>1. h \in Gcb /\ SortedBy(wait_queue[h], priority)
    BY <1>3, TaskCoreAssumption DEF Sorted
  <2>2. CASE h = g
    BY <1>1, <1>2, <2>1, <2>2
  <2>3. CASE h # g
    BY <1>1, <1>2, <2>1, <2>3
  <2> QED BY <2>2, <2>3
<1>4. KeepsTurns
  <2>1. ASSUME NEW h \in Gcb, NEW t, NEW u, before(wait_queue[h], t, u)
        PROVE  before(wait_queue'[h], t, u)
    <3>1. CASE h = g
      BY <1>1, <2>1, <3>1
    <3>2. CASE h # g
      BY <1>1, <2>1, <3>2
    <3> QED BY <3>1, <3>2
  <2> QED BY <2>1 DEF KeepsTurns
<1>5. Sorted => Sorted'
  BY <1>3 DEF Sorted
<1> QED BY <1>1, <1>4, <1>5 DEF NobodyComes

(* If nobody waits for any of some objects who did not wait before, an     *)
(* empty queue stays empty.                                                *)
LEMMA StaysEmpty ==
  ASSUME IInv, IInv', NEW S \in SUBSET Gcb, NobodyComes(S), NEW g \in S
  PROVE  wait_tskid(g)' # NoTask => wait_tskid(g) # NoTask
<1>1. g \in Gcb /\ ToSet(wait_queue'[g]) \subseteq ToSet(wait_queue[g])
  BY DEF NobodyComes
<1>2. wait_tskid(g) # NoTask <=> ToSet(wait_queue[g]) # {}
  BY <1>1, FirstWaits
<1>3. wait_queue'[g] \in Seq(Task)
  BY <1>1 DEF IInv, TypeOK
<1>4. wait_tskid(g)' # NoTask => ToSet(wait_queue'[g]) # {}
  BY <1>3, NobodyIn DEF wait_tskid
<1> QED BY <1>1, <1>2, <1>4

-----------------------------------------------------------------------------
(***************************************************************************)
(* Semaphores.                                                             *)
(***************************************************************************)
SemInv == SemTypeOK /\ NoUnitWhileWaiting

(* A semaphore that nobody comes to wait for, and whose count stays or is  *)
(* taken from, still has no unit for those that wait.                      *)
LEMMA NoUnitKept ==
  ASSUME IInv, IInv', NoUnitWhileWaiting, NobodyComes(Sem),
         \A s \in Sem : wait_tskid(s)' # NoTask /\ s \in created
                          => s \in created' /\ semcnt'[s] = semcnt[s]
  PROVE  NoUnitWhileWaiting'
<1>1. ASSUME NEW s \in Sem, wait_tskid(s)' # NoTask
      PROVE  s \in created' /\ semcnt'[s] = 0
  <2>1. wait_tskid(s) # NoTask
    BY <1>1, StaysEmpty, SemaphoreAssumption
  <2> QED BY <1>1, <2>1 DEF NoUnitWhileWaiting, ref_sem
<1> QED BY <1>1 DEF NoUnitWhileWaiting, ref_sem

(* The calls of semaphores.                                                *)
LEMMA SemCallKeeps ==
  ASSUME IInv, SemInv, SemCall
  PROVE  IInv' /\ (Sorted => Sorted') /\ KeepsTurns /\ SemInv'
<1>a. PICK s \in Sem :
        \/ \E isemcnt, max \in 0 .. MAXSEM : cre_sem(s, isemcnt, max)
        \/ del_sem(s)
        \/ sig_sem(s)
        \/ \E timed \in BOOLEAN : twai_sem(s, timed)
  BY DEF SemCall
<1>g. s \in Gcb /\ Sem \subseteq Gcb
  BY SemaphoreAssumption
<1>t. /\ created \in SUBSET Sem
      /\ maxsem \in [Sem -> 0 .. MAXSEM] /\ semcnt \in [Sem -> 0 .. MAXSEM]
      /\ \A r \in Sem : semcnt[r] <= maxsem[r]
      /\ NoUnitWhileWaiting /\ MAXSEM \in Nat
  BY SemaphoreAssumption DEF SemInv, SemTypeOK
<1>s. ASSUME NobodyComes(Gcb) PROVE NobodyComes(Sem)
  BY <1>s, <1>g DEF NobodyComes
<1>1. CASE \E isemcnt, max \in 0 .. MAXSEM : cre_sem(s, isemcnt, max)
  <2>1. PICK isemcnt, max \in 0 .. MAXSEM : cre_sem(s, isemcnt, max)
    BY <1>1
  <2>2. IInv' /\ (Sorted => Sorted') /\ KeepsTurns /\ NobodyComes(Gcb)
    BY <2>1, TaskStepKeeps DEF cre_sem
  <2>3. NoUnitWhileWaiting'
    <3>1. \A r \in Sem : wait_tskid(r)' # NoTask /\ r \in created
                           => r \in created' /\ semcnt'[r] = semcnt[r]
      BY <1>t, <2>1 DEF cre_sem
    <3> QED BY <1>s, <1>t, <2>2, <3>1, NoUnitKept
  <2>4. SemTypeOK'
    BY <1>t, <2>1, <2>2 DEF cre_sem, SemTypeOK, IInv
  <2> QED BY <2>2, <2>3, <2>4 DEF SemInv
<1>2. CASE del_sem(s)
  <2>1. /\ IInv' /\ (Sorted => Sorted') /\ KeepsTurns /\ NobodyComes(Gcb)
        /\ wait_queue'[s] = << >>
    BY <1>2, <1>g, DeleteKeeps DEF del_sem, UNCHANGEDcalls
  <2>2. \A r \in Sem : wait_tskid(r)' # NoTask /\ r \in created
                         => r \in created' /\ semcnt'[r] = semcnt[r]
    BY <1>2, <2>1 DEF del_sem, wait_tskid
  <2>3. NoUnitWhileWaiting'
    BY <1>s, <1>t, <2>1, <2>2, NoUnitKept
  <2>4. SemTypeOK'
    BY <1>2, <1>t, <2>1 DEF del_sem, SemTypeOK, IInv
  <2> QED BY <2>1, <2>3, <2>4 DEF SemInv
<1>3. CASE sig_sem(s)
  <2>1. CASE wait_queue[s] # << >>
    <3>1. Next
      BY <1>3, <1>g, <2>1, FirstReleased DEF sig_sem, UNCHANGEDcalls
    <3>2. UNCHANGED semvars
      BY <1>3, <2>1 DEF sig_sem, semvars
    <3>3. IInv' /\ (Sorted => Sorted') /\ KeepsTurns /\ NobodyComes(Gcb)
      BY <3>1, TaskStepKeeps
    <3>4. NoUnitWhileWaiting'
      BY <1>s, <1>t, <3>2, <3>3, NoUnitKept DEF semvars
    <3> QED BY <1>t, <3>2, <3>3, <3>4 DEF SemInv, SemTypeOK, IInv, semvars
  <2>2. CASE wait_queue[s] = << >>
    <3>1. UNCHANGED vars /\ UNCHANGED <<created, maxsem>>
      BY <1>3, <2>2 DEF sig_sem, vars, taskvars, cpuvars, countvars, privars, schedvars, waitvars
    <3>2. semcnt[s] < maxsem[s] /\ semcnt' = [semcnt EXCEPT ![s] = @ + 1]
      BY <1>3, <2>2 DEF sig_sem
    <3>3. IInv' /\ (Sorted => Sorted') /\ KeepsTurns /\ NobodyComes(Gcb)
      BY <3>1, TaskStepKeeps
    <3>4. wait_tskid(s)' = NoTask
      BY <2>2, <3>1 DEF wait_tskid, vars, taskvars, waitvars
    <3>5. \A r \in Sem : wait_tskid(r)' # NoTask /\ r \in created
                           => r \in created' /\ semcnt'[r] = semcnt[r]
      BY <1>t, <3>1, <3>2, <3>4
    <3>6. NoUnitWhileWaiting'
      BY <1>s, <1>t, <3>3, <3>5, NoUnitKept
    <3>7. semcnt'[s] \in 0 .. MAXSEM /\ semcnt'[s] <= maxsem[s]
      BY <1>t, <3>2
    <3>8. semcnt' \in [Sem -> 0 .. MAXSEM] /\ \A r \in Sem : semcnt'[r] <= maxsem'[r]
      BY <1>t, <3>1, <3>2, <3>7
    <3> QED BY <1>t, <3>1, <3>3, <3>6, <3>8 DEF SemInv, SemTypeOK, IInv
  <2> QED BY <2>1, <2>2
<1>4. CASE \E timed \in BOOLEAN : twai_sem(s, timed)
  <2>0. PICK timed \in BOOLEAN : twai_sem(s, timed)
    BY <1>4
  <2>1. CASE semcnt[s] >= 1
    <3>1. UNCHANGED vars /\ UNCHANGED <<created, maxsem>>
      BY <2>0, <2>1
         DEF twai_sem, vars, taskvars, cpuvars, countvars, privars, schedvars, waitvars
    <3>2. semcnt' = [semcnt EXCEPT ![s] = @ - 1]
      BY <2>0, <2>1 DEF twai_sem
    <3>3. IInv' /\ (Sorted => Sorted') /\ KeepsTurns /\ NobodyComes(Gcb)
      BY <3>1, TaskStepKeeps
    <3>4. wait_tskid(s)' = NoTask
      <4>1. wait_tskid(s) = NoTask
        BY <1>t, <2>1 DEF NoUnitWhileWaiting, ref_sem
      <4> QED BY <3>1, <4>1 DEF wait_tskid, vars, taskvars, waitvars
    <3>5. \A r \in Sem : wait_tskid(r)' # NoTask /\ r \in created
                           => r \in created' /\ semcnt'[r] = semcnt[r]
      BY <1>t, <3>1, <3>2, <3>4
    <3>6. NoUnitWhileWaiting'
      BY <1>s, <1>t, <3>3, <3>5, NoUnitKept
    <3>7. semcnt'[s] \in 0 .. MAXSEM /\ semcnt'[s] <= maxsem[s]
      BY <1>t, <2>1, <3>2
    <3>8. semcnt' \in [Sem -> 0 .. MAXSEM] /\ \A r \in Sem : semcnt'[r] <= maxsem'[r]
      BY <1>t, <3>1, <3>2, <3>7
    <3> QED BY <1>t, <3>1, <3>3, <3>6, <3>8 DEF SemInv, SemTypeOK, IInv
  <2>2. CASE ~(semcnt[s] >= 1)
    <3>1. gcb_make_wait(s, timed) /\ UNCHANGED semvars /\ UNCHANGEDcalls /\ s \in created
      BY <2>0, <2>2 DEF twai_sem, semvars, UNCHANGEDcalls
    <3>2. IInv' /\ (Sorted => Sorted') /\ KeepsTurns /\ NobodyComes(Gcb \ {s})
      BY <1>g, <2>0, <3>1, WaitKeeps DEF twai_sem
    <3>3. semcnt[s] = 0
      BY <1>t, <2>2
    <3>4. ASSUME NEW r \in Sem, wait_tskid(r)' # NoTask
          PROVE  r \in created' /\ semcnt'[r] = 0
      <4>1. CASE r = s
        BY <3>1, <3>3, <4>1 DEF semvars
      <4>2. CASE r # s
        <5>1. wait_tskid(r) # NoTask
          <6>1. r \in Gcb \ {s} /\ Gcb \ {s} \in SUBSET Gcb
            BY <1>g, <4>2
          <6> QED BY <3>2, <3>4, <6>1, StaysEmpty
        <5> QED BY <1>t, <3>1, <5>1 DEF NoUnitWhileWaiting, ref_sem, semvars
      <4> QED BY <4>1, <4>2
    <3>5. NoUnitWhileWaiting'
      BY <3>4 DEF NoUnitWhileWaiting, ref_sem
    <3> QED BY <1>t, <3>1, <3>2, <3>5 DEF SemInv, SemTypeOK, IInv, semvars
  <2> QED BY <2>1, <2>2
<1> QED BY <1>a, <1>1, <1>2, <1>3, <1>4

(* The other steps of a program that uses semaphores.                      *)
LEMMA SemOtherKeeps ==
  ASSUME IInv, SemInv, [Next]_vars, UNCHANGED semvars
  PROVE  IInv' /\ (Sorted => Sorted') /\ KeepsTurns /\ SemInv'
<1>1. IInv' /\ (Sorted => Sorted') /\ KeepsTurns /\ NobodyComes(Gcb)
  BY TaskStepKeeps
<1>2. NobodyComes(Sem)
  BY <1>1, SemaphoreAssumption DEF NobodyComes
<1>3. NoUnitWhileWaiting'
  BY <1>1, <1>2, NoUnitKept DEF SemInv, semvars
<1> QED BY <1>1, <1>3 DEF SemInv, SemTypeOK, IInv, semvars

(* At the start nobody waits.                                              *)
LEMMA ObjectsStart ==
  ASSUME Init
  PROVE  IInv /\ Sorted /\ \A g \in Gcb : wait_queue[g] = << >> /\ wait_tskid(g) = NoTask
<1>1. IInv
  BY InitInv
<1>2. \A g \in Gcb : wait_queue[g] = << >>
  BY DEF Init
<1>3. Sorted
  BY <1>2, TaskCoreAssumption DEF Sorted, SortedBy, before
<1> QED BY <1>1, <1>2, <1>3 DEF wait_tskid

-----------------------------------------------------------------------------
(***************************************************************************)
(* Fixed-length memory pools.                                              *)
(***************************************************************************)
(* A product grows with its factors.                                       *)
LEMMA ProductGrows ==
  ASSUME NEW n \in Nat, NEW i \in Int, NEW j \in Int, i <= j
  PROVE  n * i <= n * j
<1>1. n * (j - i) >= 0
  OBVIOUS
<1>2. n * (j - i) = n * j - n * i
  OBVIOUS
<1>3. n * i \in Int /\ n * j \in Int
  OBVIOUS
<1> QED BY <1>1, <1>2, <1>3

(* What division with remainder gives.                                     *)
LEMMA Division ==
  ASSUME NEW n \in Nat, n > 0, NEW b \in Nat
  PROVE  /\ b = (b \div n) * n + (b % n)
         /\ b \div n \in Nat /\ b % n \in 0 .. n - 1
<1>1. b = (b \div n) * n + (b % n)
  OBVIOUS
<1>2. b \div n \in Nat
  OBVIOUS
<1>3. b % n \in 0 .. n - 1
  OBVIOUS
<1> QED BY <1>1, <1>2, <1>3

(* The multiples of n are what is n times something.                       *)
LEMMA MultipleIs ==
  ASSUME NEW n \in Nat \ {0}, NEW b \in Nat
  PROVE  /\ b % n = 0 => \E i \in Nat : b = n * i
         /\ \A i \in Nat : (n * i) % n = 0
<1>1. b % n = 0 => b = n * (b \div n)
  <2>1. n \in Nat /\ n > 0
    OBVIOUS
  <2> QED BY <2>1
<1>3. b \div n \in Nat
  <2>1. n \in Nat /\ n > 0
    OBVIOUS
  <2> QED BY <2>1
<1>2. ASSUME NEW i \in Nat PROVE (n * i) % n = 0
  OBVIOUS
<1> QED BY <1>1, <1>2, <1>3

(* The multiples of n below n times k + 1 are those below n times k, and   *)
(* n times k.                                                              *)
LEMMA NextMultiple ==
  ASSUME NEW n \in Nat \ {0}, NEW k \in Nat
  PROVE  /\ n * k \in Nat /\ n * (k + 1) = n * k + n
         /\ {b \in 0 .. n * (k + 1) - 1 : b % n = 0}
              = {b \in 0 .. n * k - 1 : b % n = 0} \cup {n * k}
<1>1. n * k \in Nat /\ n * (k + 1) = n * k + n /\ (n * k) % n = 0
  BY MultipleIs
<1>2. ASSUME NEW b \in 0 .. n * k + n - 1, b % n = 0, b >= n * k
      PROVE  b = n * k
  <2>1. b \in Nat
    BY <1>1
  <2>2. PICK i \in Nat : b = n * i
    BY <1>2, <2>1, MultipleIs
  <2>3. i <= k
    <3>1. CASE i >= k + 1
      <4>1. n * (k + 1) <= n * i
        BY <3>1, ProductGrows
      <4> QED BY <1>1, <1>2, <2>2, <4>1
    <3> QED BY <3>1
  <2>4. n * i <= n * k
    BY <2>3, ProductGrows
  <2> QED BY <1>1, <1>2, <2>2, <2>4
<1> DEFINE m == n * k
<1>3. {b \in 0 .. m + n - 1 : b % n = 0} = {b \in 0 .. m - 1 : b % n = 0} \cup {m}
  <2>1. m \in Nat /\ m % n = 0 /\ \A b \in 0 .. m + n - 1 : b % n = 0 /\ b >= m => b = m
    BY <1>1, <1>2
  <2> HIDE DEF m
  <2> QED BY <2>1
<1> QED BY <1>1, <1>3

(* What is rounded down to a multiple of n is not 0 from n on.             *)
LEMMA RoundedDown ==
  ASSUME NEW n \in Nat, n > 0, NEW x \in Nat, x >= n
  PROVE  (x \div n) * n \in Nat \ {0}
<1>1. x = (x \div n) * n + (x % n) /\ x \div n \in Nat /\ x % n \in 0 .. n - 1
  BY Division
<1> DEFINE d == x \div n
<1>2. d * n \in Nat
  <2> HIDE DEF d
  <2>1. d \in Nat
    BY <1>1 DEF d
  <2> QED BY <2>1
<1> QED BY <1>1, <1>2

(* The size of a block is rounded up, so it is never 0.                    *)
LEMMA BlockSize ==
  ASSUME NEW size \in BlockSizes
  PROVE  MINSZ(size) \in Nat \ {0}
<1>1. size \in Nat \ {0} /\ MINSIZE \in Nat \ {0}
  BY FixedMemoryPoolAssumption
<1>2. size + MINSIZE - 1 \in Nat /\ size + MINSIZE - 1 >= MINSIZE /\ MINSIZE > 0
  BY <1>1
<1> QED BY <1>1, <1>2, RoundedDown DEF MINSZ

(* What a queue is when an entry has been put in front.                    *)
LEMMA QueuePush ==
  ASSUME NEW S, NEW q \in Queue(S), NEW t \in S \ ToSet(q)
  PROVE  /\ <<t>> \o q \in Queue(S)
         /\ ToSet(<<t>> \o q) = ToSet(q) \cup {t}
         /\ Len(<<t>> \o q) = Len(q) + 1
<1>q. /\ q \in Seq(S) /\ Len(q) \in Nat /\ ToSet(q) = {q[j] : j \in 1 .. Len(q)}
      /\ \A j, k \in 1 .. Len(q) : q[j] = q[k] => j = k
  BY QueueEntries
<1> DEFINE r == <<t>> \o q
<1>1. /\ r \in Seq(S) /\ Len(r) = Len(q) + 1
      /\ \A j \in 1 .. Len(q) + 1 : r[j] = IF j = 1 THEN t ELSE q[j - 1]
  BY <1>q
<1> HIDE DEF r
<1>2. \A j \in 1 .. Len(q) : q[j] # t
  BY <1>q
<1>3. ASSUME NEW j \in 1 .. Len(r), NEW k \in 1 .. Len(r), r[j] = r[k] PROVE j = k
  <2>a. ASSUME NEW i \in 1 .. Len(r), i # 1 PROVE r[i] # t
    <3>1. i - 1 \in 1 .. Len(q) /\ r[i] = q[i - 1]
      BY <1>q, <1>1, <2>a
    <3> QED BY <1>2, <3>1
  <2>b. 1 \in 1 .. Len(r) /\ r[1] = t
    BY <1>q, <1>1
  <2>1. CASE j = 1 \/ k = 1
    BY <1>3, <2>1, <2>a, <2>b
  <2>2. CASE j # 1 /\ k # 1
    <3>1. j - 1 \in 1 .. Len(q) /\ k - 1 \in 1 .. Len(q) /\ q[j - 1] = q[k - 1]
      BY <1>q, <1>1, <1>3, <2>2
    <3> QED BY <1>q, <1>1, <3>1
  <2> QED BY <2>1, <2>2
<1>4. r \in Queue(S) /\ ToSet(r) = {r[j] : j \in 1 .. Len(r)}
  BY <1>1, <1>3, QueueFromEntries
<1>5. ASSUME NEW k \in 1 .. Len(q) PROVE q[k] \in ToSet(r)
  <2>1. k + 1 \in 1 .. Len(r) /\ k + 1 - 1 = k /\ k + 1 # 1
    BY <1>q, <1>1
  <2>2. r[k + 1] = q[k]
    BY <1>1, <2>1
  <2> QED BY <1>4, <2>1, <2>2
<1>6. t \in ToSet(r)
  BY <1>q, <1>1, <1>4
<1>7. ASSUME NEW j \in 1 .. Len(r) PROVE r[j] \in ToSet(q) \cup {t}
  BY <1>q, <1>1
<1>8. ToSet(r) = ToSet(q) \cup {t}
  <2>1. ToSet(r) \subseteq ToSet(q) \cup {t}
    BY <1>4, <1>7
  <2>2. ToSet(q) \cup {t} \subseteq ToSet(r)
    BY <1>q, <1>5, <1>6
  <2> QED BY <2>1, <2>2
<1> QED BY <1>1, <1>4, <1>8 DEF r

(* What a pool keeps: cnt blocks of siz bytes, total bytes in all, free of *)
(* them not lent, the first never lent, the list of those given back, and  *)
(* the blocks that the program has.                                        *)
Multiples(n, end) == {b \in 0 .. end - 1 : b % n = 0}

PoolOK(cnt, siz, total, free, first, list, blocks) ==
  /\ cnt \in BlockCounts /\ siz \in {MINSZ(size) : size \in BlockSizes}
  /\ total = siz * cnt
  /\ \E k \in 0 .. cnt : first = siz * k /\ free = Len(list) + (cnt - k)
  /\ list \in Queue(Nat)
  /\ blocks \in SUBSET Nat /\ IsFiniteSet(blocks)
  /\ ToSet(list) \cap blocks = {}
  /\ ToSet(list) \cup blocks = Multiples(siz, first)
  /\ free + Cardinality(blocks) = cnt

(* The numbers of a pool.                                                  *)
LEMMA PoolNumbers ==
  ASSUME NEW cnt, NEW siz, NEW total, NEW free, NEW first, NEW list, NEW blocks,
         PoolOK(cnt, siz, total, free, first, list, blocks)
  PROVE  /\ cnt \in Nat \ {0} /\ siz \in Nat \ {0} /\ total \in Nat
         /\ first \in 0 .. total /\ free \in 0 .. cnt /\ Len(list) \in Nat
         /\ Cardinality(blocks) \in Nat
         /\ \A b \in ToSet(list) \cup blocks : b \in 0 .. first - 1 /\ b + siz <= total
         /\ list = << >> /\ first >= total => free = 0
         /\ list # << >> \/ first < total => free >= 1
<1>1. cnt \in Nat \ {0} /\ siz \in Nat \ {0}
  BY BlockSize, FixedMemoryPoolAssumption DEF PoolOK
<1>2. PICK k \in 0 .. cnt : first = siz * k /\ free = Len(list) + (cnt - k)
  BY DEF PoolOK
<1>3. total = siz * cnt /\ list \in Seq(Nat) /\ Len(list) \in Nat /\ IsFiniteSet(blocks)
      /\ free + Cardinality(blocks) = cnt /\ ToSet(list) \cup blocks = Multiples(siz, first)
  BY QueueEntries DEF PoolOK
<1>4. Cardinality(blocks) \in Nat
  BY <1>3, FS_CardinalityType
<1>5. siz * k \in Nat /\ siz * cnt \in Nat /\ siz * k <= siz * cnt /\ k \in Nat
  <2>1. k \in Nat /\ k <= cnt
    BY <1>1
  <2>2. siz * k \in Nat /\ siz * cnt \in Nat
    BY <1>1, <2>1
  <2> QED BY <1>1, <2>1, <2>2, ProductGrows
<1>6. ASSUME NEW b \in Multiples(siz, first)
      PROVE  b \in 0 .. first - 1 /\ b + siz <= total
  <2>1. b \in 0 .. first - 1 /\ b % siz = 0 /\ b \in Nat
    BY <1>2, <1>5 DEF Multiples
  <2>2. PICK i \in Nat : b = siz * i
    BY <1>1, <2>1, MultipleIs
  <2>3. i + 1 <= k
    <3>1. CASE k <= i
      <4>1. siz * k <= siz * i
        BY <1>1, <1>5, <3>1, ProductGrows
      <4> QED BY <1>2, <1>5, <2>1, <2>2, <4>1
    <3> QED BY <1>5, <3>1
  <2>4. siz * (i + 1) <= siz * k
    BY <1>1, <1>5, <2>3, ProductGrows
  <2>5. siz * (i + 1) = b + siz
    BY <1>1, <2>2, NextMultiple
  <2>6. b + siz <= siz * k
    BY <2>4, <2>5
  <2>7. b + siz \in Nat
    BY <1>1, <2>1
  <2> QED BY <1>3, <1>5, <2>1, <2>6, <2>7
<1>7. free \in 0 .. cnt
  BY <1>1, <1>2, <1>3, <1>4
<1>8. first < total => k < cnt
  BY <1>1, <1>2, <1>3, <1>5
<1>9. first >= total => k = cnt
  <2>1. CASE k + 1 <= cnt
    <3>1. siz * (k + 1) <= siz * cnt
      BY <1>1, <1>5, <2>1, ProductGrows
    <3>2. siz * (k + 1) = siz * k + siz
      BY <1>1, <1>5, NextMultiple
    <3> QED BY <1>1, <1>2, <1>3, <1>5, <3>1, <3>2
  <2> QED BY <1>1, <2>1
<1>10. list # << >> => Len(list) >= 1
  BY <1>3
<1> QED BY <1>1, <1>2, <1>3, <1>4, <1>5, <1>6, <1>7, <1>8, <1>9, <1>10

(* A pool is created with all its blocks free.                             *)
LEMMA PoolCreated ==
  ASSUME NEW cnt \in BlockCounts, NEW size \in BlockSizes
  PROVE  PoolOK(cnt, MINSZ(size), MINSZ(size) * cnt, cnt, 0, << >>, {})
<1>1. cnt \in Nat \ {0} /\ MINSZ(size) \in Nat \ {0}
  BY BlockSize, FixedMemoryPoolAssumption
<1>2. \E k \in 0 .. cnt : 0 = MINSZ(size) * k /\ cnt = Len(<< >>) + (cnt - k)
  <2>1. 0 = MINSZ(size) * 0 /\ cnt = Len(<< >>) + (cnt - 0) /\ 0 \in 0 .. cnt
    BY <1>1
  <2> QED BY <2>1
<1>3. << >> \in Queue(Nat) /\ ToSet(<< >>) = {}
  BY DEF Queue, IsInjective, ToSet
<1>4. Multiples(MINSZ(size), 0) = {}
  BY DEF Multiples
<1>5. IsFiniteSet({}) /\ Cardinality({}) = 0
  BY FS_EmptySet
<1>6. cnt + 0 = cnt
  BY <1>1
<1>7. MINSZ(size) \in {MINSZ(s) : s \in BlockSizes}
  OBVIOUS
<1>8. ToSet(<< >>) \cup {} = Multiples(MINSZ(size), 0) /\ ToSet(<< >>) \cap {} = {}
  BY <1>3, <1>4
<1> HIDE DEF Multiples
<1> QED BY <1>2, <1>3, <1>5, <1>6, <1>7, <1>8 DEF PoolOK

(* A block is taken from the list.                                         *)
LEMMA PoolTakesListed ==
  ASSUME NEW cnt, NEW siz, NEW total, NEW free, NEW first, NEW list, NEW blocks,
         PoolOK(cnt, siz, total, free, first, list, blocks), list # << >>
  PROVE  PoolOK(cnt, siz, total, free - 1, first, Tail(list), blocks \cup {Head(list)})
<1> DEFINE h == Head(list)
<1>1. /\ Tail(list) \in Queue(Nat) /\ h \in ToSet(list)
      /\ ToSet(Tail(list)) = ToSet(list) \ {h}
      /\ Len(Tail(list)) = Len(list) - 1 /\ Len(list) \in Nat \ {0}
  BY QueueTail DEF PoolOK
<1>2. cnt \in Nat \ {0} /\ siz \in Nat \ {0} /\ free \in 0 .. cnt /\ Cardinality(blocks) \in Nat
  BY PoolNumbers
<1>3. h \in Nat /\ h \notin blocks
  BY <1>1, QueueEntries DEF PoolOK, ToSet
<1> HIDE DEF h
<1>4. IsFiniteSet(blocks \cup {h}) /\ Cardinality(blocks \cup {h}) = Cardinality(blocks) + 1
  BY <1>3, FS_AddElement DEF PoolOK
<1>5. PICK k \in 0 .. cnt : first = siz * k /\ free = Len(list) + (cnt - k)
  BY DEF PoolOK
<1>6. free - 1 = Len(Tail(list)) + (cnt - k)
  BY <1>1, <1>2, <1>5
<1>7. free - 1 + Cardinality(blocks \cup {h}) = cnt
  BY <1>2, <1>4 DEF PoolOK
<1>8. /\ ToSet(Tail(list)) \cap (blocks \cup {h}) = {}
      /\ ToSet(Tail(list)) \cup (blocks \cup {h}) = ToSet(list) \cup blocks
      /\ blocks \cup {h} \in SUBSET Nat
  BY <1>1, <1>3 DEF PoolOK
<1> QED BY <1>1, <1>4, <1>5, <1>6, <1>7, <1>8 DEF PoolOK, h

(* The first block that was never lent is taken.                           *)
LEMMA PoolTakesNew ==
  ASSUME NEW cnt, NEW siz, NEW total, NEW free, NEW first, NEW list, NEW blocks,
         PoolOK(cnt, siz, total, free, first, list, blocks), first < total
  PROVE  PoolOK(cnt, siz, total, free - 1, first + siz, list, blocks \cup {first})
<1>2. /\ cnt \in Nat \ {0} /\ siz \in Nat \ {0} /\ free \in 0 .. cnt /\ Cardinality(blocks) \in Nat
      /\ first \in Nat /\ Len(list) \in Nat
      /\ \A b \in ToSet(list) \cup blocks : b \in 0 .. first - 1
  BY PoolNumbers
<1>3. first \notin blocks /\ first \notin ToSet(list)
  BY <1>2
<1>4. IsFiniteSet(blocks \cup {first}) /\ Cardinality(blocks \cup {first}) = Cardinality(blocks) + 1
  BY <1>3, FS_AddElement DEF PoolOK
<1>5. PICK k \in 0 .. cnt : first = siz * k /\ free = Len(list) + (cnt - k)
  BY DEF PoolOK
<1>6. k \in Nat /\ k + 1 \in 0 .. cnt
  <2>1. CASE k = cnt
    BY <1>5, <2>1 DEF PoolOK
  <2> QED BY <1>2, <2>1
<1>7. /\ first + siz = siz * (k + 1)
      /\ Multiples(siz, first + siz) = Multiples(siz, first) \cup {first}
  BY <1>2, <1>5, <1>6, NextMultiple DEF Multiples
<1>8. free - 1 = Len(list) + (cnt - (k + 1))
  BY <1>2, <1>5, <1>6
<1>9. free - 1 + Cardinality(blocks \cup {first}) = cnt
  BY <1>2, <1>4 DEF PoolOK
<1>10. /\ ToSet(list) \cap (blocks \cup {first}) = {}
       /\ ToSet(list) \cup (blocks \cup {first}) = Multiples(siz, first + siz)
       /\ blocks \cup {first} \in SUBSET Nat
  BY <1>2, <1>3, <1>7 DEF PoolOK
<1> HIDE DEF Multiples
<1> QED BY <1>4, <1>6, <1>7, <1>8, <1>9, <1>10 DEF PoolOK

(* A block is given back.                                                  *)
LEMMA PoolGetsBack ==
  ASSUME NEW cnt, NEW siz, NEW total, NEW free, NEW first, NEW list, NEW blocks,
         PoolOK(cnt, siz, total, free, first, list, blocks), NEW blf \in blocks
  PROVE  PoolOK(cnt, siz, total, free + 1, first, <<blf>> \o list, blocks \ {blf})
<1>1. /\ <<blf>> \o list \in Queue(Nat) /\ blf \notin ToSet(list)
      /\ ToSet(<<blf>> \o list) = ToSet(list) \cup {blf}
      /\ Len(<<blf>> \o list) = Len(list) + 1
  BY QueuePush DEF PoolOK
<1>2. /\ cnt \in Nat \ {0} /\ siz \in Nat \ {0} /\ free \in 0 .. cnt /\ Cardinality(blocks) \in Nat
      /\ Len(list) \in Nat
  BY PoolNumbers
<1>4. IsFiniteSet(blocks \ {blf}) /\ Cardinality(blocks \ {blf}) = Cardinality(blocks) - 1
  BY FS_RemoveElement DEF PoolOK
<1>5. PICK k \in 0 .. cnt : first = siz * k /\ free = Len(list) + (cnt - k)
  BY DEF PoolOK
<1>6. free + 1 = Len(<<blf>> \o list) + (cnt - k)
  BY <1>1, <1>2, <1>5
<1>7. free + 1 + Cardinality(blocks \ {blf}) = cnt
  BY <1>2, <1>4 DEF PoolOK
<1>8. /\ ToSet(<<blf>> \o list) \cap (blocks \ {blf}) = {}
      /\ ToSet(<<blf>> \o list) \cup (blocks \ {blf}) = ToSet(list) \cup blocks
      /\ blocks \ {blf} \in SUBSET Nat
  BY <1>1 DEF PoolOK
<1> QED BY <1>1, <1>4, <1>5, <1>6, <1>7, <1>8 DEF PoolOK

(* What the pools keep, and that all blocks are lent while a task waits.   *)
NoneLeft(p) == p \in mpfs /\ freelist[p] = << >> /\ unused[p] >= mpfsz[p]

MpfWaits == \A p \in Mpf : wait_tskid(p) # NoTask => NoneLeft(p)

Pools ==
  \A p \in mpfs : PoolOK(mpfcnt[p], blfsz[p], mpfsz[p], frbcnt[p], unused[p], freelist[p], lent[p])

MpfTypes ==
  /\ mpfs \in SUBSET Mpf
  /\ mpfcnt \in [Mpf -> Int] /\ blfsz \in [Mpf -> Int] /\ mpfsz \in [Mpf -> Int]
  /\ frbcnt \in [Mpf -> Int] /\ unused \in [Mpf -> Int]
  /\ freelist \in [Mpf -> Seq(Nat)] /\ lent \in [Mpf -> SUBSET Nat]

MpfInv == MpfTypes /\ Pools /\ MpfWaits

(* A sequence whose entries are in a set is a sequence over the set.       *)
LEMMA SeqOver ==
  ASSUME NEW S, NEW q \in Seq(S), NEW R, ToSet(q) \subseteq R
  PROVE  q \in Seq(R)
<1>1. Len(q) \in Nat /\ q = [i \in 1 .. Len(q) |-> q[i]] /\ \A i \in 1 .. Len(q) : q[i] \in R
  BY DEF ToSet
<1> QED BY <1>1

(* The pools are what the runs check.                                      *)
LEMMA PoolsSay ==
  ASSUME IInv, MpfInv
  PROVE  MpfTypeOK /\ EveryBlockOnce /\ NoBlockWhileWaiting
<1> DEFINE OK(p) == PoolOK(mpfcnt[p], blfsz[p], mpfsz[p], frbcnt[p], unused[p], freelist[p], lent[p])
<1>1. ASSUME NEW p \in mpfs
      PROVE  /\ mpfcnt[p] \in BlockCounts /\ blfsz[p] \in {MINSZ(size) : size \in BlockSizes}
             /\ frbcnt[p] \in 0 .. mpfcnt[p] /\ unused[p] \in 0 .. mpfsz[p]
             /\ freelist[p] \in Seq(0 .. mpfsz[p])
             /\ IsInjective(freelist[p]) /\ ToSet(freelist[p]) \cap lent[p] = {}
             /\ ToSet(freelist[p]) \cup lent[p] = {b \in 0 .. unused[p] - 1 : b % blfsz[p] = 0}
             /\ \A b \in lent[p] : b + blfsz[p] <= mpfsz[p]
             /\ frbcnt[p] + Cardinality(lent[p]) = mpfcnt[p]
             /\ freelist[p] = << >> /\ unused[p] >= mpfsz[p] => frbcnt[p] = 0
             /\ mpfcnt[p] \in Nat /\ Cardinality(lent[p]) \in Nat
  <2>1. OK(p)
    BY DEF MpfInv, Pools
  <2>2. /\ unused[p] \in 0 .. mpfsz[p] /\ frbcnt[p] \in 0 .. mpfcnt[p]
        /\ mpfsz[p] \in Nat /\ mpfcnt[p] \in Nat /\ Cardinality(lent[p]) \in Nat
        /\ \A b \in ToSet(freelist[p]) \cup lent[p] :
             b \in 0 .. unused[p] - 1 /\ b + blfsz[p] <= mpfsz[p]
        /\ freelist[p] = << >> /\ unused[p] >= mpfsz[p] => frbcnt[p] = 0
    BY <2>1, PoolNumbers
  <2>3. ToSet(freelist[p]) \subseteq 0 .. mpfsz[p]
    BY <2>2
  <2>4. freelist[p] \in Seq(Nat) /\ IsInjective(freelist[p])
    BY <2>1 DEF PoolOK, Queue
  <2>5. freelist[p] \in Seq(0 .. mpfsz[p])
    BY <2>3, <2>4, SeqOver
  <2> QED BY <2>1, <2>2, <2>4, <2>5 DEF PoolOK, Multiples
<1>2. MpfTypeOK
  BY <1>1 DEF MpfTypeOK, MpfInv, MpfTypes, IInv
<1>3. EveryBlockOnce
  BY <1>1 DEF EveryBlockOnce
<1>4. ASSUME NEW p \in Mpf, wait_tskid(p) # NoTask
      PROVE  p \in mpfs /\ ref_mpf(p).frbcnt = 0 /\ Cardinality(lent[p]) = mpfcnt[p]
  <2>1. p \in mpfs /\ freelist[p] = << >> /\ unused[p] >= mpfsz[p]
    BY <1>4 DEF MpfInv, MpfWaits, NoneLeft
  <2>2. frbcnt[p] = 0 /\ Cardinality(lent[p]) = mpfcnt[p]
    BY <1>1, <2>1
  <2> QED BY <2>1, <2>2 DEF ref_mpf
<1> QED BY <1>2, <1>3, <1>4 DEF NoBlockWhileWaiting

(* Nobody waits for a block that a call gives back or takes.               *)
LEMMA MpfWaitsKept ==
  ASSUME IInv, IInv', MpfWaits, NobodyComes(Gcb),
         \A p \in Mpf : wait_tskid(p)' # NoTask /\ NoneLeft(p) => NoneLeft(p)'
  PROVE  MpfWaits'
<1>1. ASSUME NEW p \in Mpf, wait_tskid(p)' # NoTask PROVE NoneLeft(p)'
  <2>1. wait_tskid(p) # NoTask
    BY <1>1, StaysEmpty, FixedMemoryPoolAssumption
  <2> QED BY <1>1, <2>1 DEF MpfWaits
<1> QED BY <1>1 DEF MpfWaits

(* The steps that are none of a pool's.                                    *)
LEMMA MpfOtherKeeps ==
  ASSUME IInv, MpfInv, [Next]_vars, UNCHANGED mpfvars
  PROVE  IInv' /\ (Sorted => Sorted') /\ KeepsTurns /\ MpfInv'
<1>1. IInv' /\ (Sorted => Sorted') /\ KeepsTurns /\ NobodyComes(Gcb)
  BY TaskStepKeeps
<1>2. MpfWaits'
  <2>1. \A p \in Mpf : NoneLeft(p) => NoneLeft(p)'
    BY DEF NoneLeft, mpfvars
  <2> QED BY <1>1, <2>1, MpfWaitsKept DEF MpfInv
<1>3. Pools'
  BY DEF MpfInv, Pools, mpfvars
<1> QED BY <1>1, <1>2, <1>3 DEF MpfInv, MpfTypes, mpfvars

(* A block is taken.                                                       *)
LEMMA TakenBlock ==
  ASSUME MpfInv, NEW p \in mpfs, take_block(p), frbcnt' = [frbcnt EXCEPT ![p] = @ - 1],
         UNCHANGED <<mpfs, mpfcnt, blfsz, mpfsz>>
  PROVE  /\ MpfTypes' /\ Pools'
         /\ frbcnt[p] >= 1 /\ ~NoneLeft(p)
         /\ \A r \in Mpf \ {p} : NoneLeft(r) => NoneLeft(r)'
<1>t. MpfTypes /\ Pools /\ p \in Mpf
  BY DEF MpfInv, MpfTypes
<1>p. PoolOK(mpfcnt[p], blfsz[p], mpfsz[p], frbcnt[p], unused[p], freelist[p], lent[p])
  BY <1>t DEF Pools
<1>n. /\ unused[p] \in Nat /\ mpfsz[p] \in Nat /\ blfsz[p] \in Nat /\ frbcnt[p] \in Int
      /\ freelist[p] # << >> \/ unused[p] < mpfsz[p] => frbcnt[p] >= 1
      /\ \A b \in ToSet(freelist[p]) : b \in Nat
  BY <1>p, PoolNumbers
<1>1. ASSUME PoolOK(mpfcnt[p], blfsz[p], mpfsz[p], frbcnt[p] - 1, unused'[p], freelist'[p], lent'[p]),
             MpfTypes', \A r \in Mpf \ {p} : /\ unused'[r] = unused[r] /\ freelist'[r] = freelist[r]
                                             /\ lent'[r] = lent[r]
      PROVE  Pools' /\ \A r \in Mpf \ {p} : NoneLeft(r) => NoneLeft(r)'
  <2>1. \A r \in mpfs \ {p} : frbcnt'[r] = frbcnt[r]
    BY <1>t DEF MpfTypes
  <2>2. frbcnt'[p] = frbcnt[p] - 1
    BY <1>t DEF MpfTypes
  <2>3. ASSUME NEW r \in mpfs
        PROVE  PoolOK(mpfcnt[r], blfsz[r], mpfsz[r], frbcnt'[r], unused'[r], freelist'[r], lent'[r])
    <3>1. CASE r = p
      BY <1>1, <2>2, <3>1
    <3>2. CASE r # p
      <4>1. r \in Mpf \ {p}
        BY <1>t, <3>2 DEF MpfTypes
      <4> QED BY <1>1, <1>t, <2>1, <3>2, <4>1 DEF Pools
    <3> QED BY <3>1, <3>2
  <2> QED BY <1>1, <2>3 DEF Pools, NoneLeft
<1>2. CASE freelist[p] # << >>
  <2>1. /\ lent' = [lent EXCEPT ![p] = @ \cup {Head(freelist[p])}]
        /\ freelist' = [freelist EXCEPT ![p] = Tail(@)] /\ UNCHANGED unused
    BY <1>2 DEF take_block
  <2>2. PoolOK(mpfcnt[p], blfsz[p], mpfsz[p], frbcnt[p] - 1, unused[p], Tail(freelist[p]),
               lent[p] \cup {Head(freelist[p])})
    BY <1>p, <1>2, PoolTakesListed
  <2>3. Tail(freelist[p]) \in Seq(Nat) /\ lent[p] \cup {Head(freelist[p])} \in SUBSET Nat
    BY <2>2 DEF PoolOK, Queue
  <2>4. MpfTypes'
    BY <1>t, <1>n, <2>1, <2>3 DEF MpfTypes
  <2>5. /\ unused'[p] = unused[p] /\ freelist'[p] = Tail(freelist[p])
        /\ lent'[p] = lent[p] \cup {Head(freelist[p])}
        /\ \A r \in Mpf \ {p} : /\ unused'[r] = unused[r] /\ freelist'[r] = freelist[r]
                                /\ lent'[r] = lent[r]
    BY <1>t, <2>1 DEF MpfTypes
  <2>6. Pools' /\ \A r \in Mpf \ {p} : NoneLeft(r) => NoneLeft(r)'
    BY <1>1, <2>2, <2>4, <2>5
  <2> QED BY <1>n, <1>2, <2>4, <2>6 DEF NoneLeft
<1>3. CASE freelist[p] = << >>
  <2>1. /\ unused[p] < mpfsz[p]
        /\ lent' = [lent EXCEPT ![p] = @ \cup {unused[p]}]
        /\ unused' = [unused EXCEPT ![p] = @ + blfsz[p]]
        /\ UNCHANGED freelist
    BY <1>3 DEF take_block
  <2>2. PoolOK(mpfcnt[p], blfsz[p], mpfsz[p], frbcnt[p] - 1, unused[p] + blfsz[p], freelist[p],
               lent[p] \cup {unused[p]})
    BY <1>p, <2>1, PoolTakesNew
  <2>3. unused[p] + blfsz[p] \in Int /\ lent[p] \cup {unused[p]} \in SUBSET Nat
    BY <1>n, <2>2 DEF PoolOK
  <2>4. MpfTypes'
    BY <1>t, <1>n, <2>1, <2>3 DEF MpfTypes
  <2>5. /\ unused'[p] = unused[p] + blfsz[p] /\ freelist'[p] = freelist[p]
        /\ lent'[p] = lent[p] \cup {unused[p]}
        /\ \A r \in Mpf \ {p} : /\ unused'[r] = unused[r] /\ freelist'[r] = freelist[r]
                                /\ lent'[r] = lent[r]
    BY <1>t, <2>1 DEF MpfTypes
  <2>6. Pools' /\ \A r \in Mpf \ {p} : NoneLeft(r) => NoneLeft(r)'
    BY <1>1, <2>2, <2>4, <2>5
  <2> QED BY <1>n, <2>1, <2>4, <2>6 DEF NoneLeft
<1> QED BY <1>2, <1>3

(* The calls of fixed-length memory pools.                                 *)
LEMMA MpfCallKeeps ==
  ASSUME IInv, MpfInv, MpfCall
  PROVE  IInv' /\ (Sorted => Sorted') /\ KeepsTurns /\ MpfInv'
<1>a. PICK p \in Mpf :
        \/ \E count \in BlockCounts, size \in BlockSizes : cre_mpf(p, count, size)
        \/ del_mpf(p)
        \/ pget_blf(p)
        \/ \E timed \in BOOLEAN : tget_blf(p, timed)
        \/ \E blf \in lent[p] : rel_blf(p, blf)
  BY DEF MpfCall
<1>g. p \in Gcb /\ Mpf \subseteq Gcb
  BY FixedMemoryPoolAssumption
<1>t. MpfTypes /\ Pools /\ MpfWaits
  BY DEF MpfInv
<1>1. CASE \E count \in BlockCounts, size \in BlockSizes : cre_mpf(p, count, size)
  <2>1. PICK count \in BlockCounts, size \in BlockSizes : cre_mpf(p, count, size)
    BY <1>1
  <2>2. IInv' /\ (Sorted => Sorted') /\ KeepsTurns /\ NobodyComes(Gcb)
    BY <2>1, TaskStepKeeps DEF cre_mpf
  <2>3. PoolOK(count, MINSZ(size), MINSZ(size) * count, count, 0, << >>, {})
    BY PoolCreated
  <2>4. count \in Int /\ MINSZ(size) \in Int /\ MINSZ(size) * count \in Int
    BY BlockSize, FixedMemoryPoolAssumption
  <2>5. MpfTypes'
    BY <1>t, <2>1, <2>4 DEF MpfTypes, cre_mpf
  <2>6. ASSUME NEW r \in mpfs'
        PROVE  PoolOK(mpfcnt'[r], blfsz'[r], mpfsz'[r], frbcnt'[r], unused'[r], freelist'[r], lent'[r])
    <3>1. CASE r = p
      BY <1>t, <2>1, <2>3, <3>1 DEF MpfTypes, cre_mpf
    <3>2. CASE r # p
      BY <1>t, <2>1, <2>6, <3>2 DEF MpfTypes, cre_mpf, Pools
    <3> QED BY <3>1, <3>2
  <2>7. Pools'
    BY <2>6 DEF Pools
  <2>8. MpfWaits'
    <3>1. p \notin mpfs
      BY <2>1 DEF cre_mpf
    <3>2. ASSUME NEW r \in Mpf, NoneLeft(r) PROVE NoneLeft(r)'
      BY <1>t, <2>1, <3>1, <3>2 DEF NoneLeft, MpfTypes, cre_mpf
    <3> QED BY <1>t, <2>2, <3>2, MpfWaitsKept
  <2> QED BY <2>2, <2>5, <2>7, <2>8 DEF MpfInv
<1>2. CASE del_mpf(p)
  <2>1. /\ IInv' /\ (Sorted => Sorted') /\ KeepsTurns /\ NobodyComes(Gcb)
        /\ wait_queue'[p] = << >>
    BY <1>2, <1>g, DeleteKeeps DEF del_mpf, UNCHANGEDcalls
  <2>2. MpfTypes' /\ Pools'
    BY <1>2, <1>t DEF del_mpf, MpfTypes, Pools
  <2>3. MpfWaits'
    <3>1. \A r \in Mpf : wait_tskid(r)' # NoTask /\ NoneLeft(r) => NoneLeft(r)'
      BY <1>2, <2>1 DEF del_mpf, NoneLeft, wait_tskid
    <3> QED BY <1>t, <2>1, <3>1, MpfWaitsKept
  <2> QED BY <2>1, <2>2, <2>3 DEF MpfInv
<1>3. CASE pget_blf(p)
  <2>1. IInv' /\ (Sorted => Sorted') /\ KeepsTurns /\ NobodyComes(Gcb)
    BY <1>3, TaskStepKeeps DEF pget_blf
  <2>2. /\ MpfTypes' /\ Pools' /\ ~NoneLeft(p)
        /\ \A r \in Mpf \ {p} : NoneLeft(r) => NoneLeft(r)'
    BY <1>3, TakenBlock DEF pget_blf
  <2>3. MpfWaits'
    BY <1>t, <2>1, <2>2, MpfWaitsKept
  <2> QED BY <2>1, <2>2, <2>3 DEF MpfInv
<1>4. CASE \E timed \in BOOLEAN : tget_blf(p, timed)
  <2>0. PICK timed \in BOOLEAN : tget_blf(p, timed)
    BY <1>4
  <2>1. gcb_make_wait(p, timed) /\ UNCHANGED mpfvars /\ UNCHANGEDcalls /\ NoneLeft(p)
    BY <2>0 DEF tget_blf, UNCHANGEDcalls, NoneLeft
  <2>2. IInv' /\ (Sorted => Sorted') /\ KeepsTurns /\ NobodyComes(Gcb \ {p})
    BY <1>g, <2>0, <2>1, WaitKeeps DEF tget_blf
  <2>3. ASSUME NEW r \in Mpf, wait_tskid(r)' # NoTask
        PROVE  NoneLeft(r)'
    <3>1. CASE r = p
      BY <2>1, <3>1 DEF mpfvars, NoneLeft
    <3>2. CASE r # p
      <4>1. wait_tskid(r) # NoTask
        <5>1. r \in Gcb \ {p} /\ Gcb \ {p} \in SUBSET Gcb
          BY <1>g, <3>2
        <5> QED BY <2>2, <2>3, <5>1, StaysEmpty
      <4> QED BY <1>t, <2>1, <4>1 DEF MpfWaits, NoneLeft, mpfvars
    <3> QED BY <3>1, <3>2
  <2>4. MpfTypes' /\ Pools'
    BY <1>t, <2>1 DEF MpfTypes, Pools, mpfvars
  <2> QED BY <2>2, <2>3, <2>4 DEF MpfInv, MpfWaits
<1>5. CASE \E blf \in lent[p] : rel_blf(p, blf)
  <2>0. PICK blf \in lent[p] : rel_blf(p, blf)
    BY <1>5
  <2>1. CASE wait_queue[p] # << >>
    <3>1. UNCHANGED mpfvars
      BY <2>0, <2>1 DEF rel_blf, mpfvars
    <3>2. Next
      BY <1>g, <2>0, <2>1, FirstReleased DEF rel_blf, UNCHANGEDcalls
    <3> QED BY <3>1, <3>2, MpfOtherKeeps
  <2>2. CASE wait_queue[p] = << >>
    <3>1. UNCHANGED vars /\ p \in mpfs /\ UNCHANGED <<mpfs, mpfcnt, blfsz, mpfsz, unused>>
      BY <2>0, <2>2
         DEF rel_blf, vars, taskvars, cpuvars, countvars, privars, schedvars, waitvars
    <3>2. /\ freelist' = [freelist EXCEPT ![p] = <<blf>> \o @]
          /\ frbcnt' = [frbcnt EXCEPT ![p] = @ + 1]
          /\ lent' = [lent EXCEPT ![p] = @ \ {blf}]
      BY <2>0, <2>2 DEF rel_blf
    <3>3. IInv' /\ (Sorted => Sorted') /\ KeepsTurns /\ NobodyComes(Gcb)
      BY <3>1, TaskStepKeeps
    <3>4. PoolOK(mpfcnt[p], blfsz[p], mpfsz[p], frbcnt[p] + 1, unused[p], <<blf>> \o freelist[p],
                 lent[p] \ {blf})
      BY <1>t, <3>1, PoolGetsBack DEF Pools
    <3>5. <<blf>> \o freelist[p] \in Seq(Nat)
      BY <3>4 DEF PoolOK, Queue
    <3>6. MpfTypes'
      BY <1>t, <3>1, <3>2, <3>5 DEF MpfTypes
    <3>7. ASSUME NEW r \in mpfs'
          PROVE  PoolOK(mpfcnt'[r], blfsz'[r], mpfsz'[r], frbcnt'[r], unused'[r], freelist'[r], lent'[r])
      <4>1. CASE r = p
        BY <1>t, <3>1, <3>2, <3>4, <4>1 DEF MpfTypes
      <4>2. CASE r # p
        BY <1>t, <3>1, <3>2, <3>7, <4>2 DEF MpfTypes, Pools
      <4> QED BY <4>1, <4>2
    <3>8. Pools'
      BY <3>7 DEF Pools
    <3>9. MpfWaits'
      <4>1. wait_tskid(p)' = NoTask
        BY <2>2, <3>1 DEF wait_tskid, vars, taskvars, waitvars
      <4>2. \A r \in Mpf : wait_tskid(r)' # NoTask /\ NoneLeft(r) => NoneLeft(r)'
        BY <1>t, <3>1, <3>2, <4>1 DEF NoneLeft, MpfTypes
      <4> QED BY <1>t, <3>3, <4>2, MpfWaitsKept
    <3> QED BY <3>3, <3>6, <3>8, <3>9 DEF MpfInv
  <2> QED BY <2>1, <2>2
<1> QED BY <1>a, <1>1, <1>2, <1>3, <1>4, <1>5

(* The task management that Units is built on is the one of the pools:     *)
(* every name means the same in both.                                      *)
LEMMA UnitsNext == (Units!Next <=> Next) /\ (Units!Init <=> Init)
  BY DEF taskvars, Units!taskvars, cpuvars, Units!cpuvars, countvars,
         Units!countvars, privars, Units!privars, waitvars, Units!waitvars,
         schedvars, Units!schedvars, vars, Units!vars, Priority,
         Units!Priority, ready_queue_initialize,
         Units!ready_queue_initialize, ready_queue_top,
         Units!ready_queue_top, ready_queue_insert,
         Units!ready_queue_insert, bitmap_search, Units!bitmap_search,
         ready_queue_delete, Units!ready_queue_delete, ready_queue_rotate,
         Units!ready_queue_rotate, queue_delete, Units!queue_delete,
         queue_insert, Units!queue_insert, queue_search_gt,
         Units!queue_search_gt, TS_WAIT, Units!TS_WAIT, TS_SUSPEND,
         Units!TS_SUSPEND, task_alive, Units!task_alive, waiting,
         Units!waiting, reschedule, Units!reschedule, make_ready,
         Units!make_ready, make_non_ready, Units!make_non_ready, set_state,
         Units!set_state, queue_insert_tpri, Units!queue_insert_tpri,
         gcb_change_priority, Units!gcb_change_priority,
         change_task_priority, Units!change_task_priority,
         rotate_ready_queue, Units!rotate_ready_queue, make_dormant,
         Units!make_dormant, make_non_wait, Units!make_non_wait,
         wait_cancel, Units!wait_cancel, wait_release, Units!wait_release,
         make_wait, Units!make_wait, gcb_make_wait, Units!gcb_make_wait,
         made_ready, Units!made_ready, wait_ended, Units!wait_ended,
         release_walk, Units!release_walk, wait_release_those,
         Units!wait_release_those, wait_release_all, Units!wait_release_all,
         wait_delete, Units!wait_delete, in_loc, Units!in_loc, in_ddsp,
         Units!in_ddsp, dispatch_enabled, Units!dispatch_enabled, in_task,
         Units!in_task, caller, Units!caller, nonself, Units!nonself,
         RemoveFirst, Units!RemoveFirst, SelectInSeq, Units!SelectInSeq,
         RemoveAt, Units!RemoveAt, Min, Units!Min, InsertAt, Units!InsertAt,
         ToSet, Units!ToSet, cre_tsk, Units!cre_tsk, del_tsk, Units!del_tsk,
         sta_tsk, Units!sta_tsk, _ter_tsk, Units!_ter_tsk, force_dispatch,
         Units!force_dispatch, ext_tsk, Units!ext_tsk, exd_tsk,
         Units!exd_tsk, ter_tsk, Units!ter_tsk, chg_pri, Units!chg_pri,
         rot_rdq, Units!rot_rdq, rot_rdq_run, Units!rot_rdq_run, rel_wai,
         Units!rel_wai, sus_tsk, Units!sus_tsk, resume, Units!resume,
         rsm_tsk, Units!rsm_tsk, frsm_tsk, Units!frsm_tsk, tslp_tsk,
         Units!tslp_tsk, wup_tsk, Units!wup_tsk, can_wup, Units!can_wup,
         dly_tsk, Units!dly_tsk, dis_dsp, Units!dis_dsp, ena_dsp,
         Units!ena_dsp, loc_cpu, Units!loc_cpu, unl_cpu, Units!unl_cpu,
         chg_ipm, Units!chg_ipm, dispatch, Units!dispatch, interrupt,
         Units!interrupt, ret_int, Units!ret_int, timer_handler,
         Units!timer_handler, TaskCall, Units!TaskCall, SelfCall,
         Units!SelfCall, CpuStep, Units!CpuStep, Next, Units!Next, Init,
         Units!Init

(* So do the names that the calls of semaphores use.                       *)
LEMMA UnitsCalls ==
  ASSUME NEW g \in Gcb, NEW timed
  PROVE  /\ Units!wait_delete(g) <=> wait_delete(g)
         /\ Units!gcb_make_wait(g, timed) <=> gcb_make_wait(g, timed)
         /\ \A t : Units!wait_release(t) <=> wait_release(t)
         /\ (Units!caller <=> caller) /\ (Units!in_task <=> in_task)
         /\ (Units!in_ddsp <=> in_ddsp)
         /\ (UNCHANGED Units!countvars <=> UNCHANGED countvars)
         /\ (UNCHANGED Units!privars <=> UNCHANGED privars)
         /\ (UNCHANGED Units!cpuvars <=> UNCHANGED cpuvars)
         /\ (UNCHANGED Units!schedvars <=> UNCHANGED schedvars)
         /\ (UNCHANGED Units!waitvars <=> UNCHANGED waitvars)
         /\ (UNCHANGED Units!vars <=> UNCHANGED vars)
  BY DEF taskvars, Units!taskvars, cpuvars, Units!cpuvars, countvars,
         Units!countvars, privars, Units!privars, waitvars, Units!waitvars,
         schedvars, Units!schedvars, vars, Units!vars, Priority,
         Units!Priority, ready_queue_initialize,
         Units!ready_queue_initialize, ready_queue_top,
         Units!ready_queue_top, ready_queue_insert,
         Units!ready_queue_insert, bitmap_search, Units!bitmap_search,
         ready_queue_delete, Units!ready_queue_delete, ready_queue_rotate,
         Units!ready_queue_rotate, queue_delete, Units!queue_delete,
         queue_insert, Units!queue_insert, queue_search_gt,
         Units!queue_search_gt, TS_WAIT, Units!TS_WAIT, TS_SUSPEND,
         Units!TS_SUSPEND, task_alive, Units!task_alive, waiting,
         Units!waiting, reschedule, Units!reschedule, make_ready,
         Units!make_ready, make_non_ready, Units!make_non_ready, set_state,
         Units!set_state, queue_insert_tpri, Units!queue_insert_tpri,
         gcb_change_priority, Units!gcb_change_priority,
         change_task_priority, Units!change_task_priority,
         rotate_ready_queue, Units!rotate_ready_queue, make_dormant,
         Units!make_dormant, make_non_wait, Units!make_non_wait,
         wait_cancel, Units!wait_cancel, wait_release, Units!wait_release,
         make_wait, Units!make_wait, gcb_make_wait, Units!gcb_make_wait,
         made_ready, Units!made_ready, wait_ended, Units!wait_ended,
         release_walk, Units!release_walk, wait_release_those,
         Units!wait_release_those, wait_release_all, Units!wait_release_all,
         wait_delete, Units!wait_delete, in_loc, Units!in_loc, in_ddsp,
         Units!in_ddsp, dispatch_enabled, Units!dispatch_enabled, in_task,
         Units!in_task, caller, Units!caller, nonself, Units!nonself,
         RemoveFirst, Units!RemoveFirst, SelectInSeq, Units!SelectInSeq,
         RemoveAt, Units!RemoveAt, Min, Units!Min, InsertAt, Units!InsertAt,
         ToSet, Units!ToSet

(* A pool is created with no more blocks than Units!MAXSEM.                *)
LEMMA LargestCount ==
  ASSUME NEW count \in BlockCounts
  PROVE  count \in 0 .. (CHOOSE n \in BlockCounts : \A m \in BlockCounts : m <= n)
<1> DEFINE max == CHOOSE n \in BlockCounts : \A m \in BlockCounts : m <= n
<1>1. max \in BlockCounts /\ \A m \in BlockCounts : m <= max
  BY FixedMemoryPoolAssumption
<1> HIDE DEF max
<1>2. count \in Nat /\ max \in Nat /\ count <= max
  BY <1>1, FixedMemoryPoolAssumption
<1>3. count \in 0 .. max
  BY <1>2
<1> QED BY <1>3 DEF max

(* The calls of pools are calls of semaphores whose units are free blocks. *)
LEMMA MpfCallServes ==
  ASSUME IInv, MpfInv, MpfCall
  PROVE  PoolStep
<1>a. PICK p \in Mpf :
        \/ \E count \in BlockCounts, size \in BlockSizes : cre_mpf(p, count, size)
        \/ del_mpf(p)
        \/ pget_blf(p)
        \/ \E timed \in BOOLEAN : tget_blf(p, timed)
        \/ \E blf \in lent[p] : rel_blf(p, blf)
  BY DEF MpfCall
<1>g. p \in Gcb
  BY FixedMemoryPoolAssumption
<1>t. MpfTypes /\ Pools
  BY DEF MpfInv
<1>c. ASSUME \/ \E isemcnt \in 0 .. (CHOOSE n \in BlockCounts : \A m \in BlockCounts : m <= n),
                  max \in 0 .. (CHOOSE n \in BlockCounts : \A m \in BlockCounts : m <= n) :
                  Units!cre_sem(p, isemcnt, max)
             \/ Units!del_sem(p) \/ Units!sig_sem(p)
             \/ \E timed \in BOOLEAN : Units!twai_sem(p, timed)
      PROVE  PoolStep
  BY <1>c DEF PoolStep, Units!SemNext, Units!SemCall
<1>1. CASE \E count \in BlockCounts, size \in BlockSizes : cre_mpf(p, count, size)
  <2>1. PICK count \in BlockCounts, size \in BlockSizes : cre_mpf(p, count, size)
    BY <1>1
  <2>2. Units!cre_sem(p, count, count)
    <3>1. count <= count
      BY FixedMemoryPoolAssumption
    <3> QED BY <1>g, <2>1, <3>1, UnitsCalls DEF cre_mpf, Units!cre_sem
  <2> QED BY <1>c, <2>2, LargestCount
<1>2. CASE del_mpf(p)
  <2>1. Units!del_sem(p)
    BY <1>2, <1>g, UnitsCalls DEF del_mpf, Units!del_sem
  <2> QED BY <1>c, <2>1
<1>3. CASE pget_blf(p)
  <2>1. frbcnt[p] >= 1
    BY <1>3, TakenBlock DEF pget_blf
  <2>2. /\ caller /\ p \in mpfs /\ frbcnt' = [frbcnt EXCEPT ![p] = @ - 1]
        /\ UNCHANGED <<mpfs, mpfcnt, vars>>
    BY <1>3 DEF pget_blf
  <2>3. CASE in_ddsp
    <3>1. polled(p)
      BY <2>1, <2>2, <2>3 DEF polled
    <3> QED BY <2>2, <3>1 DEF PoolStep
  <2>4. CASE ~in_ddsp
    <3>1. in_task
      BY <2>2, <2>4 DEF caller, in_ddsp, in_loc
    <3>2. Units!twai_sem(p, FALSE)
      BY <1>g, <2>1, <2>2, <2>4, <3>1, UnitsCalls
         DEF Units!twai_sem, vars, taskvars, cpuvars, countvars, privars, schedvars, waitvars
    <3> QED BY <1>c, <3>2
  <2> QED BY <2>3, <2>4
<1>4. CASE \E timed \in BOOLEAN : tget_blf(p, timed)
  <2>1. PICK timed \in BOOLEAN : tget_blf(p, timed)
    BY <1>4
  <2>2. p \in mpfs /\ freelist[p] = << >> /\ unused[p] >= mpfsz[p]
    BY <2>1 DEF tget_blf
  <2>3. frbcnt[p] = 0
    BY <1>t, <2>2, PoolNumbers DEF Pools
  <2>4. Units!twai_sem(p, timed)
    BY <1>g, <2>1, <2>3, UnitsCalls DEF tget_blf, mpfvars, Units!twai_sem
  <2> QED BY <1>c, <2>4
<1>5. CASE \E blf \in lent[p] : rel_blf(p, blf)
  <2>1. PICK blf \in lent[p] : rel_blf(p, blf)
    BY <1>5
  <2>2. p \in mpfs
    BY <2>1 DEF rel_blf
  <2>3. frbcnt[p] < mpfcnt[p]
    <3>1. PoolOK(mpfcnt[p], blfsz[p], mpfsz[p], frbcnt[p], unused[p], freelist[p], lent[p])
      BY <1>t, <2>2 DEF Pools
    <3>2. PoolOK(mpfcnt[p], blfsz[p], mpfsz[p], frbcnt[p] + 1, unused[p], <<blf>> \o freelist[p],
                 lent[p] \ {blf})
      BY <3>1, PoolGetsBack
    <3> QED BY <3>1, <3>2, PoolNumbers
  <2>4. Units!sig_sem(p)
    <3>1. CASE wait_queue[p] # << >>
      BY <1>g, <2>1, <2>2, <3>1, UnitsCalls DEF rel_blf, Units!sig_sem
    <3>2. CASE wait_queue[p] = << >>
      BY <1>g, <2>1, <2>2, <2>3, <3>2, UnitsCalls DEF rel_blf, Units!sig_sem
    <3> QED BY <3>1, <3>2
  <2> QED BY <1>c, <2>4
<1> QED BY <1>a, <1>1, <1>2, <1>3, <1>4, <1>5

(* So are the other steps, which the pools have no part in.                *)
LEMMA MpfOtherServes ==
  ASSUME [Next]_vars, UNCHANGED mpfvars
  PROVE  PoolStep
<1>1. CASE Next
  BY <1>1, UnitsNext DEF PoolStep, Units!SemNext, Units!semvars, mpfvars
<1>2. CASE UNCHANGED vars
  BY <1>2 DEF PoolStep, mpfvars
<1> QED BY <1>1, <1>2

-----------------------------------------------------------------------------
(***************************************************************************)
(* Event flags.                                                            *)
(***************************************************************************)
(* Nobody waits for a condition that holds, as a condition on one task.    *)
Unsatisfied(f, t) == f \in flgs /\ ~eventflag_cond(flgptn[f], winfo[t])

FlgWaits == \A f \in Flg : \A t \in ToSet(wait_queue[f]) : Unsatisfied(f, t)

FlgTypes ==
  /\ flgs \in SUBSET Flg /\ flgptn \in [Flg -> Pattern] /\ winfo \in [Task -> WaitFor]

FlgInv == FlgTypes /\ FlgWaits /\ SingleWaiter

(* What the step of ConsumedOnce says: of the tasks that leave the queue   *)
(* of a flag that stays, only the last may clear the pattern.              *)
ConsumesOnce ==
  \A f \in flgs \cap flgs' : \A i, j \in DOMAIN wait_queue[f] :
    LET left == ToSet(wait_queue[f]) \ ToSet(wait_queue'[f])
    IN  i < j /\ {wait_queue[f][i], wait_queue[f][j]} \subseteq left
          => ~winfo[wait_queue[f][i]].clr

(* The flags are what the runs check.                                      *)
LEMMA FlagsSay ==
  ASSUME IInv, FlgInv
  PROVE  FlgTypeOK /\ NoSatisfiedWaiter /\ SingleWaiter
<1>1. ASSUME NEW f \in Flg, NEW t \in ToSet(wait_queue[f])
      PROVE  /\ f \in flgs /\ ref_flg(f).wtsk \in ToSet(wait_queue[f])
             /\ ~eventflag_cond(ref_flg(f).flgptn, winfo[t])
  <2>1. f \in flgs /\ ~eventflag_cond(flgptn[f], winfo[t])
    BY DEF FlgInv, FlgWaits, Unsatisfied
  <2>2. wait_tskid(f) \in ToSet(wait_queue[f])
    BY FirstWaits, EventFlagAssumption
  <2> QED BY <2>1, <2>2 DEF ref_flg
<1> QED BY <1>1 DEF FlgInv, FlgTypes, FlgTypeOK, NoSatisfiedWaiter, IInv

(* A queue with entries of a queue of at most one is as short.             *)
LEMMA ShortQueue ==
  ASSUME NEW q \in Queue(Task), NEW r \in Queue(Task), ToSet(r) \subseteq ToSet(q), Len(q) <= 1
  PROVE  Len(r) <= 1
<1>1. /\ Len(q) \in Nat /\ ToSet(q) = {q[j] : j \in 1 .. Len(q)}
      /\ Len(r) \in Nat /\ ToSet(r) = {r[j] : j \in 1 .. Len(r)}
      /\ \A j, k \in 1 .. Len(r) : r[j] = r[k] => j = k
  BY QueueEntries
<1>2. ASSUME Len(r) >= 2 PROVE FALSE
  <2>1. 1 \in 1 .. Len(r) /\ 2 \in 1 .. Len(r)
    BY <1>1, <1>2
  <2>2. r[1] \in ToSet(q) /\ r[2] \in ToSet(q)
    BY <1>1, <2>1
  <2>3. \A j \in 1 .. Len(q) : j = 1
    BY <1>1
  <2>4. r[1] = r[2]
    BY <1>1, <2>2, <2>3
  <2> QED BY <1>1, <2>1, <2>4
<1> QED BY <1>1, <1>2

(* No pattern without bits satisfies a condition, and none with fewer bits *)
(* satisfies one that the pattern does not.                                *)
LEMMA Conditions ==
  ASSUME NEW w \in WaitFor, NEW ptn, NEW fewer, fewer \subseteq ptn
  PROVE  /\ ~eventflag_cond({}, w)
         /\ eventflag_cond(fewer, w) => eventflag_cond(ptn, w)
  BY DEF eventflag_cond, WaitFor

(* A call that nobody begins to wait in and that makes no condition true.  *)
LEMMA FlgWaitsKept ==
  ASSUME IInv, IInv', FlgInv, FlgTypes', NobodyComes(Gcb),
         \A f \in Flg : \A t \in ToSet(wait_queue'[f]) : Unsatisfied(f, t) => Unsatisfied(f, t)'
  PROVE  FlgInv'
<1>1. FlgWaits'
  BY EventFlagAssumption DEF FlgInv, FlgWaits, NobodyComes
<1>2. ASSUME NEW f \in Flg \ TaWmul PROVE Len(wait_queue'[f]) <= 1
  <2>1. f \in Gcb /\ wait_queue[f] \in Queue(Task) /\ wait_queue'[f] \in Queue(Task)
    BY EventFlagAssumption DEF IInv, TypeOK, WaitInv, WaitQueues, Queue
  <2> QED BY <2>1, ShortQueue DEF FlgInv, SingleWaiter, NobodyComes
<1> QED BY <1>1, <1>2 DEF FlgInv, SingleWaiter

(* One task management call ends at most one wait.                         *)
LEMMA NextEndsOne ==
  ASSUME IInv, [Next]_vars, NEW g \in Gcb,
         NEW t \in ToSet(wait_queue[g]) \ ToSet(wait_queue'[g]),
         NEW u \in ToSet(wait_queue[g]) \ ToSet(wait_queue'[g])
  PROVE  t = u
<1>1. /\ IInv' /\ t \in Task /\ u \in Task
      /\ wspec[t] = g /\ wspec[u] = g /\ wspec'[t] # g /\ wspec'[u] # g
  <2>1. IInv'
    BY StepInv
  <2> QED BY <2>1 DEF IInv, WaitInv, WaitQueues
<1>2. wspec \in [Task -> Gcb \cup {"none", "slp", "dly", "tmb", "rdv"}]
  BY DEF IInv, TypeOK
<1>3. \E v : \A x \in Task \ {v} : wspec'[x] = wspec[x]
  <2>e. ASSUME NEW v, NEW w, wspec' = [wspec EXCEPT ![v] = w]
        PROVE  \E y : \A x \in Task \ {y} : wspec'[x] = wspec[x]
    BY <1>2, <2>e
  <2>1. CASE TaskCall
    <3>1. PICK v \in Task, pri \in Priority : CallOn(v, pri)
      BY <2>1, TaskManagementAssumption DEF TaskCall, CallOn
    <3>2. UNCHANGED wspec \/ wait_cancel(v)
      BY <3>1 DEF CallOn, del_tsk, sta_tsk, ter_tsk, _ter_tsk, rel_wai, sus_tsk, rsm_tsk, frsm_tsk,
           wup_tsk, can_wup, timer_handler, cre_tsk, chg_pri, wait_release, waitvars
    <3> QED BY <2>e, <3>2 DEF wait_cancel
  <2>2. CASE SelfCall
    <3>1. UNCHANGED wspec \/ wait_cancel(ctxtsk) \/ \E w : wspec' = [wspec EXCEPT ![ctxtsk] = w]
      BY <2>2 DEF SelfCall, ext_tsk, exd_tsk, _ter_tsk, dly_tsk, rot_rdq_run, tslp_tsk, rot_rdq,
           make_wait, waitvars
    <3> QED BY <2>e, <3>1 DEF wait_cancel
  <2>3. CASE CpuStep \/ UNCHANGED vars
    BY <2>3, CpuStepTasks DEF vars, taskvars, waitvars
  <2> QED BY <2>1, <2>2, <2>3 DEF Next
<1> QED BY <1>1, <1>3

(* So the steps that are none of a flag's consume at most one event.       *)
LEMMA FlgOtherKeeps ==
  ASSUME IInv, FlgInv, [Next]_vars, UNCHANGED flgvars
  PROVE  IInv' /\ (Sorted => Sorted') /\ KeepsTurns /\ FlgInv' /\ ConsumesOnce
<1>1. IInv' /\ (Sorted => Sorted') /\ KeepsTurns /\ NobodyComes(Gcb)
  BY TaskStepKeeps
<1>2. FlgInv'
  <2>1. FlgTypes'
    BY DEF FlgInv, FlgTypes, flgvars
  <2>2. \A f, t : Unsatisfied(f, t) => Unsatisfied(f, t)'
    BY DEF Unsatisfied, flgvars
  <2> QED BY <1>1, <2>1, <2>2, FlgWaitsKept
<1>3. ASSUME NEW f \in flgs, NEW i \in DOMAIN wait_queue[f], NEW j \in DOMAIN wait_queue[f], i < j,
             {wait_queue[f][i], wait_queue[f][j]} \subseteq ToSet(wait_queue[f]) \ ToSet(wait_queue'[f])
      PROVE  FALSE
  <2>1. f \in Gcb /\ wait_queue[f] \in Queue(Task)
    BY EventFlagAssumption DEF FlgInv, FlgTypes, IInv, TypeOK, WaitInv, WaitQueues, Queue
  <2>2. wait_queue[f][i] = wait_queue[f][j]
    BY <1>3, <2>1, NextEndsOne
  <2> QED BY <1>3, <2>1, <2>2, QueueEntries
<1> QED BY <1>1, <1>2, <1>3 DEF ConsumesOnce

(* Where nobody leaves the queue of a flag that stays no event is consumed.*)
LEMMA NobodyConsumes ==
  ASSUME \A f \in flgs \cap flgs' : ToSet(wait_queue[f]) \subseteq ToSet(wait_queue'[f])
  PROVE  ConsumesOnce
  BY DEF ConsumesOnce

(* set_flg releases the waiters whose condition holds, up to the first of  *)
(* them that clears the pattern.                                           *)
LEMMA SetFlgKeeps ==
  ASSUME IInv, FlgInv, NEW f \in Flg, NEW setptn \in Pattern, set_flg(f, setptn)
  PROVE  IInv' /\ (Sorted => Sorted') /\ KeepsTurns /\ FlgInv' /\ ConsumesOnce
<1> DEFINE ptn       == flgptn[f] \cup setptn
           queue     == wait_queue[f]
           satisfied == {i \in DOMAIN queue : eventflag_cond(ptn, winfo[queue[i]])}
           clearing  == {i \in satisfied : winfo[queue[i]].clr}
           walked    == {i \in satisfied : \A j \in clearing : i <= j}
           W         == {queue[i] : i \in walked}
<1>1. /\ wait_release_those(queue, W) /\ flgptn' = [flgptn EXCEPT ![f] = IF clearing = {} THEN ptn ELSE {}]
      /\ f \in flgs /\ UNCHANGED <<flgs, winfo, countvars, privars, cpuvars>>
  BY DEF set_flg
<1>2. /\ f \in Gcb /\ queue \in Queue(Task) /\ DOMAIN queue = 1 .. Len(queue)
      /\ ToSet(queue) = {queue[i] : i \in DOMAIN queue}
      /\ \A i, j \in DOMAIN queue : queue[i] = queue[j] => i = j
      /\ \A t \in ToSet(queue) : t \in Task /\ waiting(t) /\ wspec[t] = f
  <2>1. f \in Gcb
    BY EventFlagAssumption
  <2>2. queue \in Queue(Task) /\ \A t \in Task : t \in ToSet(queue) <=> wspec[t] = f
    BY <2>1, InWaitQueue DEF IInv, WaitInv
  <2>3. \A t \in ToSet(queue) : t \in Task
    BY <2>2, QueueEntries
  <2>4. \A t \in ToSet(queue) : waiting(t)
    BY <2>1, <2>2, <2>3, TaskCoreAssumption DEF IInv, WaitInv
  <2>5. DOMAIN queue = 1 .. Len(queue)
    BY <2>2 DEF Queue
  <2> QED BY <2>1, <2>2, <2>3, <2>4, <2>5, QueueEntries
<1>3. W \subseteq ToSet(queue)
  BY <1>2
<1>4. /\ IInv' /\ \A g \in Gcb : Thinned(wait_queue[g], wait_queue'[g])
      /\ \A g \in Gcb : ToSet(wait_queue'[g]) = ToSet(wait_queue[g]) \ W
  <2> HIDE DEF W, queue
  <2>1. W \in SUBSET ToSet(queue) /\ \A t \in W : waiting(t) /\ wspec[t] \in Gcb
    BY <1>2, <1>3
  <2> QED BY <1>1, <1>2, <2>1, WaitReleaseThose
<1>5. (Sorted => Sorted') /\ KeepsTurns /\ NobodyComes(Gcb)
  BY <1>1, <1>4, ReleaseKeeps DEF UNCHANGEDcalls
<1>6. FlgTypes /\ f \in Flg /\ ptn \in Pattern /\ \A t \in Task : winfo[t] \in WaitFor
  BY DEF FlgInv, FlgTypes, Pattern
<1>7. FlgTypes' /\ flgptn'[f] = (IF clearing = {} THEN ptn ELSE {})
      /\ \A h \in Flg \ {f} : flgptn'[h] = flgptn[h]
  <2>1. (IF clearing = {} THEN ptn ELSE {}) \in Pattern
    BY <1>6 DEF Pattern
  <2> HIDE DEF ptn, clearing
  <2> QED BY <1>1, <1>6, <2>1 DEF FlgTypes
<1>8. ASSUME NEW t \in ToSet(wait_queue'[f]) PROVE ~eventflag_cond(flgptn'[f], winfo'[t])
  <2>1. t \in ToSet(queue) /\ t \notin W /\ t \in Task
    BY <1>2, <1>4
  <2>2. CASE clearing # {}
    <3>1. flgptn'[f] = {} /\ winfo' = winfo
      BY <1>1, <1>7, <2>2
    <3>2. winfo[t] \in WaitFor
      BY <1>6, <2>1
    <3>3. ~eventflag_cond({}, winfo[t])
      BY <3>2, Conditions
    <3> QED BY <3>1, <3>3
  <2>3. CASE clearing = {}
    <3>1. walked = satisfied
      BY <2>3
    <3>2. PICK i \in DOMAIN queue : t = queue[i]
      BY <1>2, <2>1
    <3>3. i \notin satisfied
      BY <2>1, <3>1, <3>2
    <3>4. ~eventflag_cond(ptn, winfo[t])
      BY <3>2, <3>3
    <3> QED BY <1>1, <1>7, <2>3, <3>4
  <2> QED BY <2>2, <2>3
<1>9. FlgInv'
  <2>1. ASSUME NEW h \in Flg, NEW t \in ToSet(wait_queue'[h]), Unsatisfied(h, t) PROVE Unsatisfied(h, t)'
    <3>1. CASE h = f
      BY <1>1, <1>8, <2>1, <3>1 DEF Unsatisfied
    <3>2. CASE h # f
      BY <1>1, <1>7, <2>1, <3>2 DEF Unsatisfied
    <3> QED BY <3>1, <3>2
  <2> QED BY <1>4, <1>5, <1>7, <2>1, FlgWaitsKept
<1>10. ASSUME NEW h \in flgs, NEW i \in DOMAIN wait_queue[h], NEW j \in DOMAIN wait_queue[h], i < j,
              wait_queue[h][i] \notin ToSet(wait_queue'[h]), wait_queue[h][j] \notin ToSet(wait_queue'[h]),
              wait_queue[h][i] \in ToSet(wait_queue[h]), wait_queue[h][j] \in ToSet(wait_queue[h])
       PROVE  ~winfo[wait_queue[h][i]].clr
  <2>1. h \in Gcb /\ wait_queue[h][i] \in W /\ wait_queue[h][j] \in W
    BY <1>4, <1>6, <1>10, EventFlagAssumption DEF FlgTypes
  <2>2. h = f
    <3>1. wait_queue[h][i] \in Task /\ wspec[wait_queue[h][i]] = f
      BY <1>2, <1>3, <2>1
    <3>2. wspec[wait_queue[h][i]] = h
      BY <1>10, <2>1, <3>1, InWaitQueue DEF IInv, WaitInv
    <3> QED BY <3>1, <3>2
  <2>3. i \in walked /\ j \in walked
    <3>1. ASSUME NEW k \in DOMAIN queue, queue[k] \in W PROVE k \in walked
      <4>1. PICK n \in walked : queue[k] = queue[n]
        BY <3>1
      <4>2. n \in DOMAIN queue
        BY <4>1
      <4> QED BY <1>2, <3>1, <4>1, <4>2
    <3> QED BY <1>10, <2>1, <2>2, <3>1
  <2>4. i \notin clearing
    <3>1. i \in Int /\ j \in Int
      BY <1>2, <1>10, <2>2
    <3>2. \A k \in clearing : j <= k
      BY <2>3
    <3>3. i < j
      BY <1>10
    <3> HIDE DEF clearing
    <3> QED BY <3>1, <3>2, <3>3
  <2> QED BY <2>2, <2>3, <2>4
<1>11. ConsumesOnce
  BY <1>10 DEF ConsumesOnce
<1> QED BY <1>4, <1>5, <1>9, <1>11

(* The calls of event flags.                                               *)
LEMMA FlgCallKeeps ==
  ASSUME IInv, FlgInv, FlgCall
  PROVE  IInv' /\ (Sorted => Sorted') /\ KeepsTurns /\ FlgInv' /\ ConsumesOnce
<1>a. PICK f \in Flg :
        \/ del_flg(f)
        \/ \E ptn \in Pattern : cre_flg(f, ptn) \/ set_flg(f, ptn) \/ clr_flg(f, ptn)
        \/ \E w \in WaitFor, timed \in BOOLEAN : twai_flg(f, w, timed)
  BY DEF FlgCall
<1>g. f \in Gcb /\ Flg \subseteq Gcb /\ f \notin TaTpri
  BY EventFlagAssumption
<1>t. FlgTypes /\ FlgWaits /\ SingleWaiter /\ \A t \in Task : winfo[t] \in WaitFor
  BY DEF FlgInv, FlgTypes
<1>q. ASSUME IInv PROVE \A h \in Flg : \A t \in ToSet(wait_queue[h]) : t \in Task
  BY <1>g DEF IInv, WaitInv, WaitQueues
<1>q2. ASSUME IInv' PROVE \A h \in Flg : \A t \in ToSet(wait_queue'[h]) : t \in Task
  BY <1>g, <1>q2 DEF IInv, WaitInv, WaitQueues
<1>1. CASE del_flg(f)
  <2>1. /\ IInv' /\ (Sorted => Sorted') /\ KeepsTurns /\ NobodyComes(Gcb)
        /\ wait_queue'[f] = << >>
    BY <1>1, <1>g, DeleteKeeps DEF del_flg, UNCHANGEDcalls
  <2>2. ToSet(wait_queue'[f]) = {}
    BY <2>1 DEF ToSet
  <2>3. FlgTypes'
    BY <1>1, <1>t DEF del_flg, FlgTypes
  <2>4. ASSUME NEW h \in Flg, NEW t \in ToSet(wait_queue'[h]), Unsatisfied(h, t) PROVE Unsatisfied(h, t)'
    BY <1>1, <2>2, <2>4 DEF del_flg, Unsatisfied
  <2>5. FlgInv'
    BY <2>1, <2>3, <2>4, FlgWaitsKept
  <2>6. \A h \in Gcb \ {f} : ToSet(wait_queue'[h]) = ToSet(wait_queue[h])
    BY <1>1, <1>g, WaitDelete DEF del_flg
  <2>7. ConsumesOnce
    BY <1>1, <1>g, <1>t, <2>6, NobodyConsumes DEF del_flg, FlgTypes
  <2> QED BY <2>1, <2>5, <2>7
<1>2. CASE \E ptn \in Pattern : cre_flg(f, ptn)
  <2>0. PICK ptn \in Pattern : cre_flg(f, ptn)
    BY <1>2
  <2>1. IInv' /\ (Sorted => Sorted') /\ KeepsTurns /\ NobodyComes(Gcb)
    BY <2>0, TaskStepKeeps DEF cre_flg
  <2>2. FlgTypes'
    BY <2>0, <1>t DEF cre_flg, FlgTypes
  <2>3. ASSUME NEW h \in Flg, NEW t \in ToSet(wait_queue'[h]), Unsatisfied(h, t) PROVE Unsatisfied(h, t)'
    BY <2>0, <1>t, <2>3 DEF cre_flg, Unsatisfied, FlgTypes
  <2>4. FlgInv'
    BY <2>1, <2>2, <2>3, FlgWaitsKept
  <2>5. ConsumesOnce
    BY <2>0, NobodyConsumes DEF cre_flg, vars, taskvars, waitvars
  <2> QED BY <2>1, <2>4, <2>5
<1>3. CASE \E ptn \in Pattern : set_flg(f, ptn)
  BY <1>3, SetFlgKeeps
<1>4. CASE \E ptn \in Pattern : clr_flg(f, ptn)
  <2>0. PICK ptn \in Pattern : clr_flg(f, ptn)
    BY <1>4
  <2>1. IInv' /\ (Sorted => Sorted') /\ KeepsTurns /\ NobodyComes(Gcb)
    BY <2>0, TaskStepKeeps DEF clr_flg
  <2>2. FlgTypes'
    BY <2>0, <1>t DEF clr_flg, FlgTypes, Pattern
  <2>3. ASSUME NEW h \in Flg, NEW t \in ToSet(wait_queue'[h]), Unsatisfied(h, t) PROVE Unsatisfied(h, t)'
    <3>1. flgptn'[h] \subseteq flgptn[h] /\ UNCHANGED <<flgs, winfo>>
      BY <2>0, <1>t DEF clr_flg, FlgTypes
    <3> QED BY <1>q2, <1>t, <2>1, <2>3, <3>1, Conditions DEF Unsatisfied
  <2>4. FlgInv'
    BY <2>1, <2>2, <2>3, FlgWaitsKept
  <2>5. ConsumesOnce
    BY <2>0, NobodyConsumes DEF clr_flg, vars, taskvars, waitvars
  <2> QED BY <2>1, <2>4, <2>5
<1>5. CASE \E w \in WaitFor, timed \in BOOLEAN : twai_flg(f, w, timed)
  <2>0. PICK w \in WaitFor, timed \in BOOLEAN : twai_flg(f, w, timed)
    BY <1>5
  <2>1. CASE eventflag_cond(flgptn[f], w)
    <3>1. UNCHANGED vars /\ UNCHANGED <<flgs, winfo>>
      BY <2>0, <2>1
         DEF twai_flg, vars, taskvars, cpuvars, countvars, privars, schedvars, waitvars
    <3>2. flgptn' = [flgptn EXCEPT ![f] = IF w.clr THEN {} ELSE @]
      BY <2>0, <2>1 DEF twai_flg
    <3>3. IInv' /\ (Sorted => Sorted') /\ KeepsTurns /\ NobodyComes(Gcb)
      BY <3>1, TaskStepKeeps
    <3>4. FlgTypes'
      BY <1>t, <3>1, <3>2 DEF FlgTypes, Pattern
    <3>5. ASSUME NEW h \in Flg, NEW t \in ToSet(wait_queue'[h]), Unsatisfied(h, t) PROVE Unsatisfied(h, t)'
      <4>1. flgptn'[h] \subseteq flgptn[h]
        BY <1>t, <3>2 DEF FlgTypes
      <4> QED BY <1>q2, <1>t, <3>1, <3>3, <3>5, <4>1, Conditions DEF Unsatisfied
    <3>6. FlgInv'
      BY <3>3, <3>4, <3>5, FlgWaitsKept
    <3>7. ConsumesOnce
      BY <3>1, NobodyConsumes DEF vars, taskvars, waitvars
    <3> QED BY <3>3, <3>6, <3>7
  <2>2. CASE ~eventflag_cond(flgptn[f], w)
    <3>1. /\ gcb_make_wait(f, timed) /\ UNCHANGED <<flgs, flgptn>> /\ UNCHANGEDcalls
          /\ winfo' = [winfo EXCEPT ![ctxtsk] = w] /\ f \in flgs
          /\ f \in TaWmul \/ wait_queue[f] = << >>
      BY <2>0, <2>2 DEF twai_flg, UNCHANGEDcalls
    <3>2. /\ IInv' /\ (Sorted => Sorted') /\ KeepsTurns
          /\ ToSet(wait_queue'[f]) = ToSet(wait_queue[f]) \cup {ctxtsk}
          /\ wait_queue'[f] = Append(wait_queue[f], ctxtsk)
          /\ \A h \in Gcb \ {f} : wait_queue'[h] = wait_queue[h]
      BY <1>g, <2>0, <3>1, WaitKeeps DEF twai_flg
    <3>3. FlgTypes'
      BY <1>t, <3>1 DEF FlgTypes
    <3>4. ASSUME NEW h \in Flg, NEW t \in ToSet(wait_queue'[h]) PROVE Unsatisfied(h, t)'
      <4>t. t \in Task
        BY <1>q2, <3>2, <3>4
      <4>1. CASE t = ctxtsk
        <5>1. h = f
          <6>1. ctxtsk \in ToSet(wait_queue'[f]) /\ h \in Gcb
            BY <1>g, <3>2
          <6>2. ctxtsk \in Task /\ ctxtsk \in ToSet(wait_queue'[h])
            BY <3>4, <4>1, <4>t
          <6>3. WaitQueues'
            BY <3>2 DEF IInv, WaitInv
          <6>4. wspec'[ctxtsk] = f
            BY <1>g, <6>1, <6>2, <6>3 DEF WaitQueues
          <6>5. wspec'[ctxtsk] = h
            BY <6>1, <6>2, <6>3 DEF WaitQueues
          <6> QED BY <6>4, <6>5
        <5>2. winfo'[t] = w
          BY <1>t, <3>1, <4>1, <4>t DEF FlgTypes
        <5> QED BY <2>2, <3>1, <5>1, <5>2 DEF Unsatisfied
      <4>2. CASE t # ctxtsk
        <5>1. t \in ToSet(wait_queue[h])
          BY <1>g, <3>2, <3>4, <4>2
        <5>2. winfo'[t] = winfo[t]
          BY <1>t, <3>1, <4>2, <4>t DEF FlgTypes
        <5> QED BY <1>t, <3>1, <5>1, <5>2 DEF FlgWaits, Unsatisfied
      <4> QED BY <4>1, <4>2
    <3>5. ASSUME NEW h \in Flg \ TaWmul PROVE Len(wait_queue'[h]) <= 1
      <4>1. CASE h = f
        BY <3>1, <3>2, <3>5, <4>1
      <4>2. CASE h # f
        BY <1>g, <1>t, <3>2, <3>5, <4>2 DEF SingleWaiter
      <4> QED BY <4>1, <4>2
    <3>6. FlgInv'
      BY <3>3, <3>4, <3>5 DEF FlgInv, FlgWaits, SingleWaiter
    <3>7. ConsumesOnce
      <4>1. \A h \in Flg : ToSet(wait_queue[h]) \subseteq ToSet(wait_queue'[h])
        BY <1>g, <3>2
      <4> QED BY <1>t, <4>1, NobodyConsumes DEF FlgTypes
    <3> QED BY <3>2, <3>6, <3>7
  <2> QED BY <2>1, <2>2
<1> QED BY <1>a, <1>1, <1>2, <1>3, <1>4, <1>5

(***************************************************************************)
(* Mailboxes and task mailboxes: the linked lists of messages are queues,  *)
(* for every number of messages and of mailboxes, although mq_tail and the *)
(* links of messages that are in no mailbox are stale.  First one list, in *)
(* which next links the messages of a queue from the first one on; then    *)
(* several mailboxes that share the links, and the two kinds of them.      *)
(***************************************************************************)
(* What is at place i of a list, and what follows its end.                 *)
Nth(q, i) == IF i \in 1 .. Len(q) THEN q[i] ELSE NULL

(* The messages of q are linked by next, from first on.                    *)
Chain(next, first, q) ==
  /\ q \in Queue(Msg)
  /\ first = Nth(q, 1)
  /\ \A i \in 1 .. Len(q) : next[q[i]] = Nth(q, i + 1)

Links == [Msg -> Msg \cup {NULL}]

(* The links and the first message once m is linked in at place i.         *)
LinkedIn(next, q, i, m) ==
  IF i = 1 THEN [next EXCEPT ![m] = Nth(q, 1)]
  ELSE [next EXCEPT ![m] = Nth(q, i), ![q[i - 1]] = m]

FirstThen(first, i, m) == IF i = 1 THEN m ELSE first

(* A queue of messages is not longer than there are messages.              *)
LEMMA NotLonger ==
  ASSUME NEW q \in Queue(Msg)
  PROVE  Len(q) <= Cardinality(Msg) /\ Cardinality(Msg) \in Nat
<1>1. /\ q \in Seq(Msg) /\ Len(q) \in Nat /\ \A j \in 1 .. Len(q) : q[j] \in Msg
      /\ \A j, k \in 1 .. Len(q) : q[j] = q[k] => j = k
  BY QueueEntries
<1>2. IsFiniteSet(Msg) /\ Cardinality(Msg) \in Nat
  BY MessageListAssumption, FS_CardinalityType
<1>3. Cardinality(1 .. Len(q)) = Len(q)
  <2>1. Cardinality(1 .. Len(q)) = IF 1 > Len(q) THEN 0 ELSE Len(q) - 1 + 1
    BY <1>1, FS_Interval
  <2> QED BY <1>1, <2>1
<1> DEFINE f == [j \in 1 .. Len(q) |-> q[j]]
<1>4. f \in Injection(1 .. Len(q), Msg)
  BY <1>1 DEF Injection, IsInjective
<1>6. Cardinality(1 .. Len(q)) <= Cardinality(Msg)
  BY <1>2, <1>4, FS_Injection
<1> QED BY <1>1, <1>2, <1>3, <1>6

(* The walk along the links finds the messages that are linked.            *)
LEMMA ChainLinked ==
  ASSUME NEW next \in Links, NEW first, NEW q, Chain(next, first, q)
  PROVE  linked(next, first) = q
<1> DEFINE N     == Cardinality(Msg) + 1
           S     == [Msg \cup {NULL} -> Seq(Msg)]
           start == [m \in Msg \cup {NULL} |-> << >>]
           step  == [n \in 1 .. N |-> [x \in S |->
                       [m \in Msg \cup {NULL} |-> IF m = NULL THEN << >> ELSE <<m>> \o x[next[m]]]]]
           F(g)  == [n \in 0 .. N |-> [m \in Msg \cup {NULL} |->
                       IF m = NULL \/ n = 0 THEN << >> ELSE <<m>> \o g[n - 1][next[m]]]]
           from  == CHOOSE g : g = F(g)
<1>q. /\ q \in Queue(Msg) /\ q \in Seq(Msg) /\ Len(q) \in Nat /\ \A j \in 1 .. Len(q) : q[j] \in Msg
      /\ first = Nth(q, 1) /\ \A i \in 1 .. Len(q) : next[q[i]] = Nth(q, i + 1)
      /\ NULL \notin Msg
  BY QueueEntries, MessageListAssumption DEF Chain
<1>c. Cardinality(Msg) \in Nat /\ N \in Nat /\ Len(q) < N
  BY <1>q, NotLonger
<1>1. \E f \in [0 .. N -> S] : Walks(f, N, start, step)
  <2>1. start \in S
    OBVIOUS
  <2>2. step \in [1 .. N -> [S -> S]]
    <3>1. ASSUME NEW x \in S, NEW m \in Msg
          PROVE  <<m>> \o x[next[m]] \in Seq(Msg)
      <4>1. next[m] \in Msg \cup {NULL}
        BY DEF Links
      <4>2. x[next[m]] \in Seq(Msg)
        BY <4>1
      <4> QED BY <4>2
    <3>2. ASSUME NEW x \in S
          PROVE  [m \in Msg \cup {NULL} |-> IF m = NULL THEN << >> ELSE <<m>> \o x[next[m]]] \in S
      <4>1. \A m \in Msg : <<m>> \o x[next[m]] \in Seq(Msg)
        BY <3>1
      <4> QED BY <4>1
    <3> QED BY <3>2
  <2> HIDE DEF S, start, step, N
  <2> QED BY <1>c, <2>1, <2>2, Walk
<1>2. PICK f \in [0 .. N -> S] : Walks(f, N, start, step)
  BY <1>1
<1>3. f = F(f)
  <2>1. f[0] = start /\ \A n \in 1 .. N : f[n] = step[n][f[n - 1]]
    BY <1>2 DEF Walks
  <2>2. ASSUME NEW n \in 1 .. N
        PROVE  f[n] = [m \in Msg \cup {NULL} |->
                         IF m = NULL \/ n = 0 THEN << >> ELSE <<m>> \o f[n - 1][next[m]]]
    <3>1. n - 1 \in 0 .. N /\ n # 0
      BY <1>c
    <3>2. f[n - 1] \in S
      BY <3>1
    <3>3. f[n] = [m \in Msg \cup {NULL} |-> IF m = NULL THEN << >> ELSE <<m>> \o f[n - 1][next[m]]]
      <4>1. step[n][f[n - 1]] =
              [m \in Msg \cup {NULL} |-> IF m = NULL THEN << >> ELSE <<m>> \o f[n - 1][next[m]]]
        BY <3>2
      <4> HIDE DEF step
      <4> QED BY <2>1, <4>1
    <3> QED BY <3>1, <3>3
  <2>3. f[0] = [m \in Msg \cup {NULL} |->
                  IF m = NULL \/ 0 = 0 THEN << >> ELSE <<m>> \o f[0 - 1][next[m]]]
    BY <2>1
  <2>4. ASSUME NEW n \in 0 .. N
        PROVE  f[n] = [m \in Msg \cup {NULL} |->
                         IF m = NULL \/ n = 0 THEN << >> ELSE <<m>> \o f[n - 1][next[m]]]
    <3>1. n = 0 \/ n \in 1 .. N
      BY <1>c
    <3> QED BY <2>2, <2>3, <3>1
  <2> QED BY <2>4
<1>4. from = F(from)
  <2>1. \E g : g = F(g)
    BY <1>3
  <2> HIDE DEF F
  <2> QED BY <2>1, Zenon
<1> HIDE DEF from
<1>5. ASSUME NEW n \in 0 .. N, NEW i \in 1 .. Len(q) + 1, n + i >= Len(q) + 1
      PROVE  from[n][Nth(q, i)] = SubSeq(q, i, Len(q))
  <2> DEFINE Found(k) == \A j \in 1 .. Len(q) + 1 :
                           k + j >= Len(q) + 1 => from[k][Nth(q, j)] = SubSeq(q, j, Len(q))
             Bad == {k \in 0 .. N : ~Found(k)}
  <2>a. ASSUME NEW k \in 0 .. N, NEW m \in Msg \cup {NULL}
        PROVE  from[k][m] = IF m = NULL \/ k = 0 THEN << >> ELSE <<m>> \o from[k - 1][next[m]]
    <3>1. from[k] = [l \in Msg \cup {NULL} |->
                       IF l = NULL \/ k = 0 THEN << >> ELSE <<l>> \o from[k - 1][next[l]]]
      BY <1>4
    <3> QED BY <3>1
  <2>e. ASSUME NEW k \in 0 .. N
        PROVE  from[k][Nth(q, Len(q) + 1)] = SubSeq(q, Len(q) + 1, Len(q))
    <3>1. Nth(q, Len(q) + 1) = NULL
      BY <1>q DEF Nth
    <3>2. SubSeq(q, Len(q) + 1, Len(q)) = << >>
      BY <1>q
    <3> QED BY <2>a, <3>1, <3>2
  <2>1. ASSUME Bad # {} PROVE FALSE
    <3>1. PICK k \in Bad : \A x \in Bad : k <= x
      <4>1. Bad \in SUBSET Nat
        OBVIOUS
      <4>2. Min(Bad) \in Bad /\ \A x \in Bad : Min(Bad) <= x
        <5> HIDE DEF Bad
        <5> QED BY <2>1, <4>1, MinOfNaturals
      <4> QED BY <4>2
    <3>2. PICK j \in 1 .. Len(q) + 1 : k + j >= Len(q) + 1 /\ from[k][Nth(q, j)] # SubSeq(q, j, Len(q))
      BY <3>1
    <3>3. k \in 0 .. N /\ j # Len(q) + 1
      BY <2>e, <3>1, <3>2
    <3>4. j \in 1 .. Len(q) /\ k # 0 /\ k - 1 \in 0 .. N /\ k \in Nat
      <4>1. j \in Nat /\ Len(q) \in Nat /\ N \in Nat /\ k \in 0 .. N
        BY <1>q, <1>c, <3>3
      <4>2. j \in 1 .. Len(q)
        BY <3>3, <4>1
      <4>3. k # 0
        BY <3>2, <4>1, <4>2
      <4> HIDE DEF N, Bad
      <4> QED BY <4>1, <4>2, <4>3
    <3>5. Nth(q, j) = q[j] /\ q[j] \in Msg /\ q[j] # NULL /\ next[q[j]] = Nth(q, j + 1)
      BY <1>q, <3>4 DEF Nth
    <3>6. from[k][q[j]] = <<q[j]>> \o from[k - 1][Nth(q, j + 1)]
      <4>1. from[k][q[j]] = <<q[j]>> \o from[k - 1][next[q[j]]]
        <5> HIDE DEF N, Bad
        <5> QED BY <2>a, <3>3, <3>4, <3>5
      <4> QED BY <3>5, <4>1
    <3>7. Found(k - 1)
      <4>1. ASSUME k - 1 \in Bad PROVE FALSE
        <5>1. k <= k - 1
          <6> HIDE DEF Bad
          <6> QED BY <3>1, <4>1
        <5> QED BY <3>4, <5>1
      <4> QED BY <3>4, <4>1
    <3>8. from[k - 1][Nth(q, j + 1)] = SubSeq(q, j + 1, Len(q))
      <4>1. j + 1 \in 1 .. Len(q) + 1 /\ k - 1 + (j + 1) >= Len(q) + 1
        BY <1>q, <3>2, <3>4
      <4> HIDE DEF Bad
      <4> QED BY <3>7, <4>1
    <3>9. <<q[j]>> \o SubSeq(q, j + 1, Len(q)) = SubSeq(q, j, Len(q))
      <4>1. Len(q) \in j .. Len(q)
        BY <1>q, <3>4
      <4> QED BY <1>q, <3>4, <4>1, SubSeqRecursiveFirst
    <3> QED BY <3>2, <3>5, <3>6, <3>8, <3>9
  <2>2. Found(n)
    BY <2>1
  <2> HIDE DEF Bad
  <2> QED BY <1>5, <2>2
<1>6. from[N][Nth(q, 1)] = SubSeq(q, 1, Len(q))
  <2>1. N \in 0 .. N /\ 1 \in 1 .. Len(q) + 1 /\ N + 1 >= Len(q) + 1
    BY <1>q, <1>c
  <2> HIDE DEF N
  <2> QED BY <1>5, <2>1
<1>7. SubSeq(q, 1, Len(q)) = q
  BY <1>q
<1> QED BY <1>q, <1>6, <1>7 DEF linked, from

(* Nothing is changed for a list whose messages keep their links.          *)
LEMMA ChainFrame ==
  ASSUME NEW next, NEW first, NEW q, Chain(next, first, q),
         NEW next2, \A m \in ToSet(q) : next2[m] = next[m]
  PROVE  Chain(next2, first, q)
  BY QueueEntries DEF Chain

(* A list is empty if its head is the null pointer.                        *)
LEMMA ChainHead ==
  ASSUME NEW next, NEW first, NEW q, Chain(next, first, q)
  PROVE  /\ q = << >> <=> first = NULL
         /\ q # << >> => first = Head(q) /\ first \in ToSet(q) /\ first \in Msg
         /\ ToSet(q) \subseteq Msg
<1>1. /\ q \in Seq(Msg) /\ Len(q) \in Nat /\ ToSet(q) = {q[j] : j \in 1 .. Len(q)}
      /\ \A j \in 1 .. Len(q) : q[j] \in Msg
  BY QueueEntries DEF Chain
<1>2. first = Nth(q, 1)
  BY DEF Chain
<1>3. CASE q = << >>
  BY <1>1, <1>2, <1>3 DEF Nth
<1>4. CASE q # << >>
  <2>1. 1 \in 1 .. Len(q) /\ q[1] = Head(q)
    BY <1>1, <1>4
  <2>2. first = q[1]
    BY <1>2, <2>1 DEF Nth
  <2> QED BY <1>1, <1>4, <2>1, <2>2, MessageListAssumption
<1> QED BY <1>3, <1>4

(* The list without messages.                                              *)
LEMMA ChainEmpty ==
  ASSUME NEW next
  PROVE  Chain(next, NULL, << >>)
<1>1. << >> \in Queue(Msg)
  BY DEF Queue, IsInjective
<1> QED BY <1>1 DEF Chain, Nth

(* What a queue is once t has been put in at place i.                      *)
Opened(r, q, i, t) ==
  /\ Len(r) = Len(q) + 1
  /\ \A j \in 1 .. Len(q) + 1 :
       r[j] = IF j < i THEN q[j] ELSE IF j = i THEN t ELSE q[j - 1]

LEMMA InsertOpens ==
  ASSUME NEW S, NEW q \in Seq(S), NEW i \in 1 .. Len(q) + 1, NEW t \in S
  PROVE  Opened(InsertAt(q, i, t), q, i, t)
  BY InsertAtEntries DEF Opened

(* A message is linked in at place i.                                      *)
LEMMA ChainInsert ==
  ASSUME NEW next \in Links, NEW first, NEW q, Chain(next, first, q),
         NEW m \in Msg \ ToSet(q), NEW i \in 1 .. Len(q) + 1
  PROVE  /\ LinkedIn(next, q, i, m) \in Links
         /\ Chain(LinkedIn(next, q, i, m), FirstThen(first, i, m), InsertAt(q, i, m))
         /\ ToSet(InsertAt(q, i, m)) = ToSet(q) \cup {m}
         /\ \A n \in Msg \ (ToSet(q) \cup {m}) : LinkedIn(next, q, i, m)[n] = next[n]
<1> DEFINE r     == InsertAt(q, i, m)
           next2 == LinkedIn(next, q, i, m)
<1>l. next2 = IF i = 1 THEN [next EXCEPT ![m] = Nth(q, 1)]
              ELSE [next EXCEPT ![m] = Nth(q, i), ![q[i - 1]] = m]
  BY DEF LinkedIn
<1> HIDE DEF next2
<1>q. /\ q \in Queue(Msg) /\ q \in Seq(Msg) /\ Len(q) \in Nat /\ ToSet(q) = {q[j] : j \in 1 .. Len(q)}
      /\ \A j \in 1 .. Len(q) : q[j] \in Msg /\ q[j] # m
      /\ \A j, k \in 1 .. Len(q) : q[j] = q[k] => j = k
      /\ first = Nth(q, 1) /\ \A j \in 1 .. Len(q) : next[q[j]] = Nth(q, j + 1)
  <2>1. q \in Queue(Msg)
    BY DEF Chain
  <2> QED BY <2>1, QueueEntries DEF Chain
<1>r. /\ r \in Queue(Msg) /\ ToSet(r) = ToSet(q) \cup {m}
      /\ Len(r) = Len(q) + 1
      /\ \A j \in 1 .. Len(q) + 1 :
           r[j] = IF j < i THEN q[j] ELSE IF j = i THEN m ELSE q[j - 1]
  <2>1. r \in Queue(Msg) /\ ToSet(r) = ToSet(q) \cup {m}
    BY <1>q, QueueInsert DEF queue_insert
  <2>2. m \in Msg
    OBVIOUS
  <2>3. /\ Len(r) = Len(q) + 1
        /\ \A j \in 1 .. Len(q) + 1 :
             r[j] = IF j < i THEN q[j] ELSE IF j = i THEN m ELSE q[j - 1]
    <3>1. Opened(r, q, i, m)
      BY <1>q, <2>2, InsertOpens, Zenon
    <3> QED BY <3>1 DEF Opened
  <2> QED BY <2>1, <2>3
<1> HIDE DEF r
<1>n. \A j \in Int : Nth(q, j) \in Msg \cup {NULL}
  BY <1>q DEF Nth
<1>1. next2 \in Links /\ next2[m] = Nth(q, i)
  <2>1. CASE i = 1
    BY <1>l, <1>n, <2>1 DEF Links
  <2>2. CASE i # 1
    <3>1. i - 1 \in 1 .. Len(q)
      BY <1>q, <2>2
    <3>2. q[i - 1] \in Msg /\ q[i - 1] # m
      BY <1>q, <3>1
    <3> QED BY <1>l, <1>n, <2>2, <3>2 DEF Links
  <2> QED BY <2>1, <2>2
<1>2. ASSUME i # 1 PROVE i - 1 \in 1 .. Len(q) /\ next2[q[i - 1]] = m
  <2>1. i - 1 \in 1 .. Len(q)
    BY <1>q, <1>2
  <2> QED BY <1>2, <1>l, <1>q, <2>1 DEF Links
<1>3. ASSUME NEW j \in 1 .. Len(q), j # i - 1
      PROVE  next2[q[j]] = Nth(q, j + 1)
  <2>1. CASE i = 1
    BY <1>l, <1>q, <2>1 DEF Links
  <2>2. CASE i # 1
    <3>1. i - 1 \in 1 .. Len(q) /\ q[j] # q[i - 1] /\ q[j] # m /\ q[j] \in Msg
      BY <1>q, <1>2, <1>3, <2>2
    <3> QED BY <1>l, <1>q, <2>2, <3>1 DEF Links
  <2> QED BY <2>1, <2>2
<1>4. ASSUME NEW j \in 1 .. Len(r) PROVE next2[r[j]] = Nth(r, j + 1)
  <2>0. Len(r) = Len(q) + 1 /\ j \in Int /\ i \in Int /\ j >= 1 /\ j <= Len(q) + 1
    BY <1>q, <1>r
  <2>1. CASE j < i - 1
    <3>1. j \in 1 .. Len(q) /\ j + 1 \in 1 .. Len(q) /\ j + 1 < i /\ j + 1 \in 1 .. Len(r) /\ j # i - 1
      BY <1>q, <2>0, <2>1
    <3>2. r[j] = q[j] /\ r[j + 1] = q[j + 1]
      BY <1>r, <2>0, <3>1
    <3>3. next2[q[j]] = Nth(q, j + 1)
      BY <1>3, <3>1
    <3> QED BY <3>1, <3>2, <3>3 DEF Nth
  <2>2. CASE j = i - 1
    <3>1. i # 1 /\ j < i /\ j + 1 = i /\ i \in 1 .. Len(r)
      BY <2>0, <2>2
    <3>2. r[j] = q[i - 1] /\ r[j + 1] = m
      BY <1>r, <2>0, <2>2, <3>1
    <3>3. Nth(r, j + 1) = m
      BY <3>1, <3>2 DEF Nth
    <3> QED BY <1>2, <3>1, <3>2, <3>3
  <2>3. CASE j = i
    <3>1. r[j] = m
      BY <1>r, <2>3
    <3>2. Nth(r, j + 1) = Nth(q, i)
      <4>1. CASE i = Len(q) + 1
        BY <1>q, <2>0, <2>3, <4>1 DEF Nth
      <4>2. CASE i # Len(q) + 1
        <5>1. j + 1 \in 1 .. Len(q) + 1 /\ i \in 1 .. Len(q) /\ ~(j + 1 < i) /\ j + 1 # i /\ j + 1 - 1 = i
          BY <1>q, <2>0, <2>3, <4>2
        <5>2. r[j + 1] = q[i]
          BY <1>r, <5>1
        <5> QED BY <2>0, <5>1, <5>2 DEF Nth
      <4> QED BY <4>1, <4>2
    <3> QED BY <1>1, <3>1, <3>2
  <2>4. CASE j > i
    <3>1. j - 1 \in 1 .. Len(q) /\ j - 1 # i - 1 /\ ~(j < i) /\ j # i /\ j - 1 + 1 = j
      BY <1>q, <2>0, <2>4
    <3>2. r[j] = q[j - 1]
      BY <1>r, <2>0, <3>1
    <3>3. next2[q[j - 1]] = Nth(q, j)
      BY <1>3, <3>1
    <3>4. Nth(r, j + 1) = Nth(q, j)
      <4>1. CASE j = Len(q) + 1
        BY <1>q, <2>0, <4>1 DEF Nth
      <4>2. CASE j # Len(q) + 1
        <5>0. j \in Nat /\ i \in Nat /\ Len(q) \in Nat /\ j > i /\ j <= Len(q) /\ j >= 1
          <6>1. Len(q) \in Nat
            BY <1>q
          <6>2. i \in Nat
            BY <6>1
          <6>3. j <= Len(q)
            BY <2>0, <4>2, <6>1
          <6> QED BY <2>0, <2>4, <6>1, <6>2, <6>3
        <5>1. j + 1 \in 1 .. Len(q) + 1 /\ j \in 1 .. Len(q) /\ ~(j + 1 < i) /\ j + 1 # i /\ j + 1 - 1 = j
          BY <5>0
        <5>2. r[j + 1] = q[j]
          BY <1>r, <5>1
        <5> QED BY <2>0, <5>1, <5>2 DEF Nth
      <4> QED BY <4>1, <4>2
    <3> QED BY <3>2, <3>3, <3>4
  <2>5. j < i - 1 \/ j = i - 1 \/ j = i \/ j > i
    BY <2>0
  <2> QED BY <2>1, <2>2, <2>3, <2>4, <2>5
<1>5. (IF i = 1 THEN m ELSE first) = Nth(r, 1)
  <2>0. 1 \in 1 .. Len(r) /\ 1 \in 1 .. Len(q) + 1
    BY <1>q, <1>r
  <2>1. CASE i = 1
    BY <1>r, <2>0, <2>1 DEF Nth
  <2>2. CASE i # 1
    <3>1. 1 < i /\ 1 \in 1 .. Len(q)
      BY <1>q, <2>2
    <3> QED BY <1>q, <1>r, <2>0, <2>2, <3>1 DEF Nth
  <2> QED BY <2>1, <2>2
<1>6. ASSUME NEW n \in Msg \ (ToSet(q) \cup {m}) PROVE next2[n] = next[n]
  <2>1. CASE i = 1
    BY <1>l, <2>1 DEF Links
  <2>2. CASE i # 1
    <3>1. q[i - 1] # n /\ m # n
      BY <1>q, <1>2, <2>2
    <3> QED BY <1>l, <2>2, <3>1 DEF Links
  <2> QED BY <2>1, <2>2
<1>7. Chain(next2, FirstThen(first, i, m), r)
  BY <1>r, <1>4, <1>5 DEF Chain, FirstThen
<1> QED BY <1>1, <1>r, <1>6, <1>7 DEF r, next2

(* The first message is taken out.                                         *)
LEMMA ChainTail ==
  ASSUME NEW next, NEW first, NEW q, Chain(next, first, q), q # << >>
  PROVE  /\ Chain(next, next[first], Tail(q))
         /\ ToSet(Tail(q)) = ToSet(q) \ {first}
<1>q. /\ q \in Queue(Msg) /\ q \in Seq(Msg) /\ Len(q) \in Nat \ {0} /\ first = Nth(q, 1)
      /\ \A j \in 1 .. Len(q) : next[q[j]] = Nth(q, j + 1)
  BY QueueEntries DEF Chain
<1> DEFINE r == Tail(q)
<1>1. r \in Queue(Msg) /\ ToSet(r) = ToSet(q) \ {Head(q)} /\ Len(r) = Len(q) - 1
  BY <1>q, QueueTail
<1>2. first = Head(q) /\ first = q[1]
  BY <1>q DEF Nth
<1>3. \A j \in 1 .. Len(r) : r[j] = q[j + 1]
  BY <1>q
<1> HIDE DEF r
<1>4. \A j \in Nat \ {0} : Nth(r, j) = Nth(q, j + 1)
  <2>1. ASSUME NEW j \in Nat \ {0} PROVE j \in 1 .. Len(r) <=> j + 1 \in 1 .. Len(q)
    BY <1>q, <1>1
  <2> QED BY <1>3, <2>1 DEF Nth
<1>5. next[first] = Nth(r, 1)
  <2>1. 1 \in 1 .. Len(q) /\ 1 \in Nat \ {0}
    BY <1>q
  <2> QED BY <1>q, <1>2, <1>4, <2>1
<1>6. ASSUME NEW j \in 1 .. Len(r) PROVE next[r[j]] = Nth(r, j + 1)
  <2>1. j + 1 \in 1 .. Len(q) /\ j + 1 \in Nat \ {0}
    BY <1>q, <1>1
  <2> QED BY <1>q, <1>3, <1>4, <2>1
<1> QED BY <1>1, <1>2, <1>5, <1>6 DEF Chain, r

-----------------------------------------------------------------------------
(***************************************************************************)
(* A list whose messages are those of mine is in order: it is sorted if it *)
(* is one by priority, and otherwise mq_tail is the last message, unless   *)
(* the list is empty.                                                      *)
(***************************************************************************)
InOrder(q, list, sorted) ==
  IF sorted
  THEN \A i, j \in 1 .. Len(q) : i <= j => msgpri[q[i]] <= msgpri[q[j]]
  ELSE q # << >> => list.mq_tail = q[Len(q)]

Contents(list, next) == linked(next, list.mq_head)

BoxOK(list, next, mine, sorted) ==
  /\ list \in MsgList
  /\ Chain(next, list.mq_head, Contents(list, next))
  /\ ToSet(Contents(list, next)) = mine
  /\ InOrder(Contents(list, next), list, sorted)

(* Where a message is put into a queue.                                    *)
Place(q, i, m, sorted) ==
  IF sorted THEN \A j \in 1 .. Len(q) : j < i <=> msgpri[q[j]] < msgpri[m]
  ELSE i = Len(q) + 1

(* A list is the one that its links say.                                   *)
LEMMA BoxIs ==
  ASSUME NEW list \in MsgList, NEW next \in Links, NEW q, Chain(next, list.mq_head, q),
         NEW sorted \in BOOLEAN, InOrder(q, list, sorted)
  PROVE  BoxOK(list, next, ToSet(q), sorted) /\ Contents(list, next) = q
  BY ChainLinked DEF BoxOK, Contents

(* It is not changed with the links of other messages.                     *)
LEMMA BoxFrame ==
  ASSUME NEW list, NEW next \in Links, NEW mine, NEW sorted \in BOOLEAN,
         BoxOK(list, next, mine, sorted),
         NEW next2 \in Links, \A n \in mine : next2[n] = next[n]
  PROVE  BoxOK(list, next2, mine, sorted) /\ Contents(list, next2) = Contents(list, next)
<1> DEFINE q == Contents(list, next)
<1>1. /\ list \in MsgList /\ Chain(next, list.mq_head, q) /\ ToSet(q) = mine
      /\ InOrder(q, list, sorted)
  BY DEF BoxOK
<1> HIDE DEF q
<1>2. Chain(next2, list.mq_head, q)
  BY <1>1, ChainFrame
<1>3. BoxOK(list, next2, ToSet(q), sorted) /\ Contents(list, next2) = q
  BY <1>1, <1>2, BoxIs
<1> QED BY <1>1, <1>3 DEF q

(* A list without messages.                                                *)
LEMMA BoxEmpty ==
  ASSUME NEW list \in MsgList, list.mq_head = NULL, NEW next \in Links, NEW sorted \in BOOLEAN
  PROVE  BoxOK(list, next, {}, sorted) /\ Contents(list, next) = << >>
<1>1. Chain(next, list.mq_head, << >>)
  BY ChainEmpty
<1>2. InOrder(<< >>, list, sorted) /\ ToSet(<< >>) = {}
  BY DEF InOrder, ToSet
<1> QED BY <1>1, <1>2, BoxIs

(* What is known of a list in order.                                       *)
LEMMA BoxHead ==
  ASSUME NEW list, NEW next, NEW mine, NEW sorted, BoxOK(list, next, mine, sorted)
  PROVE  /\ Contents(list, next) \in Queue(Msg) /\ mine \in SUBSET Msg
         /\ ToSet(Contents(list, next)) = mine
         /\ Contents(list, next) = << >> <=> list.mq_head = NULL
         /\ mine = {} <=> list.mq_head = NULL
         /\ list.mq_head # NULL =>
              list.mq_head = Head(Contents(list, next)) /\ list.mq_head \in mine
<1> DEFINE q == Contents(list, next)
<1>1. Chain(next, list.mq_head, q) /\ ToSet(q) = mine /\ q \in Queue(Msg)
  BY DEF BoxOK, Chain
<1> HIDE DEF q
<1>2. /\ q = << >> <=> list.mq_head = NULL
      /\ q # << >> => list.mq_head = Head(q) /\ list.mq_head \in ToSet(q)
      /\ ToSet(q) \subseteq Msg
  BY <1>1, ChainHead
<1>3. q = << >> => ToSet(q) = {}
  BY DEF ToSet
<1> QED BY <1>1, <1>2, <1>3 DEF q

(* The first message is received.                                          *)
LEMMA BoxReceive ==
  ASSUME NEW list, nextmsg \in Links, NEW mine, NEW sorted \in BOOLEAN,
         BoxOK(list, nextmsg, mine, sorted), list.mq_head # NULL
  PROVE  /\ BoxOK(msg_remove(list), nextmsg, mine \ {list.mq_head}, sorted)
         /\ Contents(msg_remove(list), nextmsg) = Tail(Contents(list, nextmsg))
<1> DEFINE q == Contents(list, nextmsg)
           r == Tail(q)
           new == msg_remove(list)
<1>1. /\ list \in MsgList /\ Chain(nextmsg, list.mq_head, q) /\ ToSet(q) = mine
      /\ InOrder(q, list, sorted)
  BY DEF BoxOK
<1>2. q \in Queue(Msg) /\ q # << >> /\ list.mq_head \in Msg
  BY <1>1, BoxHead DEF Chain
<1>3. new \in MsgList /\ new.mq_head = nextmsg[list.mq_head] /\ new.mq_tail = list.mq_tail
  BY <1>1, <1>2 DEF msg_remove, MsgList, Links
<1>q. Len(r) = Len(q) - 1 /\ Len(q) \in Nat \ {0} /\ q \in Seq(Msg)
      /\ \A j \in 1 .. Len(q) - 1 : r[j] = q[j + 1]
  <2> HIDE DEF q
  <2>1. q \in Seq(Msg) /\ Len(q) \in Nat \ {0}
    BY <1>2, QueueEntries
  <2> QED BY <1>2, <2>1
<1> HIDE DEF q, r, new
<1>4. Chain(nextmsg, new.mq_head, r) /\ ToSet(r) = mine \ {list.mq_head}
  <2>1. Chain(nextmsg, nextmsg[list.mq_head], Tail(q)) /\ ToSet(Tail(q)) = ToSet(q) \ {list.mq_head}
    BY <1>1, <1>2, ChainTail
  <2> QED BY <1>1, <1>3, <2>1 DEF r
<1>5. InOrder(r, new, sorted)
  <2>1. CASE sorted
    <3>1. ASSUME NEW i \in 1 .. Len(r), NEW j \in 1 .. Len(r), i <= j
          PROVE  msgpri[r[i]] <= msgpri[r[j]]
      <4>1. /\ i + 1 \in 1 .. Len(q) /\ j + 1 \in 1 .. Len(q) /\ i + 1 <= j + 1
            /\ r[i] = q[i + 1] /\ r[j] = q[j + 1]
        BY <1>q, <3>1
      <4> QED BY <1>1, <2>1, <4>1 DEF InOrder
    <3> QED BY <2>1, <3>1 DEF InOrder
  <2>2. CASE ~sorted
    <3>1. ASSUME r # << >> PROVE new.mq_tail = r[Len(r)]
      <4>1. Len(r) # 0
        <5>1. r \in Seq(Msg)
          BY <1>4 DEF Chain, Queue
        <5> QED BY <3>1, <5>1
      <4>2. r[Len(r)] = q[Len(q)]
        <5>1. Len(q) - 1 \in 1 .. Len(q) - 1 /\ Len(q) - 1 + 1 = Len(q)
          BY <1>q, <4>1
        <5> QED BY <1>q, <5>1
      <4> QED BY <1>1, <1>2, <1>3, <2>2, <4>2 DEF InOrder
    <3> QED BY <2>2, <3>1 DEF InOrder
  <2> QED BY <2>1, <2>2
<1>6. BoxOK(new, nextmsg, ToSet(r), sorted) /\ Contents(new, nextmsg) = r
  BY <1>3, <1>4, <1>5, BoxIs
<1> QED BY <1>4, <1>6 DEF q, r, new

(* m is put into the queue q of a list, whose record becomes list2.        *)
CanPut(next, list, q, sorted, m, i, list2) ==
  /\ next \in Links /\ list \in MsgList /\ Chain(next, list.mq_head, q)
  /\ sorted \in BOOLEAN /\ InOrder(q, list, sorted) /\ m \in Msg \ ToSet(q)
  /\ i \in 1 .. Len(q) + 1 /\ Place(q, i, m, sorted)
  /\ list2 \in MsgList /\ list2.mq_head = FirstThen(list.mq_head, i, m)
  /\ ~sorted => list2.mq_tail = m

(* What is known then.                                                     *)
HasPut(next, list2, next2, q, sorted, m, i) ==
  /\ next2 \in Links
  /\ BoxOK(list2, next2, ToSet(q) \cup {m}, sorted)
  /\ Contents(list2, next2) = InsertAt(q, i, m)
  /\ \A n \in Msg \ (ToSet(q) \cup {m}) : next2[n] = next[n]

(* A message is put into a list at its place.                              *)
LEMMA BoxPut ==
  ASSUME NEW next, NEW list, NEW q, NEW sorted, NEW m, NEW i, NEW list2,
         CanPut(next, list, q, sorted, m, i, list2)
  PROVE  HasPut(next, list2, LinkedIn(next, q, i, m), q, sorted, m, i)
<1>a. /\ next \in Links /\ list \in MsgList /\ Chain(next, list.mq_head, q)
      /\ sorted \in BOOLEAN /\ InOrder(q, list, sorted) /\ m \in Msg \ ToSet(q)
      /\ i \in 1 .. Len(q) + 1 /\ Place(q, i, m, sorted)
      /\ list2 \in MsgList /\ list2.mq_head = FirstThen(list.mq_head, i, m)
      /\ ~sorted => list2.mq_tail = m
  BY DEF CanPut
<1> DEFINE r     == InsertAt(q, i, m)
           next2 == LinkedIn(next, q, i, m)
<1>2. /\ q \in Seq(Msg) /\ Len(q) \in Nat
      /\ \A j \in 1 .. Len(q) : q[j] \in Msg /\ msgpri[q[j]] \in Nat
      /\ m \in Msg /\ msgpri[m] \in Nat
  BY <1>a, QueueEntries, MessageListAssumption DEF Chain
<1>4. /\ next2 \in Links
      /\ Chain(next2, list2.mq_head, r)
      /\ ToSet(r) = ToSet(q) \cup {m}
      /\ \A n \in Msg \ (ToSet(q) \cup {m}) : next2[n] = next[n]
  <2> DEFINE first  == list.mq_head
             first2 == list2.mq_head
  <2>1. Chain(next, first, q) /\ first2 = FirstThen(first, i, m)
    BY <1>a
  <2> HIDE DEF first, first2
  <2>2. /\ next2 \in Links
        /\ Chain(next2, FirstThen(first, i, m), InsertAt(q, i, m))
        /\ ToSet(InsertAt(q, i, m)) = ToSet(q) \cup {m}
        /\ \A n \in Msg \ (ToSet(q) \cup {m}) : next2[n] = next[n]
    BY <1>a, <2>1, ChainInsert
  <2> QED BY <2>1, <2>2 DEF first2
<1>5. /\ Len(r) = Len(q) + 1
      /\ \A j \in 1 .. Len(q) + 1 :
           r[j] = IF j < i THEN q[j] ELSE IF j = i THEN m ELSE q[j - 1]
  <2>1. Opened(r, q, i, m)
    BY <1>a, <1>2, InsertOpens, Zenon
  <2> QED BY <2>1 DEF Opened
<1> HIDE DEF r, next2
<1>6. ASSUME ~sorted PROVE InOrder(r, list2, sorted)
  <2>1. i = Len(q) + 1
    BY <1>6, <1>a DEF Place
  <2>2. r[Len(r)] = m
    BY <1>2, <1>5, <1>a, <2>1
  <2> QED BY <1>6, <1>a, <2>2 DEF InOrder
<1>7. ASSUME sorted PROVE InOrder(r, list2, sorted)
  <2>s. \A j, k \in 1 .. Len(q) : j <= k => msgpri[q[j]] <= msgpri[q[k]]
    BY <1>7, <1>a DEF InOrder
  <2>p. \A j \in 1 .. Len(q) : j < i <=> msgpri[q[j]] < msgpri[m]
    BY <1>7, <1>a DEF Place
  <2>1. ASSUME NEW j \in 1 .. Len(r), NEW k \in 1 .. Len(r), j <= k
         PROVE  msgpri[r[j]] <= msgpri[r[k]]
    <3>0. /\ Len(q) \in Nat /\ i \in 1 .. Len(q) + 1
          /\ j \in 1 .. Len(q) + 1 /\ k \in 1 .. Len(q) + 1
      BY <1>2, <1>5, <1>a
    <3>j. r[j] = IF j < i THEN q[j] ELSE IF j = i THEN m ELSE q[j - 1]
      BY <1>5, <3>0
    <3>k. r[k] = IF k < i THEN q[k] ELSE IF k = i THEN m ELSE q[k - 1]
      BY <1>5, <3>0
    <3>1. CASE k < i
      <4>1. j < i /\ j \in 1 .. Len(q) /\ k \in 1 .. Len(q)
        BY <2>1, <3>0, <3>1
      <4> QED BY <2>s, <2>1, <3>1, <3>j, <3>k, <4>1
    <3>2. CASE k = i /\ j < i
      <4>1. j \in 1 .. Len(q) /\ ~(k < i)
        BY <3>0, <3>2
      <4>2. msgpri[q[j]] < msgpri[m]
        BY <2>p, <3>2, <4>1
      <4> QED BY <1>2, <3>2, <3>j, <3>k, <4>1, <4>2
    <3>3. CASE j = i /\ k = i
      BY <1>2, <3>0, <3>3, <3>j, <3>k
    <3>4. CASE k > i /\ j < i
      <4>1. j \in 1 .. Len(q) /\ k - 1 \in 1 .. Len(q) /\ j <= k - 1 /\ ~(k < i) /\ k # i
        BY <3>0, <3>4
      <4> QED BY <2>s, <3>4, <3>j, <3>k, <4>1
    <3>5. CASE k > i /\ j = i
      <4>1. k - 1 \in 1 .. Len(q) /\ ~(k - 1 < i) /\ ~(k < i) /\ k # i /\ ~(j < i)
        BY <3>0, <3>5
      <4>2. ~(msgpri[q[k - 1]] < msgpri[m])
        BY <2>p, <4>1
      <4> QED BY <1>2, <3>5, <3>j, <3>k, <4>1, <4>2
    <3>6. CASE k > i /\ j > i
      <4>1. /\ k - 1 \in 1 .. Len(q) /\ j - 1 \in 1 .. Len(q) /\ j - 1 <= k - 1
            /\ ~(k < i) /\ k # i /\ ~(j < i) /\ j # i
        BY <2>1, <3>0, <3>6
      <4> QED BY <2>s, <3>j, <3>k, <4>1
    <3>7. k < i \/ (k = i /\ j < i) \/ (j = i /\ k = i) \/ (k > i /\ j < i) \/ (k > i /\ j = i) \/ (k > i /\ j > i)
      BY <2>1, <3>0
    <3> QED BY <3>1, <3>2, <3>3, <3>4, <3>5, <3>6, <3>7
  <2> QED BY <1>7, <2>1 DEF InOrder
<1>8. InOrder(r, list2, sorted)
  BY <1>6, <1>7
<1>9. BoxOK(list2, next2, ToSet(r), sorted) /\ Contents(list2, next2) = r
  BY <1>4, <1>8, <1>a, BoxIs
<1> QED BY <1>4, <1>9 DEF HasPut, r, next2

(* What becomes of the record of a list when a message is linked in.       *)
LEMMA ListParts ==
  ASSUME NEW list \in MsgList, NEW m \in Msg
  PROVE  /\ [list EXCEPT !.mq_tail = m] \in MsgList
         /\ [list EXCEPT !.mq_tail = m].mq_tail = m
         /\ [list EXCEPT !.mq_tail = m].mq_head = list.mq_head
         /\ [list EXCEPT !.mq_head = m] \in MsgList
         /\ [list EXCEPT !.mq_head = m].mq_head = m
         /\ [mq_head |-> m, mq_tail |-> m] \in MsgList
  BY DEF MsgList

(* What the calls that send a message do to a list and to the links.       *)
Sends(sent, list, m, sorted) ==
  sent = IF sorted THEN queue_insert_mpri(list, m) ELSE msg_append(list, m)

(* What is known then.                                                     *)
HasSent(list, mine, m, sorted, sent) ==
  /\ sent.nextmsg \in Links
  /\ BoxOK(sent.list, sent.nextmsg, mine \cup {m}, sorted)
  /\ \E i \in 1 .. Len(Contents(list, nextmsg)) + 1 :
       /\ Place(Contents(list, nextmsg), i, m, sorted)
       /\ Contents(sent.list, sent.nextmsg) = InsertAt(Contents(list, nextmsg), i, m)
  /\ \A n \in Msg \ (mine \cup {m}) : sent.nextmsg[n] = nextmsg[n]

(* A message is sent: it becomes the last one of a list without priority,  *)
(* and is put in front of the first one whose priority is not higher in a  *)
(* list by priority.                                                       *)
LEMMA BoxSend ==
  ASSUME NEW list, nextmsg \in Links, NEW mine, NEW sorted \in BOOLEAN,
         BoxOK(list, nextmsg, mine, sorted), NEW m \in Msg \ mine,
         NEW sent, Sends(sent, list, m, sorted)
  PROVE  HasSent(list, mine, m, sorted, sent)
<1> DEFINE q == Contents(list, nextmsg)
<1>1. /\ list \in MsgList /\ Chain(nextmsg, list.mq_head, q) /\ ToSet(q) = mine
      /\ InOrder(q, list, sorted)
      /\ q \in Queue(Msg) /\ (q = << >> <=> list.mq_head = NULL)
  BY BoxHead DEF BoxOK
<1>c. q = messages(list)
  BY DEF messages, Contents
<1> HIDE DEF q
<1>2. /\ q \in Seq(Msg) /\ Len(q) \in Nat /\ DOMAIN q = 1 .. Len(q)
      /\ (q = << >> <=> Len(q) = 0)
      /\ \A j \in 1 .. Len(q) : q[j] \in Msg /\ msgpri[q[j]] \in Nat
      /\ m \in Msg /\ msgpri[m] \in Nat
  BY <1>1, QueueEntries, MessageListAssumption
<1>m. /\ [list EXCEPT !.mq_tail = m] \in MsgList
      /\ [list EXCEPT !.mq_tail = m].mq_tail = m
      /\ [list EXCEPT !.mq_tail = m].mq_head = list.mq_head
      /\ [list EXCEPT !.mq_head = m] \in MsgList
      /\ [list EXCEPT !.mq_head = m].mq_head = m
      /\ [mq_head |-> m, mq_tail |-> m] \in MsgList
  BY <1>1, <1>2, ListParts
<1>3. \E i \in 1 .. Len(q) + 1 :
        /\ Place(q, i, m, sorted)
        /\ sent.list \in MsgList /\ (~sorted => sent.list.mq_tail = m)
        /\ sent.list.mq_head = FirstThen(list.mq_head, i, m)
        /\ sent.nextmsg = LinkedIn(nextmsg, q, i, m)
  <2>1. CASE ~sorted
    <3>1. /\ Len(q) + 1 \in 1 .. Len(q) + 1 /\ Len(q) + 1 - 1 = Len(q)
          /\ Nth(q, Len(q) + 1) = NULL /\ (Len(q) + 1 = 1 <=> Len(q) = 0)
      BY <1>2 DEF Nth
    <3>2. Place(q, Len(q) + 1, m, sorted)
      BY <2>1 DEF Place
    <3>3. CASE q = << >>
      <4>1. sent = [list |-> [mq_head |-> m, mq_tail |-> m],
                    nextmsg |-> [nextmsg EXCEPT ![m] = NULL]]
        BY <1>1, <2>1, <3>3 DEF Sends, msg_append
      <4>2. /\ sent.list \in MsgList /\ sent.list.mq_tail = m /\ sent.list.mq_head = m
            /\ sent.nextmsg = [nextmsg EXCEPT ![m] = NULL]
        BY <1>m, <4>1
      <4> QED BY <1>2, <3>1, <3>2, <3>3, <4>2 DEF FirstThen, LinkedIn
    <3>4. CASE q # << >>
      <4>1. sent = [list |-> [list EXCEPT !.mq_tail = m],
                    nextmsg |-> [nextmsg EXCEPT ![m] = NULL, ![list.mq_tail] = m]]
        BY <1>1, <2>1, <3>4 DEF Sends, msg_append
      <4>2. list.mq_tail = q[Len(q)]
        BY <1>1, <2>1, <3>4 DEF InOrder
      <4>3. /\ sent.list \in MsgList /\ sent.list.mq_tail = m /\ sent.list.mq_head = list.mq_head
            /\ sent.nextmsg = [nextmsg EXCEPT ![m] = NULL, ![q[Len(q)]] = m]
        BY <1>m, <4>1, <4>2
      <4>4. Len(q) + 1 # 1
        BY <1>2, <3>4
      <4>5. sent.nextmsg = LinkedIn(nextmsg, q, Len(q) + 1, m)
        <5>1. LinkedIn(nextmsg, q, Len(q) + 1, m)
                = [nextmsg EXCEPT ![m] = Nth(q, Len(q) + 1), ![q[Len(q) + 1 - 1]] = m]
          BY <4>4 DEF LinkedIn
        <5>2. Nth(q, Len(q) + 1) = NULL /\ q[Len(q) + 1 - 1] = q[Len(q)]
          BY <3>1
        <5> QED BY <4>3, <5>1, <5>2, Zenon
      <4>6. sent.list.mq_head = FirstThen(list.mq_head, Len(q) + 1, m)
        BY <4>3, <4>4 DEF FirstThen
      <4> QED BY <3>1, <3>2, <4>3, <4>5, <4>6, Zenon
    <3> QED BY <3>3, <3>4
  <2>2. CASE sorted
    <3> DEFINE behind == {j \in DOMAIN q : msgpri[q[j]] >= msgpri[m]}
               at     == IF behind = {} THEN Len(q) + 1 ELSE Min(behind)
               next   == IF behind = {} THEN NULL ELSE q[at]
    <3>s. \A j, k \in 1 .. Len(q) : j <= k => msgpri[q[j]] <= msgpri[q[k]]
      BY <1>1, <2>2 DEF InOrder
    <3>1. sent = IF at = 1
                 THEN [list |-> [list EXCEPT !.mq_head = m],
                       nextmsg |-> [nextmsg EXCEPT ![m] = next]]
                 ELSE [list |-> list,
                       nextmsg |-> [nextmsg EXCEPT ![m] = next, ![q[at - 1]] = m]]
      BY <1>c, <2>2 DEF Sends, queue_insert_mpri
    <3>2. behind # {} => at \in behind /\ \A j \in behind : at <= j
      <4>1. behind \in SUBSET Nat
        BY <1>2
      <4> HIDE DEF behind
      <4> QED BY <4>1, MinOfNaturals
    <3>3. behind = {} => at = Len(q) + 1 /\ next = NULL
      OBVIOUS
    <3>4. behind # {} => next = q[at]
      OBVIOUS
    <3>5. \A j : j \in behind <=> j \in 1 .. Len(q) /\ msgpri[q[j]] >= msgpri[m]
      BY <1>2
    <3> HIDE DEF behind, at, next
    <3>6. at \in 1 .. Len(q) + 1 /\ next = Nth(q, at)
      <4>1. CASE behind = {}
        BY <1>2, <3>3, <4>1 DEF Nth
      <4>2. CASE behind # {}
        <5>1. at \in 1 .. Len(q)
          BY <3>2, <3>5, <4>2
        <5> QED BY <1>2, <3>4, <4>2, <5>1 DEF Nth
      <4> QED BY <4>1, <4>2
    <3>7. ASSUME NEW j \in 1 .. Len(q) PROVE j < at <=> msgpri[q[j]] < msgpri[m]
      <4>1. CASE behind = {}
        BY <1>2, <3>3, <3>5, <4>1
      <4>2. CASE behind # {}
        <5>1. at \in 1 .. Len(q) /\ msgpri[q[at]] >= msgpri[m]
          BY <3>2, <3>5, <4>2
        <5>2. ASSUME ~(j < at) PROVE msgpri[q[j]] >= msgpri[m]
          <6>1. at <= j
            BY <1>2, <5>1, <5>2
          <6>2. msgpri[q[at]] <= msgpri[q[j]]
            BY <3>s, <5>1, <6>1
          <6> QED BY <1>2, <5>1, <6>2
        <5>3. ASSUME msgpri[q[j]] >= msgpri[m] PROVE ~(j < at)
          <6>1. at <= j
            BY <3>2, <3>5, <4>2, <5>3
          <6> QED BY <1>2, <5>1, <6>1
        <5> QED BY <1>2, <5>2, <5>3
      <4> QED BY <4>1, <4>2
    <3>8. Place(q, at, m, sorted)
      BY <2>2, <3>7 DEF Place
    <3>9. /\ sent.list \in MsgList /\ sent.list.mq_head = IF at = 1 THEN m ELSE list.mq_head
          /\ sent.nextmsg = IF at = 1 THEN [nextmsg EXCEPT ![m] = next]
                            ELSE [nextmsg EXCEPT ![m] = next, ![q[at - 1]] = m]
      <4>1. list \in MsgList
        BY <1>1
      <4>2. CASE at = 1
        <5>1. sent = [list |-> [list EXCEPT !.mq_head = m], nextmsg |-> [nextmsg EXCEPT ![m] = next]]
          BY <3>1, <4>2
        <5> QED BY <1>m, <4>2, <5>1
      <4>3. CASE at # 1
        <5>1. sent = [list |-> list, nextmsg |-> [nextmsg EXCEPT ![m] = next, ![q[at - 1]] = m]]
          BY <3>1, <4>3
        <5> QED BY <4>1, <4>3, <5>1
      <4> QED BY <4>2, <4>3
    <3>10. sent.nextmsg = LinkedIn(nextmsg, q, at, m) /\ sent.list.mq_head = FirstThen(list.mq_head, at, m)
      BY <3>6, <3>9 DEF LinkedIn, FirstThen
    <3> QED BY <2>2, <3>6, <3>8, <3>9, <3>10
  <2> QED BY <2>1, <2>2
<1>4. PICK i \in 1 .. Len(q) + 1 :
        /\ Place(q, i, m, sorted)
        /\ sent.list \in MsgList /\ (~sorted => sent.list.mq_tail = m)
        /\ sent.list.mq_head = FirstThen(list.mq_head, i, m)
        /\ sent.nextmsg = LinkedIn(nextmsg, q, i, m)
  BY <1>3
<1>5. m \in Msg \ ToSet(q)
  BY <1>1
<1> DEFINE list2 == sent.list
           next2 == sent.nextmsg
<1>6. /\ list2 \in MsgList /\ (~sorted => list2.mq_tail = m)
      /\ list2.mq_head = FirstThen(list.mq_head, i, m)
      /\ next2 = LinkedIn(nextmsg, q, i, m)
  BY <1>4
<1> HIDE DEF list2, next2
<1>7. HasPut(nextmsg, list2, next2, q, sorted, m, i)
  <2>1. /\ list \in MsgList /\ Chain(nextmsg, list.mq_head, q) /\ InOrder(q, list, sorted)
        /\ Place(q, i, m, sorted) /\ list2 \in MsgList /\ (~sorted => list2.mq_tail = m)
        /\ list2.mq_head = FirstThen(list.mq_head, i, m)
    BY <1>1, <1>4, <1>6
  <2>2. CanPut(nextmsg, list, q, sorted, m, i, list2)
    BY <1>5, <2>1 DEF CanPut
  <2>3. HasPut(nextmsg, list2, LinkedIn(nextmsg, q, i, m), q, sorted, m, i)
    BY <2>2, BoxPut, Zenon
  <2> QED BY <1>6, <2>3
<1> QED BY <1>1, <1>4, <1>7 DEF HasSent, HasPut, list2, next2, q
-----------------------------------------------------------------------------
(***************************************************************************)
(* Several mailboxes: B are those that exist, L their lists, and P those   *)
(* whose messages are kept by priority.  A message is in the list of the   *)
(* mailbox it was sent to, or in none.                                     *)
(***************************************************************************)
Mine(sent, b) == {m \in Msg : sent[m] = b}

Boxed(B, L, next, sent, P) ==
  /\ next \in Links
  /\ "nowhere" \notin B
  /\ sent \in [Msg -> B \cup {"nowhere"}]
  /\ \A b \in B : BoxOK(L[b], next, Mine(sent, b), b \in P)

QueuesOf(Box, B, L, next) ==
  [b \in Box |-> IF b \in B THEN Contents(L[b], next) ELSE << >>]

(* What the lists are together.                                            *)
LEMMA BoxedSays ==
  ASSUME NEW B, NEW L, NEW next, NEW sent, NEW P, Boxed(B, L, next, sent, P), NEW b \in B
  PROVE  /\ L[b] \in MsgList
         /\ Contents(L[b], next) \in Queue(Msg)
         /\ ToSet(Contents(L[b], next)) = Mine(sent, b)
         /\ Contents(L[b], next) = << >> <=> L[b].mq_head = NULL
         /\ L[b].mq_head # NULL => L[b].mq_head \in Mine(sent, b)
<1>1. BoxOK(L[b], next, Mine(sent, b), b \in P)
  BY DEF Boxed
<1> QED BY <1>1, BoxHead DEF BoxOK

(* A message is sent to b: what is asked for, and what is known then.      *)
CanSend(Box, B, L, sent, P, b, m, new, L2) ==
  /\ Boxed(B, L, nextmsg, sent, P) /\ B \subseteq Box /\ b \in B
  /\ m \in Msg /\ sent[m] = "nowhere" /\ Sends(new, L[b], m, b \in P)
  /\ L2[b] = new.list /\ \A c \in B \ {b} : L2[c] = L[c]

BoxHasSent(Box, B, L, sent, P, b, m, next2, L2) ==
  /\ Boxed(B, L2, next2, [sent EXCEPT ![m] = b], P)
  /\ \A c \in B : m \notin ToSet(Contents(L[c], nextmsg))
  /\ \E i \in 1 .. Len(Contents(L[b], nextmsg)) + 1 :
       /\ Place(Contents(L[b], nextmsg), i, m, b \in P)
       /\ QueuesOf(Box, B, L2, next2) =
            [QueuesOf(Box, B, L, nextmsg) EXCEPT ![b] = InsertAt(Contents(L[b], nextmsg), i, m)]

(* A message is sent to one of them.                                       *)
LEMMA BoxedSend ==
  ASSUME NEW Box, NEW B, NEW L, NEW sent, NEW P, NEW b, NEW m, NEW new, NEW L2,
         CanSend(Box, B, L, sent, P, b, m, new, L2)
  PROVE  BoxHasSent(Box, B, L, sent, P, b, m, new.nextmsg, L2)
<1>a. /\ Boxed(B, L, nextmsg, sent, P) /\ B \subseteq Box /\ b \in B
      /\ m \in Msg /\ sent[m] = "nowhere" /\ Sends(new, L[b], m, b \in P)
      /\ L2[b] = new.list /\ \A c \in B \ {b} : L2[c] = L[c]
  BY DEF CanSend
<1> DEFINE next2 == new.nextmsg
           sent2 == [sent EXCEPT ![m] = b]
<1>1. /\ nextmsg \in Links /\ "nowhere" \notin B /\ sent \in [Msg -> B \cup {"nowhere"}]
      /\ \A c \in B : BoxOK(L[c], nextmsg, Mine(sent, c), c \in P)
  BY <1>a DEF Boxed
<1>2. \A c \in B : m \notin Mine(sent, c)
  BY <1>1, <1>a DEF Mine
<1>3. /\ next2 \in Links
      /\ BoxOK(L2[b], next2, Mine(sent, b) \cup {m}, b \in P)
      /\ \E i \in 1 .. Len(Contents(L[b], nextmsg)) + 1 :
           /\ Place(Contents(L[b], nextmsg), i, m, b \in P)
           /\ Contents(L2[b], next2) = InsertAt(Contents(L[b], nextmsg), i, m)
      /\ \A n \in Msg \ (Mine(sent, b) \cup {m}) : next2[n] = nextmsg[n]
  <2> DEFINE mine == Mine(sent, b)
             sorted == b \in P
             list == L[b]
  <2>1. /\ nextmsg \in Links /\ sorted \in BOOLEAN /\ BoxOK(list, nextmsg, mine, sorted)
        /\ m \in Msg \ mine /\ Sends(new, list, m, sorted)
    BY <1>1, <1>2, <1>a
  <2> HIDE DEF mine, sorted, list
  <2>2. HasSent(list, mine, m, sorted, new)
    BY <2>1, BoxSend, Zenon
  <2> QED BY <1>a, <2>2 DEF HasSent, mine, sorted, list
<1> HIDE DEF next2
<1>4. /\ sent2 \in [Msg -> B \cup {"nowhere"}]
      /\ Mine(sent2, b) = Mine(sent, b) \cup {m}
      /\ \A c \in B \ {b} : Mine(sent2, c) = Mine(sent, c)
  BY <1>1, <1>a DEF Mine
<1> HIDE DEF sent2
<1>5. ASSUME NEW c \in B \ {b}
      PROVE  /\ BoxOK(L2[c], next2, Mine(sent2, c), c \in P)
             /\ Contents(L2[c], next2) = Contents(L[c], nextmsg)
  <2>1. \A n \in Mine(sent, c) : next2[n] = nextmsg[n]
    BY <1>2, <1>3 DEF Mine
  <2> DEFINE sorted == c \in P
  <2>2. sorted \in BOOLEAN /\ BoxOK(L[c], nextmsg, Mine(sent, c), sorted) /\ L2[c] = L[c]
    BY <1>1, <1>a
  <2> HIDE DEF sorted
  <2>3. BoxOK(L[c], next2, Mine(sent, c), sorted) /\ Contents(L[c], next2) = Contents(L[c], nextmsg)
    BY <1>1, <1>3, <2>1, <2>2, BoxFrame
  <2> QED BY <1>4, <2>2, <2>3 DEF sorted
<1>6. Boxed(B, L2, next2, sent2, P)
  <2>1. ASSUME NEW c \in B PROVE BoxOK(L2[c], next2, Mine(sent2, c), c \in P)
    BY <1>3, <1>4, <1>5
  <2> QED BY <1>1, <1>3, <1>4, <2>1 DEF Boxed
<1>7. ASSUME NEW c \in B PROVE m \notin ToSet(Contents(L[c], nextmsg))
  BY <1>2, <1>a, BoxedSays
<1>8. PICK i \in 1 .. Len(Contents(L[b], nextmsg)) + 1 :
        /\ Place(Contents(L[b], nextmsg), i, m, b \in P)
        /\ Contents(L2[b], next2) = InsertAt(Contents(L[b], nextmsg), i, m)
  BY <1>3
<1>9. QueuesOf(Box, B, L2, next2) =
        [QueuesOf(Box, B, L, nextmsg) EXCEPT ![b] = InsertAt(Contents(L[b], nextmsg), i, m)]
  <2> DEFINE Q2 == QueuesOf(Box, B, L2, next2)
             Q  == [QueuesOf(Box, B, L, nextmsg) EXCEPT ![b] = InsertAt(Contents(L[b], nextmsg), i, m)]
  <2>1. ASSUME NEW c \in Box PROVE Q2[c] = Q[c]
    BY <1>5, <1>8, <1>a DEF QueuesOf
  <2>2. Q2 = [c \in Box |-> Q2[c]] /\ Q = [c \in Box |-> Q[c]]
    BY DEF QueuesOf
  <2> HIDE DEF Q2, Q
  <2>3. Q2 = Q
    BY <2>1, <2>2, Zenon
  <2> QED BY <2>3 DEF Q2, Q
<1> QED BY <1>6, <1>7, <1>8, <1>9 DEF BoxHasSent, next2, sent2

(* A message is received from b: what is asked for, and what is known.     *)
CanReceive(Box, B, L, sent, P, b, L2) ==
  /\ Boxed(B, L, nextmsg, sent, P) /\ B \subseteq Box /\ b \in B
  /\ L[b].mq_head # NULL
  /\ L2[b] = msg_remove(L[b]) /\ \A c \in B \ {b} : L2[c] = L[c]

BoxHasReceived(Box, B, L, sent, P, b, L2) ==
  /\ Boxed(B, L2, nextmsg, [sent EXCEPT ![L[b].mq_head] = "nowhere"], P)
  /\ Contents(L[b], nextmsg) # << >>
  /\ QueuesOf(Box, B, L2, nextmsg) =
       [QueuesOf(Box, B, L, nextmsg) EXCEPT ![b] = Tail(Contents(L[b], nextmsg))]

(* A message is received from one of them.                                 *)
LEMMA BoxedReceive ==
  ASSUME NEW Box, NEW B, NEW L, NEW sent, NEW P, NEW b, NEW L2,
         CanReceive(Box, B, L, sent, P, b, L2)
  PROVE  BoxHasReceived(Box, B, L, sent, P, b, L2)
<1>a. /\ Boxed(B, L, nextmsg, sent, P) /\ B \subseteq Box /\ b \in B
      /\ L[b].mq_head # NULL
      /\ L2[b] = msg_remove(L[b]) /\ \A c \in B \ {b} : L2[c] = L[c]
  BY DEF CanReceive
<1> DEFINE first == L[b].mq_head
           sent2 == [sent EXCEPT ![first] = "nowhere"]
<1>1. /\ nextmsg \in Links /\ "nowhere" \notin B /\ sent \in [Msg -> B \cup {"nowhere"}]
      /\ \A c \in B : BoxOK(L[c], nextmsg, Mine(sent, c), c \in P)
  BY <1>a DEF Boxed
<1>2. first \in Mine(sent, b) /\ Contents(L[b], nextmsg) # << >>
  BY <1>a, BoxedSays
<1>3. /\ BoxOK(L2[b], nextmsg, Mine(sent, b) \ {first}, b \in P)
      /\ Contents(L2[b], nextmsg) = Tail(Contents(L[b], nextmsg))
  <2> DEFINE mine == Mine(sent, b)
             sorted == b \in P
             list == L[b]
  <2>1. /\ nextmsg \in Links /\ sorted \in BOOLEAN /\ BoxOK(list, nextmsg, mine, sorted)
        /\ list.mq_head # NULL
    BY <1>1, <1>a
  <2> HIDE DEF mine, sorted, list
  <2>2. /\ BoxOK(msg_remove(list), nextmsg, mine \ {list.mq_head}, sorted)
        /\ Contents(msg_remove(list), nextmsg) = Tail(Contents(list, nextmsg))
    BY <2>1, BoxReceive
  <2> QED BY <1>a, <2>2 DEF mine, sorted, list
<1>4. /\ sent2 \in [Msg -> B \cup {"nowhere"}]
      /\ Mine(sent2, b) = Mine(sent, b) \ {first}
      /\ \A c \in B \ {b} : Mine(sent2, c) = Mine(sent, c)
  <2> HIDE DEF first
  <2> QED BY <1>1, <1>2, <1>a DEF Mine
<1> HIDE DEF sent2
<1>5. \A c \in B \ {b} : Contents(L2[c], nextmsg) = Contents(L[c], nextmsg)
  BY <1>a DEF Contents
<1>6. Boxed(B, L2, nextmsg, sent2, P)
  <2>1. ASSUME NEW c \in B PROVE BoxOK(L2[c], nextmsg, Mine(sent2, c), c \in P)
    <3>1. CASE c = b
      BY <1>3, <1>4, <3>1
    <3>2. CASE c # b
      <4>1. L2[c] = L[c] /\ Mine(sent2, c) = Mine(sent, c)
        BY <1>4, <1>a, <3>2
      <4> QED BY <1>1, <4>1
    <3> QED BY <3>1, <3>2
  <2> QED BY <1>1, <1>4, <2>1 DEF Boxed
<1>9. QueuesOf(Box, B, L2, nextmsg) =
        [QueuesOf(Box, B, L, nextmsg) EXCEPT ![b] = Tail(Contents(L[b], nextmsg))]
  <2> DEFINE Q2 == QueuesOf(Box, B, L2, nextmsg)
             Q  == [QueuesOf(Box, B, L, nextmsg) EXCEPT ![b] = Tail(Contents(L[b], nextmsg))]
  <2>1. ASSUME NEW c \in Box PROVE Q2[c] = Q[c]
    BY <1>3, <1>5, <1>a DEF QueuesOf
  <2>2. Q2 = [c \in Box |-> Q2[c]] /\ Q = [c \in Box |-> Q[c]]
    BY DEF QueuesOf
  <2> HIDE DEF Q2, Q
  <2>3. Q2 = Q
    BY <2>1, <2>2, Zenon
  <2> QED BY <2>3 DEF Q2, Q
<1> QED BY <1>2, <1>6, <1>9 DEF BoxHasReceived, first, sent2

(* Those in E are emptied or created: what is asked for, and what is       *)
(* known then.                                                             *)
CanForget(B, L, next, sent, P, B2, L2, sent2, E) ==
  /\ Boxed(B, L, next, sent, P)
  /\ "nowhere" \notin B2 /\ sent2 \in [Msg -> B2 \cup {"nowhere"}]
  /\ \A b \in B2 \cap E : /\ L2[b] \in MsgList /\ L2[b].mq_head = NULL
                        /\ \A m \in Msg : sent2[m] # b
  /\ \A b \in B2 \ E : /\ b \in B /\ L2[b] = L[b]
                     /\ \A m \in Msg : sent2[m] = b <=> sent[m] = b

BoxHasForgotten(L, next, P, B2, L2, sent2, E) ==
  /\ Boxed(B2, L2, next, sent2, P)
  /\ \A b \in B2 \cap E : Contents(L2[b], next) = << >>
  /\ \A b \in B2 \ E : Contents(L2[b], next) = Contents(L[b], next)

(* Some are emptied or created, and the others keep what they have.        *)
LEMMA BoxedForget ==
  ASSUME NEW B, NEW L, NEW next, NEW sent, NEW P, NEW B2, NEW L2, NEW sent2, NEW E,
         CanForget(B, L, next, sent, P, B2, L2, sent2, E)
  PROVE  BoxHasForgotten(L, next, P, B2, L2, sent2, E)
<1>a. /\ Boxed(B, L, next, sent, P)
      /\ "nowhere" \notin B2 /\ sent2 \in [Msg -> B2 \cup {"nowhere"}]
      /\ \A b \in B2 \cap E : /\ L2[b] \in MsgList /\ L2[b].mq_head = NULL
                            /\ \A m \in Msg : sent2[m] # b
      /\ \A b \in B2 \ E : /\ b \in B /\ L2[b] = L[b]
                         /\ \A m \in Msg : sent2[m] = b <=> sent[m] = b
  BY DEF CanForget
<1>1. /\ next \in Links
      /\ \A c \in B : BoxOK(L[c], next, Mine(sent, c), c \in P)
  BY <1>a DEF Boxed
<1>2. ASSUME NEW b \in B2 \cap E
      PROVE  BoxOK(L2[b], next, Mine(sent2, b), b \in P) /\ Contents(L2[b], next) = << >>
  <2> DEFINE sorted == b \in P
  <2>1. sorted \in BOOLEAN /\ L2[b] \in MsgList /\ L2[b].mq_head = NULL /\ Mine(sent2, b) = {}
    BY <1>a DEF Mine
  <2> HIDE DEF sorted
  <2>2. BoxOK(L2[b], next, {}, sorted) /\ Contents(L2[b], next) = << >>
    BY <1>1, <2>1, BoxEmpty
  <2> QED BY <2>1, <2>2 DEF sorted
<1>3. ASSUME NEW b \in B2 \ E
      PROVE  /\ BoxOK(L2[b], next, Mine(sent2, b), b \in P)
             /\ Contents(L2[b], next) = Contents(L[b], next)
  <2>1. L2[b] = L[b] /\ Mine(sent2, b) = Mine(sent, b) /\ b \in B
    BY <1>a DEF Mine
  <2> QED BY <1>1, <2>1
<1>4. Boxed(B2, L2, next, sent2, P)
  <2>1. ASSUME NEW b \in B2 PROVE BoxOK(L2[b], next, Mine(sent2, b), b \in P)
    BY <1>2, <1>3
  <2> QED BY <1>1, <1>a, <2>1 DEF Boxed
<1> QED BY <1>2, <1>3, <1>4 DEF BoxHasForgotten
-----------------------------------------------------------------------------
(***************************************************************************)
(* Mailboxes.  Nobody waits at a mailbox that has a message.               *)
(***************************************************************************)
MbxWaits == \A b \in Mbx : wait_tskid(b) # NoTask => b \in mbxs /\ mq[b].mq_head = NULL

MbxInv ==
  /\ mbxs \in SUBSET Mbx
  /\ mq \in [Mbx -> MsgList]
  /\ Boxed(mbxs, mq, nextmsg, sent_to, TaMpri)
  /\ MbxWaits

MailQueues == [b \in Mbx |-> IF b \in mbxs THEN queued(b) ELSE << >>]

(* A step of mailboxes is one of message queues, or changes none of them.  *)
ServesMailStep == [MailQueue!Next]_MailQueues

(* A queue without an entry twice is injective.                            *)
LEMMA QueueInjective ==
  ASSUME NEW S, NEW q \in Queue(S)
  PROVE  IsInjective(q)
  BY DEF Queue

(* The queues are those of the lists.                                      *)
LEMMA MailIs ==
  /\ MailQueues = QueuesOf(Mbx, mbxs, mq, nextmsg)
  /\ MailQueues' = QueuesOf(Mbx, mbxs', mq', nextmsg')
  BY DEF MailQueues, QueuesOf, queued, messages, Contents

(* The invariant is what the runs check.                                   *)
LEMMA MbxSays ==
  ASSUME IInv, MbxInv
  PROVE  MbxTypeOK /\ NoMessageWhileWaiting /\ MessagesExact
<1>1. /\ nextmsg \in [Msg -> Msg \cup {NULL}]
      /\ sent_to \in [Msg -> mbxs \cup {"nowhere"}] /\ mbxs \in SUBSET Mbx
      /\ mq \in [Mbx -> MsgList]
  BY DEF MbxInv, Boxed, Links
<1>2. MbxTypeOK
  <2>1. sent_to \in [Msg -> Mbx \cup {"nowhere"}]
    BY <1>1
  <2> QED BY <1>1, <2>1 DEF MbxTypeOK, IInv
<1>3. ASSUME NEW b \in mbxs
      PROVE  /\ queued(b) \in Queue(Msg)
             /\ ToSet(queued(b)) = {m \in Msg : sent_to[m] = b}
             /\ queued(b) = << >> <=> mq[b].mq_head = NULL
  <2>1. queued(b) = Contents(mq[b], nextmsg)
    BY DEF queued, messages, Contents
  <2>2. /\ Contents(mq[b], nextmsg) \in Queue(Msg)
        /\ ToSet(Contents(mq[b], nextmsg)) = Mine(sent_to, b)
        /\ Contents(mq[b], nextmsg) = << >> <=> mq[b].mq_head = NULL
    BY BoxedSays DEF MbxInv
  <2> QED BY <2>1, <2>2 DEF Mine
<1>4. NoMessageWhileWaiting
  <2>1. ASSUME NEW b \in Mbx, wait_queue[b] # << >> PROVE b \in mbxs /\ queued(b) = << >>
    <3>1. wait_tskid(b) # NoTask
      BY <2>1, FirstWaits, MailboxAssumption
    <3> QED BY <1>3, <3>1 DEF MbxInv, MbxWaits
  <2> QED BY <2>1 DEF NoMessageWhileWaiting
<1>5. MessagesExact
  BY <1>3, QueueInjective DEF MessagesExact
<1> QED BY <1>2, <1>4, <1>5

(* Those who wait at mailboxes, when nobody comes.                         *)
LEMMA MbxWaitsKept ==
  ASSUME IInv, IInv', MbxWaits, NobodyComes(Mbx),
         \A b \in Mbx : wait_tskid(b)' # NoTask /\ b \in mbxs /\ mq[b].mq_head = NULL
                          => b \in mbxs' /\ mq'[b].mq_head = NULL
  PROVE  MbxWaits'
<1>1. ASSUME NEW b \in Mbx, wait_tskid(b)' # NoTask
      PROVE  b \in mbxs' /\ mq'[b].mq_head = NULL
  <2>1. wait_tskid(b) # NoTask
    BY <1>1, StaysEmpty, MailboxAssumption
  <2> QED BY <1>1, <2>1 DEF MbxWaits
<1> QED BY <1>1 DEF MbxWaits

(* The other steps of a program that uses mailboxes.                       *)
LEMMA MbxOtherKeeps ==
  ASSUME IInv, MbxInv, [Next]_vars, UNCHANGED mbxvars
  PROVE  IInv' /\ (Sorted => Sorted') /\ KeepsTurns /\ MbxInv' /\ ServesMailStep
<1>1. IInv' /\ (Sorted => Sorted') /\ KeepsTurns /\ NobodyComes(Gcb)
  BY TaskStepKeeps
<1>2. NobodyComes(Mbx)
  BY <1>1, MailboxAssumption DEF NobodyComes
<1>3. MbxWaits'
  BY <1>1, <1>2, MbxWaitsKept DEF MbxInv, mbxvars
<1>4. MbxInv'
  BY <1>3 DEF MbxInv, mbxvars
<1>5. MailQueues' = MailQueues
  BY MailIs DEF mbxvars
<1> QED BY <1>1, <1>4, <1>5 DEF ServesMailStep

(* A message is put into the queue of a mailbox.                           *)
LEMMA MailPuts ==
  ASSUME NEW b \in Mbx, NEW m \in Msg,
         \A c \in Mbx : m \notin ToSet(MailQueues[c]),
         \E i \in 1 .. Len(MailQueues[b]) + 1 :
           /\ Place(MailQueues[b], i, m, b \in TaMpri)
           /\ MailQueues' = [MailQueues EXCEPT ![b] = InsertAt(MailQueues[b], i, m)]
  PROVE  ServesMailStep
<1> DEFINE Q == MailQueues
<1>1. m \notin MailQueue!Queued
  BY DEF MailQueue!Queued, MailQueues, MailQueue!ToSet, ToSet
<1>2. PICK i \in 1 .. Len(Q[b]) + 1 :
        /\ Place(Q[b], i, m, b \in TaMpri)
        /\ Q' = [Q EXCEPT ![b] = InsertAt(Q[b], i, m)]
  OBVIOUS
<1>3. MailQueue!Put(b, m)
  BY <1>1, <1>2 DEF MailQueue!Put, MailQueues, Place, MailQueue!InsertAt, InsertAt
<1> QED BY <1>3 DEF ServesMailStep, MailQueue!Next

(* The first message is taken from the queue of a mailbox.                 *)
LEMMA MailTakes ==
  ASSUME NEW b \in Mbx, MailQueues[b] # << >>,
         MailQueues' = [MailQueues EXCEPT ![b] = Tail(MailQueues[b])]
  PROVE  ServesMailStep
<1>1. MailQueue!Take(b)
  BY DEF MailQueue!Take, MailQueues
<1> QED BY <1>1 DEF ServesMailStep, MailQueue!Next

(* The queue of a mailbox is discarded.                                    *)
LEMMA MailDiscards ==
  ASSUME NEW b \in Mbx, MailQueues' = [MailQueues EXCEPT ![b] = << >>]
  PROVE  ServesMailStep
<1>1. MailQueue!Discard(b)
  BY DEF MailQueue!Discard, MailQueues
<1> QED BY <1>1 DEF ServesMailStep, MailQueue!Next
(* A mailbox is created: without messages, whatever the block of it kept.  *)
LEMMA CreMbxKeeps ==
  ASSUME IInv, MbxInv, NEW b \in Mbx, cre_mbx(b)
  PROVE  IInv' /\ (Sorted => Sorted') /\ KeepsTurns /\ MbxInv' /\ ServesMailStep
<1>1. /\ mbxs \in SUBSET Mbx /\ mq \in [Mbx -> MsgList] /\ "nowhere" \notin Mbx
      /\ Boxed(mbxs, mq, nextmsg, sent_to, TaMpri) /\ MbxWaits
      /\ sent_to \in [Msg -> mbxs \cup {"nowhere"}]
  BY MailboxAssumption DEF MbxInv, Boxed
<1>2. /\ b \notin mbxs /\ mbxs' = mbxs \cup {b} /\ mq' = [mq EXCEPT ![b].mq_head = NULL]
      /\ UNCHANGED vars /\ UNCHANGED <<nextmsg, sent_to>>
  BY DEF cre_mbx
<1>3. IInv' /\ (Sorted => Sorted') /\ KeepsTurns /\ NobodyComes(Gcb)
  BY <1>2, TaskStepKeeps
<1>4. mq' \in [Mbx -> MsgList] /\ mq'[b].mq_head = NULL /\ \A c \in Mbx \ {b} : mq'[c] = mq[c]
  BY <1>1, <1>2 DEF MsgList
<1>5. /\ Boxed(mbxs', mq', nextmsg, sent_to, TaMpri)
      /\ Contents(mq'[b], nextmsg) = << >>
      /\ \A c \in mbxs : Contents(mq'[c], nextmsg) = Contents(mq[c], nextmsg)
  <2> DEFINE B2 == mbxs'
             L2 == mq'
  <2>1. "nowhere" \notin B2 /\ sent_to \in [Msg -> B2 \cup {"nowhere"}] /\ b \in B2 \cap {b}
        /\ \A c \in mbxs : c \in B2 \ {b}
    BY <1>1, <1>2
  <2>2. \A c \in B2 \cap {b} : /\ L2[c] \in MsgList /\ L2[c].mq_head = NULL
                             /\ \A m \in Msg : sent_to[m] # c
    BY <1>1, <1>2, <1>4
  <2>3. \A c \in B2 \ {b} : /\ c \in mbxs /\ L2[c] = mq[c]
                          /\ \A m \in Msg : sent_to[m] = c <=> sent_to[m] = c
    BY <1>1, <1>2, <1>4
  <2> HIDE DEF B2, L2
  <2>4. CanForget(mbxs, mq, nextmsg, sent_to, TaMpri, B2, L2, sent_to, {b})
    BY <1>1, <2>1, <2>2, <2>3 DEF CanForget
  <2>5. BoxHasForgotten(mq, nextmsg, TaMpri, B2, L2, sent_to, {b})
    BY <2>4, BoxedForget, Zenon
  <2> QED BY <2>1, <2>5 DEF BoxHasForgotten, B2, L2
<1>6. MbxWaits'
  <2>1. NobodyComes(Mbx)
    BY <1>3, MailboxAssumption DEF NobodyComes
  <2>2. \A c \in Mbx : wait_tskid(c)' # NoTask /\ c \in mbxs /\ mq[c].mq_head = NULL
                       => c \in mbxs' /\ mq'[c].mq_head = NULL
    BY <1>2, <1>4
  <2> QED BY <1>1, <1>3, <2>1, <2>2, MbxWaitsKept
<1>7. MbxInv'
  <2>1. mbxs' \in SUBSET Mbx
    BY <1>1, <1>2
  <2>2. Boxed(mbxs', mq', nextmsg', sent_to', TaMpri)
    BY <1>2, <1>5
  <2> QED BY <1>4, <1>6, <2>1, <2>2 DEF MbxInv
<1>8. MailQueues' = MailQueues
  <2>1. ASSUME NEW c \in Mbx
        PROVE  (IF c \in mbxs' THEN Contents(mq'[c], nextmsg') ELSE << >>)
                 = (IF c \in mbxs THEN Contents(mq[c], nextmsg) ELSE << >>)
    BY <1>2, <1>5
  <2>2. QueuesOf(Mbx, mbxs', mq', nextmsg') = QueuesOf(Mbx, mbxs, mq, nextmsg)
    BY <2>1 DEF QueuesOf
  <2> QED BY <2>2, MailIs
<1> QED BY <1>3, <1>7, <1>8 DEF ServesMailStep

(* A mailbox is deleted: those who wait go on, and nobody has been sent    *)
(* the messages that are in it.                                            *)
LEMMA DelMbxKeeps ==
  ASSUME IInv, MbxInv, NEW b \in Mbx, del_mbx(b)
  PROVE  IInv' /\ (Sorted => Sorted') /\ KeepsTurns /\ MbxInv' /\ ServesMailStep
<1>1. /\ mbxs \in SUBSET Mbx /\ mq \in [Mbx -> MsgList] /\ "nowhere" \notin Mbx /\ b \in Gcb
      /\ Boxed(mbxs, mq, nextmsg, sent_to, TaMpri) /\ MbxWaits
      /\ sent_to \in [Msg -> mbxs \cup {"nowhere"}]
  BY MailboxAssumption DEF MbxInv, Boxed
<1>2. /\ b \in mbxs /\ mbxs' = mbxs \ {b} /\ UNCHANGED <<mq, nextmsg>>
      /\ sent_to' = [m \in Msg |-> IF sent_to[m] = b THEN "nowhere" ELSE sent_to[m]]
      /\ wait_delete(b) /\ UNCHANGEDcalls
  BY DEF del_mbx, UNCHANGEDcalls
<1>3. /\ IInv' /\ (Sorted => Sorted') /\ KeepsTurns /\ NobodyComes(Gcb)
      /\ wait_queue'[b] = << >>
  BY <1>1, <1>2, DeleteKeeps
<1>5. /\ Boxed(mbxs', mq, nextmsg, sent_to', TaMpri)
  <2> DEFINE B2 == mbxs'
             sent2 == sent_to'
  <2>1. /\ "nowhere" \notin B2 /\ sent2 \in [Msg -> B2 \cup {"nowhere"}]
        /\ \A c \in B2 \ {} : /\ c \in mbxs /\ mq[c] = mq[c]
                            /\ \A m \in Msg : sent2[m] = c <=> sent_to[m] = c
    BY <1>1, <1>2
  <2>2. \A c \in B2 \cap {} : /\ mq[c] \in MsgList /\ mq[c].mq_head = NULL
                             /\ \A m \in Msg : sent2[m] # c
    OBVIOUS
  <2> HIDE DEF B2, sent2
  <2>3. CanForget(mbxs, mq, nextmsg, sent_to, TaMpri, B2, mq, sent2, {})
    BY <1>1, <2>1, <2>2 DEF CanForget
  <2>4. BoxHasForgotten(mq, nextmsg, TaMpri, B2, mq, sent2, {})
    BY <2>3, BoxedForget, Zenon
  <2> QED BY <2>4 DEF BoxHasForgotten, B2, sent2
<1>6. MbxWaits'
  <2>1. NobodyComes(Mbx)
    BY <1>3, MailboxAssumption DEF NobodyComes
  <2>2. wait_tskid(b)' = NoTask
    BY <1>3 DEF wait_tskid
  <2>3. \A c \in Mbx : wait_tskid(c)' # NoTask /\ c \in mbxs /\ mq[c].mq_head = NULL
                       => c \in mbxs' /\ mq'[c].mq_head = NULL
    BY <1>2, <2>2
  <2> QED BY <1>1, <1>3, <2>1, <2>3, MbxWaitsKept
<1>7. MbxInv'
  <2>1. mbxs' \in SUBSET Mbx /\ mq' \in [Mbx -> MsgList]
    BY <1>1, <1>2
  <2>2. Boxed(mbxs', mq', nextmsg', sent_to', TaMpri)
    BY <1>2, <1>5
  <2> QED BY <1>6, <2>1, <2>2 DEF MbxInv
<1>8. MailQueues' = [MailQueues EXCEPT ![b] = << >>]
  <2>1. UNCHANGED <<mq, nextmsg>> /\ mbxs' = mbxs \ {b}
    BY <1>2
  <2>2. QueuesOf(Mbx, mbxs', mq', nextmsg') = [QueuesOf(Mbx, mbxs, mq, nextmsg) EXCEPT ![b] = << >>]
    BY <2>1 DEF QueuesOf
  <2> QED BY <2>2, MailIs
<1> QED BY <1>3, <1>7, <1>8, MailDiscards

(* A message is sent: to the first task that waits, or into the queue.     *)
LEMMA SndMsgKeeps ==
  ASSUME IInv, MbxInv, NEW b \in Mbx, NEW m \in Msg, sent_to[m] = "nowhere", snd_msg(b, m)
  PROVE  IInv' /\ (Sorted => Sorted') /\ KeepsTurns /\ MbxInv' /\ ServesMailStep
<1>1. /\ mbxs \in SUBSET Mbx /\ mq \in [Mbx -> MsgList] /\ b \in Gcb /\ b \in mbxs
      /\ Boxed(mbxs, mq, nextmsg, sent_to, TaMpri) /\ MbxWaits
  BY MailboxAssumption DEF MbxInv, snd_msg
<1>2. CASE wait_queue[b] # << >>
  <2>1. Next
    BY <1>1, <1>2, FirstReleased DEF snd_msg, UNCHANGEDcalls
  <2>2. UNCHANGED mbxvars
    BY <1>2 DEF snd_msg, mbxvars
  <2> QED BY <2>1, <2>2, MbxOtherKeeps
<1>3. CASE wait_queue[b] = << >>
  <2> DEFINE sent == IF b \in TaMpri THEN queue_insert_mpri(mq[b], m) ELSE msg_append(mq[b], m)
  <2>1. /\ mq' = [mq EXCEPT ![b] = sent.list] /\ nextmsg' = sent.nextmsg
        /\ sent_to' = [sent_to EXCEPT ![m] = b] /\ UNCHANGED mbxs
    BY <1>3 DEF snd_msg
  <2>2. UNCHANGED vars
    BY <1>3 DEF snd_msg, vars, taskvars, cpuvars, countvars, privars, schedvars, waitvars
  <2>3. Sends(sent, mq[b], m, b \in TaMpri)
    BY DEF Sends
  <2> HIDE DEF sent
  <2>4. IInv' /\ (Sorted => Sorted') /\ KeepsTurns /\ NobodyComes(Gcb)
    BY <2>2, TaskStepKeeps
  <2>5. mq'[b] = sent.list /\ \A c \in mbxs \ {b} : mq'[c] = mq[c]
    BY <1>1, <2>1
  <2>6. /\ Boxed(mbxs, mq', nextmsg', sent_to', TaMpri)
        /\ \A c \in mbxs : m \notin ToSet(Contents(mq[c], nextmsg))
        /\ \E i \in 1 .. Len(Contents(mq[b], nextmsg)) + 1 :
             /\ Place(Contents(mq[b], nextmsg), i, m, b \in TaMpri)
             /\ QueuesOf(Mbx, mbxs, mq', nextmsg') =
                  [QueuesOf(Mbx, mbxs, mq, nextmsg) EXCEPT ![b] = InsertAt(Contents(mq[b], nextmsg), i, m)]
    <3> DEFINE L2 == mq'
    <3>1. L2[b] = sent.list /\ \A c \in mbxs \ {b} : L2[c] = mq[c]
      BY <2>5
    <3> HIDE DEF L2
    <3>2. mbxs \subseteq Mbx
      BY <1>1
    <3>3. CanSend(Mbx, mbxs, mq, sent_to, TaMpri, b, m, sent, L2)
      BY <1>1, <2>3, <3>1, <3>2 DEF CanSend
    <3>4. BoxHasSent(Mbx, mbxs, mq, sent_to, TaMpri, b, m, sent.nextmsg, L2)
      BY <3>3, BoxedSend, Zenon
    <3> QED BY <2>1, <3>4 DEF BoxHasSent, L2
  <2>7. mq'[b] \in MsgList /\ mq' \in [Mbx -> MsgList]
    <3> DEFINE L2 == mq'
               sent2 == sent_to'
    <3>1. Boxed(mbxs, L2, nextmsg', sent2, TaMpri)
      BY <2>6
    <3> HIDE DEF L2, sent2
    <3>2. L2[b] \in MsgList
      BY <1>1, <3>1 DEF Boxed, BoxOK
    <3> QED BY <1>1, <2>1, <3>2 DEF L2
  <2>8. MbxWaits'
    <3>1. NobodyComes(Mbx)
      BY <2>4, MailboxAssumption DEF NobodyComes
    <3>2. wait_tskid(b)' = NoTask
      BY <1>3, <2>2 DEF wait_tskid, vars, taskvars, waitvars
    <3>3. \A c \in Mbx : wait_tskid(c)' # NoTask /\ c \in mbxs /\ mq[c].mq_head = NULL
                         => c \in mbxs' /\ mq'[c].mq_head = NULL
      BY <2>1, <2>5, <3>2
    <3> QED BY <1>1, <2>4, <3>1, <3>3, MbxWaitsKept
  <2>9. MbxInv'
    <3>1. mbxs' \in SUBSET Mbx /\ Boxed(mbxs', mq', nextmsg', sent_to', TaMpri)
      BY <1>1, <2>1, <2>6
    <3> QED BY <2>7, <2>8, <3>1 DEF MbxInv
  <2>10. ServesMailStep
    <3>1. MailQueues[b] = Contents(mq[b], nextmsg)
      BY <1>1, MailIs DEF QueuesOf
    <3>2. ASSUME NEW c \in Mbx PROVE m \notin ToSet(MailQueues[c])
      <4>1. CASE c \in mbxs
        BY <2>6, <4>1, MailIs DEF QueuesOf
      <4>2. CASE c \notin mbxs
        BY <4>2, MailIs DEF QueuesOf, ToSet
      <4> QED BY <4>1, <4>2
    <3>3. MailQueues' = QueuesOf(Mbx, mbxs, mq', nextmsg') /\ MailQueues = QueuesOf(Mbx, mbxs, mq, nextmsg)
      BY <2>1, MailIs
    <3>4. \E i \in 1 .. Len(MailQueues[b]) + 1 :
            /\ Place(MailQueues[b], i, m, b \in TaMpri)
            /\ MailQueues' = [MailQueues EXCEPT ![b] = InsertAt(MailQueues[b], i, m)]
      BY <2>6, <3>1, <3>3
    <3> QED BY <3>2, <3>4, MailPuts
  <2> QED BY <2>4, <2>9, <2>10
<1> QED BY <1>2, <1>3

(* A task receives the first message, or waits for one.                    *)
LEMMA RcvMsgKeeps ==
  ASSUME IInv, MbxInv, NEW b \in Mbx, NEW timed, trcv_msg(b, timed)
  PROVE  IInv' /\ (Sorted => Sorted') /\ KeepsTurns /\ MbxInv' /\ ServesMailStep
<1>1. /\ mbxs \in SUBSET Mbx /\ mq \in [Mbx -> MsgList] /\ b \in Gcb /\ b \in mbxs
      /\ Boxed(mbxs, mq, nextmsg, sent_to, TaMpri) /\ MbxWaits
  BY MailboxAssumption DEF MbxInv, trcv_msg
<1>2. CASE mq[b].mq_head # NULL
  <2>1. /\ mq' = [mq EXCEPT ![b] = msg_remove(@)]
        /\ sent_to' = [sent_to EXCEPT ![mq[b].mq_head] = "nowhere"] /\ UNCHANGED <<mbxs, nextmsg>>
    BY <1>2 DEF trcv_msg
  <2>2. UNCHANGED vars
    BY <1>2 DEF trcv_msg, vars, taskvars, cpuvars, countvars, privars, schedvars, waitvars
  <2>3. mq'[b] = msg_remove(mq[b]) /\ \A c \in mbxs \ {b} : mq'[c] = mq[c]
    BY <1>1, <2>1
  <2>4. IInv' /\ (Sorted => Sorted') /\ KeepsTurns /\ NobodyComes(Gcb)
    BY <2>2, TaskStepKeeps
  <2>5. /\ Boxed(mbxs, mq', nextmsg, sent_to', TaMpri)
        /\ Contents(mq[b], nextmsg) # << >>
        /\ QueuesOf(Mbx, mbxs, mq', nextmsg) =
              [QueuesOf(Mbx, mbxs, mq, nextmsg) EXCEPT ![b] = Tail(Contents(mq[b], nextmsg))]
    <3> DEFINE L2 == mq'
    <3>1. L2[b] = msg_remove(mq[b]) /\ \A c \in mbxs \ {b} : L2[c] = mq[c]
      BY <2>3
    <3> HIDE DEF L2
    <3>2. mbxs \subseteq Mbx
      BY <1>1
    <3>3. CanReceive(Mbx, mbxs, mq, sent_to, TaMpri, b, L2)
      BY <1>1, <1>2, <3>1, <3>2 DEF CanReceive
    <3>4. BoxHasReceived(Mbx, mbxs, mq, sent_to, TaMpri, b, L2)
      BY <3>3, BoxedReceive, Zenon
    <3> QED BY <2>1, <3>4 DEF BoxHasReceived, L2
  <2>6. mq' \in [Mbx -> MsgList]
    <3> DEFINE L2 == mq'
               sent2 == sent_to'
    <3>1. Boxed(mbxs, L2, nextmsg, sent2, TaMpri)
      BY <2>5
    <3> HIDE DEF L2, sent2
    <3>2. L2[b] \in MsgList
      BY <1>1, <3>1 DEF Boxed, BoxOK
    <3> QED BY <1>1, <2>1, <3>2 DEF L2
  <2>7. MbxWaits'
    <3>1. NobodyComes(Mbx)
      BY <2>4, MailboxAssumption DEF NobodyComes
    <3>2. \A c \in Mbx : wait_tskid(c)' # NoTask /\ c \in mbxs /\ mq[c].mq_head = NULL
                         => c \in mbxs' /\ mq'[c].mq_head = NULL
      BY <1>2, <2>1, <2>3
    <3> QED BY <1>1, <2>4, <3>1, <3>2, MbxWaitsKept
  <2>8. MbxInv'
    <3>1. mbxs' \in SUBSET Mbx /\ Boxed(mbxs', mq', nextmsg', sent_to', TaMpri)
      BY <1>1, <2>1, <2>5
    <3> QED BY <2>6, <2>7, <3>1 DEF MbxInv
  <2>9. MailQueues' = [MailQueues EXCEPT ![b] = Tail(MailQueues[b])] /\ MailQueues[b] # << >>
    <3>1. MailQueues' = QueuesOf(Mbx, mbxs, mq', nextmsg) /\ MailQueues = QueuesOf(Mbx, mbxs, mq, nextmsg)
      BY <2>1, MailIs
    <3>2. MailQueues[b] = Contents(mq[b], nextmsg)
      BY <1>1, MailIs DEF QueuesOf
    <3> QED BY <2>5, <3>1, <3>2
  <2> QED BY <2>4, <2>8, <2>9, MailTakes
<1>3. CASE mq[b].mq_head = NULL
  <2>1. gcb_make_wait(b, timed) /\ UNCHANGED mbxvars /\ UNCHANGEDcalls /\ in_task /\ ~in_ddsp
    BY <1>3 DEF trcv_msg, mbxvars, UNCHANGEDcalls
  <2>2. IInv' /\ (Sorted => Sorted') /\ KeepsTurns /\ NobodyComes(Gcb \ {b})
    BY <1>1, <2>1, WaitKeeps
  <2>3. ASSUME NEW c \in Mbx, wait_tskid(c)' # NoTask
        PROVE  c \in mbxs' /\ mq'[c].mq_head = NULL
    <3>1. CASE c = b
      BY <1>1, <1>3, <2>1, <3>1 DEF mbxvars
    <3>2. CASE c # b
      <4>1. c \in Gcb \ {b} /\ Gcb \ {b} \in SUBSET Gcb
        BY <3>2, MailboxAssumption
      <4>2. wait_tskid(c) # NoTask
        BY <2>2, <2>3, <4>1, StaysEmpty
      <4> QED BY <1>1, <2>1, <4>2 DEF MbxWaits, mbxvars
    <3> QED BY <3>1, <3>2
  <2>4. MbxInv'
    BY <2>1, <2>3 DEF MbxInv, MbxWaits, mbxvars
  <2>5. MailQueues' = MailQueues
    BY <2>1, MailIs DEF mbxvars
  <2> QED BY <2>2, <2>4, <2>5 DEF ServesMailStep
<1> QED BY <1>2, <1>3

(* The calls of mailboxes.                                                 *)
LEMMA MbxCallKeeps ==
  ASSUME IInv, MbxInv, MbxCall
  PROVE  IInv' /\ (Sorted => Sorted') /\ KeepsTurns /\ MbxInv' /\ ServesMailStep
  BY CreMbxKeeps, DelMbxKeeps, SndMsgKeeps, RcvMsgKeeps DEF MbxCall
-----------------------------------------------------------------------------
(***************************************************************************)
(* Task mailboxes.  They are those of the tasks that exist; a task that is *)
(* not started has no message, and neither has one that waits for one.     *)
(***************************************************************************)
Existing == {t \in Task : state[t] # "NONEXIST"}

NoMail(t) == state[t] = "DORMANT" \/ wspec[t] = "tmb"

TmbInv ==
  /\ tmq \in [Task -> MsgList]
  /\ Boxed(Existing, tmq, nextmsg, sent_to, {})
  /\ \A t \in Task : NoMail(t) => tmq[t].mq_head = NULL

MailOfTasks == [t \in Task |-> mail(t)]

ServesTaskMailStep == [TaskMail!Next]_MailOfTasks

(* The queues are those of the lists.                                      *)
LEMMA TaskMailIs ==
  /\ MailOfTasks = QueuesOf(Task, Existing, tmq, nextmsg)
  /\ MailOfTasks' = QueuesOf(Task, Existing', tmq', nextmsg')
<1>1. MailOfTasks = QueuesOf(Task, Existing, tmq, nextmsg)
  BY DEF MailOfTasks, QueuesOf, mail, messages, Contents, Existing
<1>2. MailOfTasks' = QueuesOf(Task, Existing', tmq', nextmsg')
  BY DEF MailOfTasks, QueuesOf, mail, messages, Contents, Existing
<1> QED BY <1>1, <1>2

(* The invariant is what the runs check.                                   *)
LEMMA TmbSays ==
  ASSUME IInv, TmbInv
  PROVE  TmbTypeOK /\ NoMailWhileWaiting /\ MailExact
<1>1. /\ nextmsg \in [Msg -> Msg \cup {NULL}]
      /\ sent_to \in [Msg -> Existing \cup {"nowhere"}] /\ Existing \subseteq Task
      /\ tmq \in [Task -> MsgList]
  BY DEF TmbInv, Boxed, Links, Existing
<1>2. TmbTypeOK
  <2>1. sent_to \in [Msg -> Task \cup {"nowhere"}]
    BY <1>1
  <2> QED BY <1>1, <2>1 DEF TmbTypeOK, IInv
<1>3. NoMailWhileWaiting
  BY ReadyQueueAssumption DEF NoMailWhileWaiting, vref_tmb, TmbInv, NoMail
<1>4. ASSUME NEW t \in Task
      PROVE  IsInjective(mail(t)) /\ ToSet(mail(t)) = {m \in Msg : sent_to[m] = t}
  <2>1. CASE t \in Existing
    <3>1. mail(t) = Contents(tmq[t], nextmsg)
      BY <2>1 DEF mail, messages, Contents, Existing
    <3>2. /\ Contents(tmq[t], nextmsg) \in Queue(Msg)
          /\ ToSet(Contents(tmq[t], nextmsg)) = Mine(sent_to, t)
      BY <2>1, BoxedSays DEF TmbInv
    <3> QED BY <3>1, <3>2, QueueInjective DEF Mine
  <2>2. CASE t \notin Existing
    <3>1. mail(t) = << >>
      BY <2>2 DEF mail, Existing
    <3>2. {m \in Msg : sent_to[m] = t} = {}
      BY <1>1, <2>2, TaskMailboxAssumption
    <3>3. IsInjective(<< >>) /\ ToSet(<< >>) = {}
      BY DEF IsInjective, ToSet
    <3> QED BY <3>1, <3>2, <3>3
  <2> QED BY <2>1, <2>2
<1> QED BY <1>2, <1>3, <1>4 DEF MailExact

(* A message is put into the mailbox of a task.                            *)
LEMMA TaskMailPuts ==
  ASSUME NEW t \in Task, NEW m \in Msg,
         \A u \in Task : m \notin ToSet(MailOfTasks[u]),
         \E i \in 1 .. Len(MailOfTasks[t]) + 1 :
           /\ Place(MailOfTasks[t], i, m, t \in {})
           /\ MailOfTasks' = [MailOfTasks EXCEPT ![t] = InsertAt(MailOfTasks[t], i, m)]
  PROVE  ServesTaskMailStep
<1> DEFINE Q == MailOfTasks
<1>1. m \notin TaskMail!Queued
  BY DEF TaskMail!Queued, MailOfTasks, TaskMail!ToSet, ToSet
<1>2. PICK i \in 1 .. Len(Q[t]) + 1 :
        /\ Place(Q[t], i, m, t \in {})
        /\ Q' = [Q EXCEPT ![t] = InsertAt(Q[t], i, m)]
  OBVIOUS
<1>3. TaskMail!Put(t, m)
  BY <1>1, <1>2 DEF TaskMail!Put, MailOfTasks, Place, TaskMail!InsertAt, InsertAt
<1> QED BY <1>3 DEF ServesTaskMailStep, TaskMail!Next

(* A task takes its first message.                                         *)
LEMMA TaskMailTakes ==
  ASSUME NEW t \in Task, MailOfTasks[t] # << >>,
         MailOfTasks' = [MailOfTasks EXCEPT ![t] = Tail(MailOfTasks[t])]
  PROVE  ServesTaskMailStep
<1>1. TaskMail!Take(t)
  BY DEF TaskMail!Take, MailOfTasks
<1> QED BY <1>1 DEF ServesTaskMailStep, TaskMail!Next

(* The mail of a task that ends is discarded.                              *)
LEMMA TaskMailDiscards ==
  ASSUME NEW t \in Task, MailOfTasks' = [MailOfTasks EXCEPT ![t] = << >>]
  PROVE  ServesTaskMailStep
<1>1. TaskMail!Discard(t)
  BY DEF TaskMail!Discard, MailOfTasks
<1> QED BY <1>1 DEF ServesTaskMailStep, TaskMail!Next

(* A step of task management: the mail of a task that ends is forgotten.   *)
LEMMA TmbOtherKeeps ==
  ASSUME IInv, TmbInv, [Next]_vars, empty_mailboxes
  PROVE  IInv' /\ (Sorted => Sorted') /\ KeepsTurns /\ TmbInv' /\ ServesTaskMailStep
<1>1. IInv' /\ (Sorted => Sorted') /\ KeepsTurns
  BY TaskStepKeeps
<1>2. StateSteps
  BY NextStateSteps
<1>3. /\ state \in [Task -> TSTAT] /\ state' \in [Task -> TSTAT] /\ "nowhere" \notin Task
      /\ tmq \in [Task -> MsgList] /\ sent_to \in [Msg -> Existing \cup {"nowhere"}]
      /\ Boxed(Existing, tmq, nextmsg, sent_to, {})
      /\ \A t \in Task : NoMail(t) => tmq[t].mq_head = NULL
  BY <1>1, TaskMailboxAssumption DEF IInv, TypeOK, TmbInv, Boxed
<1>4. tmq' = [t \in Task |-> IF state'[t] = "DORMANT" THEN [tmq[t] EXCEPT !.mq_head = NULL] ELSE tmq[t]]
  BY DEF empty_mailboxes, emptied
<1>5. ASSUME NEW t \in Task
      PROVE  /\ tmq'[t] \in MsgList
             /\ state'[t] = "DORMANT" => tmq'[t].mq_head = NULL
             /\ state'[t] # "DORMANT" => tmq'[t] = tmq[t]
             /\ tmq[t].mq_head = NULL => tmq'[t].mq_head = NULL
  BY <1>3, <1>4 DEF MsgList
<1>6. /\ UNCHANGED nextmsg
      /\ \A m \in Msg : sent_to'[m] = IF \E t \in Task : sent_to[m] = t /\ ~task_alive(t)'
                                     THEN "nowhere" ELSE sent_to[m]
  BY DEF empty_mailboxes
<1> DEFINE B2 == Existing'
           L2 == tmq'
           sent2 == sent_to'
           E == {t \in Task : ~task_alive(t)'}
<1>7. BoxHasForgotten(tmq, nextmsg, {}, B2, L2, sent2, E)
  <2>1. /\ B2 \subseteq Task /\ E \subseteq Task
        /\ \A t \in Task : /\ t \in B2 <=> state'[t] # "NONEXIST"
                           /\ t \in E <=> state'[t] \in {"NONEXIST", "DORMANT"}
    BY <1>3 DEF Existing, task_alive, TSTAT, TS_WAIT, TS_SUSPEND
  <2>2. \A t \in B2 \ E : t \in Existing
    BY <1>2, <2>1 DEF StateSteps, Existing
  <2>3. /\ sent2 = [m \in Msg |-> sent2[m]]
        /\ \A m \in Msg : sent2[m] = IF sent_to[m] \in E THEN "nowhere" ELSE sent_to[m]
    BY <1>6 DEF empty_mailboxes
  <2>4. \A t \in Task : /\ L2[t] \in MsgList
                        /\ state'[t] = "DORMANT" => L2[t].mq_head = NULL
                        /\ state'[t] # "DORMANT" => L2[t] = tmq[t]
    BY <1>5
  <2>5. \A m \in Msg : sent_to[m] \in Task \/ sent_to[m] = "nowhere"
    BY <1>3 DEF Existing
  <2> HIDE DEF B2, L2, sent2, E
  <2>7. "nowhere" \notin B2 /\ sent2 \in [Msg -> B2 \cup {"nowhere"}]
    <3>1. ASSUME NEW m \in Msg PROVE sent2[m] \in B2 \cup {"nowhere"}
      BY <2>1, <2>3, <2>5
    <3> QED BY <1>3, <2>1, <2>3, <3>1
  <2>8. ASSUME NEW t \in B2 \cap E
        PROVE  L2[t] \in MsgList /\ L2[t].mq_head = NULL /\ \A m \in Msg : sent2[m] # t
    <3>1. t \in Task /\ t # "nowhere" /\ state'[t] = "DORMANT"
      BY <1>3, <2>1
    <3> QED BY <2>3, <2>4, <3>1
  <2>9. ASSUME NEW t \in B2 \ E
        PROVE  /\ t \in Existing /\ L2[t] = tmq[t]
               /\ \A m \in Msg : sent2[m] = t <=> sent_to[m] = t
    <3>1. t \in Task /\ t # "nowhere" /\ state'[t] # "DORMANT" /\ t \in Existing
      BY <1>3, <2>1, <2>2
    <3> QED BY <2>3, <2>4, <3>1
  <2>6. CanForget(Existing, tmq, nextmsg, sent_to, {}, B2, L2, sent2, E)
    BY <1>3, <2>7, <2>8, <2>9 DEF CanForget
  <2> QED BY <2>6, BoxedForget, Zenon
<1>8. Boxed(Existing', tmq', nextmsg', sent_to', {})
  BY <1>6, <1>7 DEF BoxHasForgotten
<1>9. TmbInv'
  <2>1. tmq' = [t \in Task |-> L2[t]]
    BY <1>4
  <2>2. \A t \in Task : L2[t] \in MsgList
    BY <1>5
  <2> HIDE DEF L2
  <2>3. tmq' \in [Task -> MsgList]
    BY <2>1, <2>2
  <2>4. ASSUME NEW t \in Task, NoMail(t)' PROVE tmq'[t].mq_head = NULL
    <3>1. CASE state'[t] = "DORMANT"
      BY <1>5, <3>1
    <3>2. CASE wspec'[t] = "tmb"
      <4>1. NoMail(t)
        BY <1>2, <3>2 DEF StateSteps, NoMail
      <4> QED BY <1>3, <1>5, <4>1
    <3> QED BY <2>4, <3>1, <3>2 DEF NoMail
  <2> QED BY <1>8, <2>3, <2>4 DEF TmbInv
<1>10. ASSUME NEW t \in Task
       PROVE  /\ task_alive(t)' => MailOfTasks'[t] = MailOfTasks[t]
              /\ ~task_alive(t)' => MailOfTasks'[t] = << >>
              /\ ~task_alive(t) => MailOfTasks[t] = << >>
  <2>1. /\ MailOfTasks[t] = IF t \in Existing THEN Contents(tmq[t], nextmsg) ELSE << >>
        /\ MailOfTasks'[t] = IF t \in B2 THEN Contents(L2[t], nextmsg) ELSE << >>
    BY <1>6, TaskMailIs DEF QueuesOf
  <2>2. /\ t \in B2 <=> state'[t] # "NONEXIST"
        /\ task_alive(t)' <=> t \notin E
        /\ task_alive(t)' => t \in B2 /\ t \in Existing
        /\ ~task_alive(t) /\ t \in Existing => state[t] = "DORMANT"
    BY <1>2, <1>3 DEF StateSteps, Existing, task_alive, TSTAT, TS_WAIT, TS_SUSPEND
  <2>3. ~task_alive(t) /\ t \in Existing => Contents(tmq[t], nextmsg) = << >>
    BY <1>3, <2>2, BoxedSays DEF NoMail
  <2>4. /\ t \in B2 \cap E => Contents(L2[t], nextmsg) = << >>
        /\ t \in B2 \ E => Contents(L2[t], nextmsg) = Contents(tmq[t], nextmsg)
    BY <1>7 DEF BoxHasForgotten
  <2> QED BY <2>1, <2>2, <2>3, <2>4
<1>11. ServesTaskMailStep
  <2>1. PICK t \in Task : \A u \in Task \ {t} : state'[u] = state[u]
    BY <1>2 DEF StateSteps
  <2>2. \A u \in Task \ {t} : task_alive(u)' <=> task_alive(u)
    BY <2>1 DEF task_alive
  <2>3. \A u \in Task \ {t} : MailOfTasks'[u] = MailOfTasks[u]
    BY <1>10, <2>2
  <2>4. MailOfTasks = [u \in Task |-> MailOfTasks[u]] /\ MailOfTasks' = [u \in Task |-> MailOfTasks'[u]]
    BY DEF MailOfTasks
  <2>5. CASE task_alive(t)'
    <3>1. \A u \in Task : MailOfTasks'[u] = MailOfTasks[u]
      BY <1>10, <2>3, <2>5
    <3>2. MailOfTasks' = MailOfTasks
      BY <2>4, <3>1
    <3> QED BY <3>2 DEF ServesTaskMailStep
  <2>6. CASE ~task_alive(t)'
    <3>1. MailOfTasks'[t] = << >>
      BY <1>10, <2>6
    <3>2. MailOfTasks' = [MailOfTasks EXCEPT ![t] = << >>]
      <4> DEFINE Q == MailOfTasks
                 Q2 == MailOfTasks'
      <4>1. Q = [u \in Task |-> Q[u]] /\ Q2 = [u \in Task |-> Q2[u]] /\ Q2[t] = << >>
            /\ \A u \in Task \ {t} : Q2[u] = Q[u]
        BY <2>3, <2>4, <3>1
      <4> HIDE DEF Q, Q2
      <4>2. Q2 = [Q EXCEPT ![t] = << >>]
        BY <4>1
      <4> QED BY <4>2 DEF Q, Q2
    <3> QED BY <3>2, TaskMailDiscards
  <2> QED BY <2>5, <2>6
<1> QED BY <1>1, <1>9, <1>11
(* A step that leaves the mail alone.                                      *)
LEMMA TmbKept ==
  ASSUME TmbInv, UNCHANGED tmbvars, Existing' = Existing,
         \A t \in Task : NoMail(t)' => tmq[t].mq_head = NULL
  PROVE  TmbInv' /\ ServesTaskMailStep
<1>1. UNCHANGED <<tmq, nextmsg, sent_to>>
  BY DEF tmbvars
<1>2. TmbInv'
  BY <1>1 DEF TmbInv
<1>3. MailOfTasks' = MailOfTasks
  BY <1>1, TaskMailIs
<1> QED BY <1>2, <1>3 DEF ServesTaskMailStep

(* A message is sent to a task: it receives it, or it is put into its      *)
(* mailbox.                                                                *)
LEMMA SndTmbKeeps ==
  ASSUME IInv, TmbInv, NEW t \in Task, NEW m \in Msg, sent_to[m] = "nowhere", vsnd_tmb(t, m)
  PROVE  IInv' /\ (Sorted => Sorted') /\ KeepsTurns /\ TmbInv' /\ ServesTaskMailStep
<1>1. /\ tmq \in [Task -> MsgList] /\ task_alive(t) /\ caller
      /\ Boxed(Existing, tmq, nextmsg, sent_to, {})
      /\ \A u \in Task : NoMail(u) => tmq[u].mq_head = NULL
      /\ state \in [Task -> TSTAT]
      /\ wspec \in [Task -> Gcb \cup {"none", "slp", "dly", "tmb", "rdv"}]
  BY DEF TmbInv, vsnd_tmb, IInv, TypeOK
<1>2. CASE waiting(t) /\ wspec[t] = "tmb"
  <2>1. wait_release(t) /\ UNCHANGED <<tmbvars, countvars, privars, cpuvars>>
    BY <1>2 DEF vsnd_tmb
  <2>2. Next
    BY <1>1, <1>2, <2>1 DEF Next, TaskCall, rel_wai
  <2>3. IInv' /\ (Sorted => Sorted') /\ KeepsTurns
    BY <2>2, TaskStepKeeps
  <2>4. state' = [state EXCEPT ![t] = IF state[t] = "WAIT" THEN "READY" ELSE "SUSPEND"]
        /\ wspec' = [wspec EXCEPT ![t] = "none"]
    BY <2>1 DEF wait_release, make_non_wait, make_ready, set_state, wait_cancel
  <2>5. Existing' = Existing
    BY <1>1, <1>2, <2>4 DEF Existing, waiting, TS_WAIT
  <2>6. \A u \in Task : NoMail(u)' => NoMail(u)
    BY <1>1, <2>4 DEF NoMail
  <2> QED BY <1>1, <2>1, <2>3, <2>5, <2>6, TmbKept
<1>3. CASE ~(waiting(t) /\ wspec[t] = "tmb")
  <2> DEFINE sent == msg_append(tmq[t], m)
  <2>1. /\ tmq' = [tmq EXCEPT ![t] = sent.list] /\ nextmsg' = sent.nextmsg
        /\ sent_to' = [sent_to EXCEPT ![m] = t] /\ UNCHANGED vars
    BY <1>3 DEF vsnd_tmb
  <2>2. /\ UNCHANGED <<state, wspec>> /\ Existing' = Existing
        /\ \A u \in Task : NoMail(u)' <=> NoMail(u)
    BY <2>1 DEF vars, taskvars, waitvars, Existing, NoMail
  <2>3. Sends(sent, tmq[t], m, t \in {})
    BY DEF Sends
  <2> HIDE DEF sent
  <2>4. IInv' /\ (Sorted => Sorted') /\ KeepsTurns
    BY <2>1, TaskStepKeeps
  <2>5. tmq'[t] = sent.list /\ \A u \in Task \ {t} : tmq'[u] = tmq[u]
    BY <1>1, <2>1
  <2>6. t \in Existing /\ Existing \subseteq Task
    BY <1>1 DEF Existing, task_alive, TS_WAIT, TS_SUSPEND
  <2>7. /\ Boxed(Existing, tmq', nextmsg', sent_to', {})
        /\ \A u \in Existing : m \notin ToSet(Contents(tmq[u], nextmsg))
        /\ \E i \in 1 .. Len(Contents(tmq[t], nextmsg)) + 1 :
             /\ Place(Contents(tmq[t], nextmsg), i, m, t \in {})
             /\ QueuesOf(Task, Existing, tmq', nextmsg') =
                  [QueuesOf(Task, Existing, tmq, nextmsg)
                     EXCEPT ![t] = InsertAt(Contents(tmq[t], nextmsg), i, m)]
    <3> DEFINE L2 == tmq'
               P == {}
    <3>1. L2[t] = sent.list /\ \A u \in Existing \ {t} : L2[u] = tmq[u]
      BY <2>5, <2>6
    <3>2. Boxed(Existing, tmq, nextmsg, sent_to, P) /\ Sends(sent, tmq[t], m, t \in P)
      BY <1>1, <2>3
    <3> HIDE DEF L2, P
    <3>3. CanSend(Task, Existing, tmq, sent_to, P, t, m, sent, L2)
      BY <2>6, <3>1, <3>2 DEF CanSend
    <3>4. BoxHasSent(Task, Existing, tmq, sent_to, P, t, m, sent.nextmsg, L2)
      BY <3>3, BoxedSend, Zenon
    <3> QED BY <2>1, <3>4 DEF BoxHasSent, L2, P
  <2>8. tmq' \in [Task -> MsgList]
    <3> DEFINE L2 == tmq'
               sent2 == sent_to'
    <3>1. Boxed(Existing, L2, nextmsg', sent2, {})
      BY <2>7
    <3> HIDE DEF L2, sent2
    <3>2. L2[t] \in MsgList
      BY <2>6, <3>1 DEF Boxed, BoxOK
    <3> QED BY <1>1, <2>1, <3>2 DEF L2
  <2>9. TmbInv'
    <3>1. ASSUME NEW u \in Task, NoMail(u)' PROVE tmq'[u].mq_head = NULL
      <4>1. NoMail(u)
        BY <2>2, <3>1
      <4>2. u # t
        BY <1>1, <1>3, <4>1, TaskCoreAssumption
           DEF NoMail, task_alive, TS_WAIT, TS_SUSPEND, IInv, WaitInv
      <4> QED BY <1>1, <2>5, <4>1, <4>2
    <3> QED BY <2>2, <2>7, <2>8, <3>1 DEF TmbInv
  <2>10. ServesTaskMailStep
    <3>1. MailOfTasks' = QueuesOf(Task, Existing, tmq', nextmsg')
          /\ MailOfTasks = QueuesOf(Task, Existing, tmq, nextmsg)
      BY <2>2, TaskMailIs
    <3>2. MailOfTasks[t] = Contents(tmq[t], nextmsg)
      BY <2>6, <3>1 DEF QueuesOf
    <3>3. ASSUME NEW u \in Task PROVE m \notin ToSet(MailOfTasks[u])
      <4>1. CASE u \in Existing
        BY <2>7, <3>1, <4>1 DEF QueuesOf
      <4>2. CASE u \notin Existing
        BY <3>1, <4>2 DEF QueuesOf, ToSet
      <4> QED BY <4>1, <4>2
    <3>4. \E i \in 1 .. Len(MailOfTasks[t]) + 1 :
            /\ Place(MailOfTasks[t], i, m, t \in {})
            /\ MailOfTasks' = [MailOfTasks EXCEPT ![t] = InsertAt(MailOfTasks[t], i, m)]
      BY <2>7, <3>1, <3>2
    <3> QED BY <3>3, <3>4, TaskMailPuts
  <2> QED BY <2>4, <2>9, <2>10
<1> QED BY <1>2, <1>3

(* A task receives the first of its messages, or waits for one.            *)
LEMMA RcvTmbKeeps ==
  ASSUME IInv, TmbInv, NEW timed, vtrcv_tmb(timed)
  PROVE  IInv' /\ (Sorted => Sorted') /\ KeepsTurns /\ TmbInv' /\ ServesTaskMailStep
<1> DEFINE t == ctxtsk
<1>1. /\ tmq \in [Task -> MsgList] /\ t \in Task /\ state[t] = "READY"
      /\ Boxed(Existing, tmq, nextmsg, sent_to, {})
      /\ \A u \in Task : NoMail(u) => tmq[u].mq_head = NULL
      /\ state \in [Task -> TSTAT]
      /\ wspec \in [Task -> Gcb \cup {"none", "slp", "dly", "tmb", "rdv"}]
      /\ in_task /\ ~in_ddsp
  BY CallerTask DEF TmbInv, vtrcv_tmb, IInv, TypeOK, in_ddsp, in_loc, dispatch_enabled
<1>2. CASE tmq[t].mq_head # NULL
  <2>1. /\ tmq' = [tmq EXCEPT ![t] = msg_remove(@)]
        /\ sent_to' = [sent_to EXCEPT ![tmq[t].mq_head] = "nowhere"] /\ UNCHANGED nextmsg
    BY <1>2 DEF vtrcv_tmb
  <2>2. UNCHANGED vars
    BY <1>2 DEF vtrcv_tmb, vars, taskvars, cpuvars, countvars, privars, schedvars, waitvars
  <2>3. /\ UNCHANGED <<state, wspec>> /\ Existing' = Existing
        /\ \A u \in Task : NoMail(u)' <=> NoMail(u)
    BY <2>2 DEF vars, taskvars, waitvars, Existing, NoMail
  <2>4. IInv' /\ (Sorted => Sorted') /\ KeepsTurns
    BY <2>2, TaskStepKeeps
  <2>5. tmq'[t] = msg_remove(tmq[t]) /\ \A u \in Task \ {t} : tmq'[u] = tmq[u]
    BY <1>1, <2>1
  <2>6. t \in Existing /\ Existing \subseteq Task
    BY <1>1 DEF Existing
  <2>7. /\ Boxed(Existing, tmq', nextmsg, sent_to', {})
        /\ Contents(tmq[t], nextmsg) # << >>
        /\ QueuesOf(Task, Existing, tmq', nextmsg) =
              [QueuesOf(Task, Existing, tmq, nextmsg) EXCEPT ![t] = Tail(Contents(tmq[t], nextmsg))]
    <3> DEFINE L2 == tmq'
               P == {}
    <3>1. L2[t] = msg_remove(tmq[t]) /\ \A u \in Existing \ {t} : L2[u] = tmq[u]
      BY <2>5, <2>6
    <3>2. Boxed(Existing, tmq, nextmsg, sent_to, P)
      BY <1>1
    <3> HIDE DEF L2, P
    <3>3. CanReceive(Task, Existing, tmq, sent_to, P, t, L2)
      BY <1>2, <2>6, <3>1, <3>2 DEF CanReceive
    <3>4. BoxHasReceived(Task, Existing, tmq, sent_to, P, t, L2)
      BY <3>3, BoxedReceive, Zenon
    <3> QED BY <2>1, <3>4 DEF BoxHasReceived, L2, P
  <2>8. tmq' \in [Task -> MsgList]
    <3> DEFINE L2 == tmq'
               sent2 == sent_to'
    <3>1. Boxed(Existing, L2, nextmsg, sent2, {})
      BY <2>7
    <3> HIDE DEF L2, sent2
    <3>2. L2[t] \in MsgList
      BY <2>6, <3>1 DEF Boxed, BoxOK
    <3> QED BY <1>1, <2>1, <3>2 DEF L2
  <2>9. TmbInv'
    <3>1. ASSUME NEW u \in Task, NoMail(u)' PROVE tmq'[u].mq_head = NULL
      <4>1. NoMail(u) /\ u # t
        BY <1>1, <1>2, <2>3, <3>1
      <4> QED BY <1>1, <2>5, <4>1
    <3> QED BY <2>1, <2>3, <2>7, <2>8, <3>1 DEF TmbInv
  <2>10. ServesTaskMailStep
    <3>1. MailOfTasks' = QueuesOf(Task, Existing, tmq', nextmsg)
          /\ MailOfTasks = QueuesOf(Task, Existing, tmq, nextmsg)
      BY <2>1, <2>3, TaskMailIs
    <3>2. MailOfTasks[t] = Contents(tmq[t], nextmsg)
      BY <2>6, <3>1 DEF QueuesOf
    <3>3. MailOfTasks[t] # << >> /\ MailOfTasks' = [MailOfTasks EXCEPT ![t] = Tail(MailOfTasks[t])]
      BY <2>7, <3>1, <3>2
    <3> QED BY <1>1, <3>3, TaskMailTakes
  <2> QED BY <2>4, <2>9, <2>10
<1>3. CASE tmq[t].mq_head = NULL
  <2>1. make_wait("tmb", timed) /\ UNCHANGED wait_queue /\ UNCHANGED tmbvars
        /\ UNCHANGED <<countvars, privars, cpuvars>>
    BY <1>3 DEF vtrcv_tmb, tmbvars
  <2>2. /\ wspec' = [wspec EXCEPT ![t] = "tmb"]
        /\ state' = [state EXCEPT ![t] = "WAIT"]
    BY <1>1, <2>1 DEF make_wait, make_non_ready
  <2>3. WaitQueues'
    <3>1. ASSUME NEW g \in Gcb
          PROVE  {u \in Task : wspec'[u] = g} = {u \in Task : wspec[u] = g}
      <4>1. wspec[t] = "none"
        BY <1>1 DEF IInv, WaitInv, waiting, TS_WAIT
      <4> QED BY <1>1, <2>2, <4>1, TaskCoreAssumption
    <3> QED BY <2>1, <3>1 DEF WaitQueues, IInv, WaitInv
  <2>4. IInv'
    <3>1. "tmb" \in Gcb \cup {"slp", "dly", "tmb", "rdv"} /\ "tmb" # "slp"
      OBVIOUS
    <3> QED BY <1>1, <2>1, <2>3, <3>1, MakeWaitInv
  <2>5. (Sorted => Sorted') /\ KeepsTurns
    BY <2>1 DEF Sorted, SortedBy, KeepsTurns, privars
  <2>6. Existing' = Existing
    BY <1>1, <2>2 DEF Existing
  <2>7. ASSUME NEW u \in Task, NoMail(u)' PROVE tmq[u].mq_head = NULL
    <3>1. CASE u = t
      BY <1>3, <3>1
    <3>2. CASE u # t
      <4>1. NoMail(u)
        BY <1>1, <2>2, <2>7, <3>2 DEF NoMail
      <4> QED BY <1>1, <4>1
    <3> QED BY <3>1, <3>2
  <2> QED BY <2>1, <2>4, <2>5, <2>6, <2>7, TmbKept
<1> QED BY <1>2, <1>3

(* The calls of task mailboxes.                                            *)
LEMMA TmbCallKeeps ==
  ASSUME IInv, TmbInv, TmbCall
  PROVE  IInv' /\ (Sorted => Sorted') /\ KeepsTurns /\ TmbInv' /\ ServesTaskMailStep
  BY SndTmbKeeps, RcvTmbKeeps DEF TmbCall
-----------------------------------------------------------------------------
(***************************************************************************)
(* The program with its objects: the invariant of the kind that it uses,   *)
(* and no object of the other kinds.                                       *)
(***************************************************************************)
ObjectOfKind ==
  /\ kind \in {"semaphore", "eventflag", "mailbox", "taskmbox", "mempfix"}
  /\ kind = "semaphore" => SemInv
  /\ kind = "eventflag" => FlgInv
  /\ kind = "mailbox" => MbxInv
  /\ kind = "taskmbox" => TmbInv
  /\ kind = "mempfix" => MpfInv

NoTaskMail ==
  /\ tmq \in [Task -> MsgList] /\ nextmsg \in Links
  /\ \A t \in Task : tmq[t].mq_head = NULL

NoneOfOtherKinds ==
  /\ kind # "eventflag" => flgs = {}
  /\ kind # "mempfix" => mpfs = {}
  /\ kind # "mailbox" => mbxs = {}
  /\ kind # "taskmbox" => NoTaskMail

ObjectsInv == IInv /\ Sorted /\ ObjectOfKind /\ NoneOfOtherKinds

(* What is known of every step.                                            *)
ObjectsStepOK ==
  /\ KeepsTurns /\ ConsumesOnce
  /\ ServesMailStep /\ ServesTaskMailStep
  /\ kind = "mempfix" => PoolStep

(***************************************************************************)
(* Every step of a program that uses one kind of object, and of the tasks  *)
(* any call of task management: more than the instances take.              *)
(***************************************************************************)
ObjectCall ==
  \/ /\ kind = "semaphore" /\ SemCall
     /\ UNCHANGED <<flgvars, mbxvars, tmbvars, mpfvars>>
  \/ /\ kind = "eventflag" /\ FlgCall
     /\ UNCHANGED <<semvars, mbxvars, tmbvars, mpfvars>>
  \/ /\ kind = "mailbox" /\ MbxCall
     /\ UNCHANGED <<semvars, flgvars, tmq, mpfvars>>
  \/ /\ kind = "taskmbox" /\ TmbCall
     /\ UNCHANGED <<semvars, flgvars, mbxs, mq, mpfvars>>
  \/ /\ kind = "mempfix" /\ MpfCall
     /\ UNCHANGED <<semvars, flgvars, mbxvars, tmbvars>>

TaskManagementCall ==
  /\ Next
  /\ UNCHANGED <<semvars, flgvars, mbxs, mq, mpfvars>>
  /\ IF kind = "taskmbox" THEN empty_mailboxes ELSE UNCHANGED tmbvars

ProgramNext == (ObjectCall \/ TaskManagementCall) /\ UNCHANGED kind

ProgramSpec == ObjectsInit /\ [][ProgramNext]_allvars

(* The steps of the instances are some of them.                            *)
LEMMA ObjectSteps ==
  ASSUME ObjectsNext
  PROVE  ProgramNext
<1>c. ASSUME NEW t \in Task, NEW pri \in Priority,
             sta_tsk(t) \/ cre_tsk(t, pri) \/ del_tsk(t) \/ wup_tsk(t)
      PROVE  Next
  BY <1>c, CallIsStep DEF CallOn
<1>1. ASSUME TaskStep PROVE Next
  BY <1>1, InstanceSteps
<1>2. ASSUME OnePriStep PROVE Next
  BY <1>2, <1>c, InstanceSteps, TaskManagementAssumption DEF OnePriStep
<1>3. ASSUME TmbStep PROVE Next
  <2>1. CASE \E t \in Task : del_tsk(t) \/ wup_tsk(t)
    BY <1>c, <2>1, TaskManagementAssumption
  <2>2. CASE exd_tsk \/ \E timed \in BOOLEAN : tslp_tsk(timed)
    BY <2>2 DEF Next, SelfCall
  <2> QED BY <1>2, <1>3, <2>1, <2>2 DEF TmbStep
<1>4. CASE SemaphoreStep
  BY <1>1, <1>4 DEF SemaphoreStep, ProgramNext, ObjectCall, TaskManagementCall, mbxvars, tmbvars
<1>5. CASE EventFlagStep
  BY <1>2, <1>5 DEF EventFlagStep, ProgramNext, ObjectCall, TaskManagementCall, mbxvars, tmbvars
<1>6. CASE MailboxStep
  BY <1>2, <1>6 DEF MailboxStep, ProgramNext, ObjectCall, TaskManagementCall, mbxvars, tmbvars
<1>7. CASE TaskMailboxStep
  BY <1>3, <1>7 DEF TaskMailboxStep, ProgramNext, ObjectCall, TaskManagementCall
<1>8. CASE FixedMemoryPoolStep
  BY <1>1, <1>8 DEF FixedMemoryPoolStep, ProgramNext, ObjectCall, TaskManagementCall, mbxvars, tmbvars
<1> QED BY <1>4, <1>5, <1>6, <1>7, <1>8 DEF ObjectsNext

(* The queues of those mailboxes that have no messages.                    *)
LEMMA NoMailIs ==
  ASSUME NEW Box, NEW B, NEW L, NEW next \in Links,
         \A b \in Box : L[b] \in MsgList /\ L[b].mq_head = NULL
  PROVE  QueuesOf(Box, B, L, next) = [b \in Box |-> << >>]
<1>1. ASSUME NEW b \in Box PROVE Contents(L[b], next) = << >>
  <2> DEFINE list == L[b]
             sorted == FALSE
  <2>1. list \in MsgList /\ list.mq_head = NULL /\ sorted \in BOOLEAN
    OBVIOUS
  <2> HIDE DEF list, sorted
  <2>2. Contents(list, next) = << >>
    BY <2>1, BoxEmpty
  <2> QED BY <2>2 DEF list
<1> QED BY <1>1 DEF QueuesOf

(* What a step keeps that has no part in a kind of object.                 *)
LEMMA OthersKept ==
  ASSUME NoneOfOtherKinds, UNCHANGED kind
  PROVE  /\ kind # "eventflag" /\ UNCHANGED flgvars => ConsumesOnce /\ flgs' = {}
         /\ kind # "mempfix" /\ UNCHANGED mpfvars => mpfs' = {}
         /\ kind # "mailbox" /\ UNCHANGED mbxs => ServesMailStep /\ mbxs' = {}
         /\ kind # "taskmbox" /\ UNCHANGED tmq /\ nextmsg' \in Links
              => ServesTaskMailStep /\ NoTaskMail'
<1>1. ASSUME kind # "eventflag", UNCHANGED flgvars
      PROVE  ConsumesOnce /\ flgs' = {}
  BY <1>1 DEF NoneOfOtherKinds, ConsumesOnce, flgvars
<1>2. ASSUME kind # "mailbox", UNCHANGED mbxs
      PROVE  ServesMailStep /\ mbxs' = {}
  <2>1. mbxs = {} /\ mbxs' = {}
    BY <1>2 DEF NoneOfOtherKinds
  <2>2. MailQueues' = MailQueues
    BY <2>1 DEF MailQueues
  <2> QED BY <2>1, <2>2 DEF ServesMailStep
<1>3. ASSUME kind # "taskmbox", UNCHANGED tmq, nextmsg' \in Links
      PROVE  ServesTaskMailStep /\ NoTaskMail'
  <2>1. NoTaskMail /\ NoTaskMail'
    BY <1>3 DEF NoneOfOtherKinds, NoTaskMail
  <2> DEFINE L == tmq
             next == nextmsg
             L2 == tmq'
             next2 == nextmsg'
             B2 == Existing'
  <2>2. /\ next \in Links /\ \A t \in Task : L[t] \in MsgList /\ L[t].mq_head = NULL
        /\ next2 \in Links /\ \A t \in Task : L2[t] \in MsgList /\ L2[t].mq_head = NULL
    BY <2>1 DEF NoTaskMail
  <2>3. MailOfTasks = QueuesOf(Task, Existing, L, next) /\ MailOfTasks' = QueuesOf(Task, B2, L2, next2)
    BY TaskMailIs
  <2> HIDE DEF L, next, L2, next2, B2
  <2>4. /\ QueuesOf(Task, Existing, L, next) = [t \in Task |-> << >>]
        /\ QueuesOf(Task, B2, L2, next2) = [t \in Task |-> << >>]
    BY <2>2, NoMailIs
  <2> QED BY <2>1, <2>3, <2>4 DEF ServesTaskMailStep
<1>4. kind # "mempfix" /\ UNCHANGED mpfvars => mpfs' = {}
  BY DEF NoneOfOtherKinds, mpfvars
<1> QED BY <1>1, <1>2, <1>3, <1>4

(* In the initial state there are no objects, and nobody waits.            *)
LEMMA ObjectsInitInv ==
  ASSUME ObjectsInit
  PROVE  ObjectsInv
<1>1. IInv /\ Sorted /\ \A g \in Gcb : wait_queue[g] = << >> /\ wait_tskid(g) = NoTask
  BY ObjectsStart DEF ObjectsInit
<1>2. /\ nextmsg = [m \in Msg |-> NULL] /\ sent_to = [m \in Msg |-> "nowhere"]
      /\ mbxs = {} /\ mq = [b \in Mbx |-> no_messages] /\ tmq = [t \in Task |-> no_messages]
  BY DEF ObjectsInit, mailbox_initialize, taskmbox_initialize
<1>3. nextmsg \in Links /\ no_messages \in MsgList /\ no_messages.mq_head = NULL
  BY <1>2 DEF Links, no_messages, MsgList
<1>4. NoTaskMail
  BY <1>2, <1>3 DEF NoTaskMail
<1>5. SemInv
  <2>1. SemTypeOK
    BY <1>1, SemaphoreAssumption
       DEF ObjectsInit, semaphore_initialize, SemTypeOK, IInv
  <2>2. NoUnitWhileWaiting
    BY <1>1, SemaphoreAssumption DEF NoUnitWhileWaiting, ref_sem
  <2> QED BY <2>1, <2>2 DEF SemInv
<1>6. FlgInv
  <2>1. FlgTypes
    <3>1. /\ flgs = {} /\ flgptn = [f \in Flg |-> {}]
          /\ winfo \in [Task -> {[waiptn |-> Bit, orw |-> FALSE, clr |-> FALSE]}]
      BY DEF ObjectsInit, eventflag_initialize
    <3>2. [waiptn |-> Bit, orw |-> FALSE, clr |-> FALSE] \in WaitFor
      BY EventFlagAssumption DEF WaitFor, Pattern
    <3>3. winfo \in [Task -> WaitFor]
      BY <3>1, <3>2
    <3> QED BY <3>1, <3>3 DEF FlgTypes, Pattern
  <2>2. ASSUME NEW f \in Flg PROVE wait_queue[f] = << >> /\ ToSet(wait_queue[f]) = {}
    BY <1>1, EventFlagAssumption DEF ToSet
  <2>3. FlgWaits
    BY <2>2 DEF FlgWaits
  <2>4. SingleWaiter
    BY <2>2 DEF SingleWaiter
  <2> QED BY <2>1, <2>3, <2>4 DEF FlgInv
<1>7. MpfInv
  <2>1. MpfTypes /\ Pools
    BY DEF ObjectsInit, fix_memorypool_initialize, MpfTypes, Pools
  <2>2. MpfWaits
    BY <1>1, FixedMemoryPoolAssumption DEF MpfWaits
  <2> QED BY <2>1, <2>2 DEF MpfInv
<1>8. MbxInv
  <2>1. Boxed(mbxs, mq, nextmsg, sent_to, TaMpri)
    BY <1>2, <1>3 DEF Boxed
  <2>2. MbxWaits
    BY <1>1, MailboxAssumption DEF MbxWaits
  <2> QED BY <1>2, <1>3, <2>1, <2>2 DEF MbxInv
<1>9. TmbInv
  <2>1. ASSUME NEW t \in Existing PROVE BoxOK(tmq[t], nextmsg, Mine(sent_to, t), t \in {})
    <3> DEFINE list == tmq[t]
               sorted == t \in {}
    <3>1. list \in MsgList /\ list.mq_head = NULL /\ sorted \in BOOLEAN /\ Mine(sent_to, t) = {}
      BY <1>2, <1>3, TaskMailboxAssumption DEF Mine, Existing
    <3> HIDE DEF list, sorted
    <3>2. BoxOK(list, nextmsg, {}, sorted)
      BY <1>3, <3>1, BoxEmpty
    <3> QED BY <3>1, <3>2 DEF list, sorted
  <2>2. "nowhere" \notin Existing /\ sent_to \in [Msg -> Existing \cup {"nowhere"}]
    BY <1>2, TaskMailboxAssumption DEF Existing
  <2>3. Boxed(Existing, tmq, nextmsg, sent_to, {})
    BY <1>3, <2>1, <2>2 DEF Boxed
  <2> QED BY <1>2, <1>3, <2>3 DEF TmbInv
<1>10. ObjectOfKind
  BY <1>5, <1>6, <1>7, <1>8, <1>9 DEF ObjectOfKind, ObjectsInit
<1>11. NoneOfOtherKinds
  BY <1>2, <1>4
     DEF NoneOfOtherKinds, ObjectsInit, eventflag_initialize, fix_memorypool_initialize
<1> QED BY <1>1, <1>10, <1>11 DEF ObjectsInv

(* A step of the program keeps the invariant, and does what the action     *)
(* properties and the abstract specifications allow.                       *)
LEMMA ProgramStep ==
  ASSUME ObjectsInv, [ProgramNext]_allvars
  PROVE  ObjectsInv' /\ ObjectsStepOK
<1>1. IInv /\ Sorted /\ NoneOfOtherKinds /\ UNCHANGED kind
  BY DEF ObjectsInv, ProgramNext, allvars
<1> DEFINE Others == /\ kind # "eventflag" => ConsumesOnce /\ flgs' = {}
                     /\ kind # "mempfix" => mpfs' = {}
                     /\ kind # "mailbox" => ServesMailStep /\ mbxs' = {}
                     /\ kind # "taskmbox" => ServesTaskMailStep /\ NoTaskMail'
<1>o. ASSUME kind # "eventflag" => UNCHANGED flgvars,
             kind # "mempfix" => UNCHANGED mpfvars,
             kind # "mailbox" => UNCHANGED mbxs,
             kind # "taskmbox" => UNCHANGED tmq /\ nextmsg' \in Links
      PROVE  Others
  BY <1>1, <1>o, OthersKept
<1>l. kind # "taskmbox" => nextmsg \in Links
  BY <1>1 DEF NoneOfOtherKinds, NoTaskMail
<1>n. Others => NoneOfOtherKinds'
  BY <1>1 DEF NoneOfOtherKinds
<1> DEFINE Own(call, own) == call \/ ([Next]_vars /\ own)
<1>u. UNCHANGED allvars => UNCHANGED <<vars, semvars, flgvars, mbxvars, tmbvars, mpfvars>>
  BY DEF allvars
<1>2. CASE kind = "semaphore"
  <2>1. Own(SemCall, UNCHANGED semvars) /\ UNCHANGED <<flgvars, mbxvars, tmbvars, mpfvars>>
    BY <1>2, <1>u DEF ProgramNext, ObjectCall, TaskManagementCall, mbxvars, tmbvars
  <2>2. SemInv
    BY <1>2 DEF ObjectsInv, ObjectOfKind
  <2>3. IInv' /\ (Sorted => Sorted') /\ KeepsTurns /\ SemInv'
    BY <1>1, <2>1, <2>2, SemCallKeeps, SemOtherKeeps
  <2>4. Others
    BY <1>2, <1>l, <1>o, <2>1 DEF mbxvars, tmbvars
  <2> HIDE DEF Own, Others
  <2>5. ObjectOfKind'
    BY <1>1, <1>2, <2>3 DEF ObjectOfKind
  <2>6. ObjectsStepOK
    BY <1>2, <2>3, <2>4 DEF Others, ObjectsStepOK
  <2> QED BY <1>1, <1>n, <2>3, <2>4, <2>5, <2>6 DEF ObjectsInv
<1>3. CASE kind = "eventflag"
  <2>1. Own(FlgCall, UNCHANGED flgvars) /\ UNCHANGED <<mbxvars, tmbvars, mpfvars>>
    BY <1>3, <1>u DEF ProgramNext, ObjectCall, TaskManagementCall, mbxvars, tmbvars
  <2>2. FlgInv
    BY <1>3 DEF ObjectsInv, ObjectOfKind
  <2>3. IInv' /\ (Sorted => Sorted') /\ KeepsTurns /\ FlgInv' /\ ConsumesOnce
    BY <1>1, <2>1, <2>2, FlgCallKeeps, FlgOtherKeeps
  <2>4. Others
    BY <1>3, <1>l, <1>o, <2>1 DEF mbxvars, tmbvars
  <2> HIDE DEF Own, Others
  <2>5. ObjectOfKind'
    BY <1>1, <1>3, <2>3 DEF ObjectOfKind
  <2>6. ObjectsStepOK
    BY <1>3, <2>3, <2>4 DEF Others, ObjectsStepOK
  <2> QED BY <1>1, <1>n, <2>3, <2>4, <2>5, <2>6 DEF ObjectsInv
<1>4. CASE kind = "mailbox"
  <2>1. Own(MbxCall, UNCHANGED mbxvars) /\ UNCHANGED <<flgvars, tmq, mpfvars>>
    BY <1>4, <1>u DEF ProgramNext, ObjectCall, TaskManagementCall, mbxvars, tmbvars
  <2>2. MbxInv
    BY <1>4 DEF ObjectsInv, ObjectOfKind
  <2>3. IInv' /\ (Sorted => Sorted') /\ KeepsTurns /\ MbxInv' /\ ServesMailStep
    BY <1>1, <2>1, <2>2, MbxCallKeeps, MbxOtherKeeps
  <2>l. nextmsg' \in Links
    BY <2>3 DEF MbxInv, Boxed
  <2>4. Others
    BY <1>4, <1>o, <2>1, <2>l
  <2> HIDE DEF Own, Others
  <2>5. ObjectOfKind'
    BY <1>1, <1>4, <2>3 DEF ObjectOfKind
  <2>6. ObjectsStepOK
    BY <1>4, <2>3, <2>4 DEF Others, ObjectsStepOK
  <2> QED BY <1>1, <1>n, <2>3, <2>4, <2>5, <2>6 DEF ObjectsInv
<1>5. CASE kind = "taskmbox"
  <2>2. TmbInv
    BY <1>5 DEF ObjectsInv, ObjectOfKind
  <2>1. UNCHANGED <<flgvars, mbxs, mpfvars>>
    BY <1>5, <1>u DEF ProgramNext, ObjectCall, TaskManagementCall, mbxvars
  <2>3. IInv' /\ (Sorted => Sorted') /\ KeepsTurns /\ TmbInv' /\ ServesTaskMailStep
    <3>1. CASE TmbCall
      BY <1>1, <2>2, <3>1, TmbCallKeeps
    <3>2. CASE Next /\ empty_mailboxes
      BY <1>1, <2>2, <3>2, TmbOtherKeeps
    <3>3. CASE UNCHANGED <<vars, tmbvars>>
      <4>1. IInv' /\ (Sorted => Sorted') /\ KeepsTurns
        BY <1>1, <3>3, TaskStepKeeps
      <4>2. Existing' = Existing /\ \A t \in Task : NoMail(t)' <=> NoMail(t)
        BY <3>3 DEF Existing, NoMail, vars, taskvars, waitvars
      <4>3. TmbInv' /\ ServesTaskMailStep
        BY <2>2, <3>3, <4>2, TmbKept DEF TmbInv
      <4> QED BY <4>1, <4>3
    <3> QED BY <1>5, <1>u, <3>1, <3>2, <3>3 DEF ProgramNext, ObjectCall, TaskManagementCall
  <2>4. Others
    BY <1>5, <1>o, <2>1
  <2> HIDE DEF Own, Others
  <2>5. ObjectOfKind'
    BY <1>1, <1>5, <2>3 DEF ObjectOfKind
  <2>6. ObjectsStepOK
    BY <1>5, <2>3, <2>4 DEF Others, ObjectsStepOK
  <2> QED BY <1>1, <1>n, <2>3, <2>4, <2>5, <2>6 DEF ObjectsInv
<1>6. CASE kind = "mempfix"
  <2>1. Own(MpfCall, UNCHANGED mpfvars) /\ UNCHANGED <<flgvars, mbxvars, tmbvars>>
    BY <1>6, <1>u DEF ProgramNext, ObjectCall, TaskManagementCall, mbxvars, tmbvars
  <2>2. MpfInv
    BY <1>6 DEF ObjectsInv, ObjectOfKind
  <2>3. IInv' /\ (Sorted => Sorted') /\ KeepsTurns /\ MpfInv'
    BY <1>1, <2>1, <2>2, MpfCallKeeps, MpfOtherKeeps
  <2>p. PoolStep
    BY <1>1, <2>1, <2>2, MpfCallServes, MpfOtherServes
  <2>4. Others
    BY <1>6, <1>l, <1>o, <2>1 DEF mbxvars, tmbvars
  <2> HIDE DEF Own, Others
  <2>5. ObjectOfKind'
    BY <1>1, <1>6, <2>3 DEF ObjectOfKind
  <2>6. ObjectsStepOK
    BY <1>6, <2>3, <2>4, <2>p DEF Others, ObjectsStepOK
  <2> QED BY <1>1, <1>n, <2>3, <2>4, <2>5, <2>6 DEF ObjectsInv
<1> QED BY <1>2, <1>3, <1>4, <1>5, <1>6 DEF ObjectsInv, ObjectOfKind

-----------------------------------------------------------------------------
(* The invariant of programs that use one kind of object.                  *)
THEOREM ObjectsInvariance == ProgramSpec => []ObjectsInv
<1>1. ObjectsInit => ObjectsInv
  BY ObjectsInitInv
<1>2. ObjectsInv /\ [ProgramNext]_allvars => ObjectsInv'
  BY ProgramStep
<1> QED BY <1>1, <1>2, PTL DEF ProgramSpec

(* What the runs check of the instances is checked of such programs.       *)
THEOREM InstancesArePrograms == ObjectsSpec => ProgramSpec
<1>1. [ObjectsNext]_allvars => [ProgramNext]_allvars
  BY ObjectSteps
<1> QED BY <1>1, PTL DEF ObjectsSpec, ProgramSpec

(* The variables have their types, a waiting task is in the queue of what  *)
(* it waits for and in no other, and a message is in the mailbox it was    *)
(* sent to or in none.                                                     *)
THEOREM QueuesAreExact == ProgramSpec => []QueuesExact
<1>1. ObjectsInv => QueuesExact
  <2> SUFFICES ASSUME ObjectsInv PROVE QueuesExact
    OBVIOUS
  <2>1. IInv /\ TypeOK /\ WaitQueueExact
    BY DEF ObjectsInv, IInv, WaitInv, WaitQueues, WaitQueueExact
  <2>2. kind = "mailbox" => MessagesExact /\ MbxTypeOK
    BY <2>1, MbxSays DEF ObjectsInv, ObjectOfKind
  <2>3. kind = "taskmbox" => MailExact /\ TmbTypeOK
    BY <2>1, TmbSays DEF ObjectsInv, ObjectOfKind
  <2>4. kind = "semaphore" => SemTypeOK
    BY DEF ObjectsInv, ObjectOfKind, SemInv
  <2>5. kind = "eventflag" => FlgTypeOK
    BY <2>1, FlagsSay DEF ObjectsInv, ObjectOfKind
  <2>6. kind = "mempfix" => MpfTypeOK
    BY <2>1, PoolsSay DEF ObjectsInv, ObjectOfKind
  <2> QED BY <2>1, <2>2, <2>3, <2>4, <2>5, <2>6 DEF QueuesExact
<1> QED BY <1>1, ObjectsInvariance, PTL

(* No task waits for a unit, a pattern, a message or a block that is there.*)
THEOREM WhatIsThereIsTaken == ProgramSpec => []NobodyWaitsForWhatIsThere
<1>1. ObjectsInv => NobodyWaitsForWhatIsThere
  <2> SUFFICES ASSUME ObjectsInv PROVE NobodyWaitsForWhatIsThere
    OBVIOUS
  <2>1. IInv /\ ObjectOfKind
    BY DEF ObjectsInv
  <2>2. CASE kind = "semaphore"
    BY <2>1, <2>2 DEF ObjectOfKind, SemInv, NobodyWaitsForWhatIsThere
  <2>3. CASE kind = "eventflag"
    BY <2>1, <2>3, FlagsSay DEF ObjectOfKind, NobodyWaitsForWhatIsThere
  <2>4. CASE kind = "mailbox"
    BY <2>1, <2>4, MbxSays DEF ObjectOfKind, NobodyWaitsForWhatIsThere
  <2>5. CASE kind = "taskmbox"
    BY <2>1, <2>5, TmbSays DEF ObjectOfKind, NobodyWaitsForWhatIsThere
  <2>6. CASE kind = "mempfix"
    BY <2>1, <2>6, PoolsSay DEF ObjectOfKind, NobodyWaitsForWhatIsThere
  <2> QED BY <2>1, <2>2, <2>3, <2>4, <2>5, <2>6 DEF ObjectOfKind
<1> QED BY <1>1, ObjectsInvariance, PTL

(* The wait queues of TA_TPRI objects are in the order of the priorities,  *)
(* whatever becomes of the priorities while the tasks wait.                *)
THEOREM WaitQueuesAreSorted == ProgramSpec => []WaitQueueSorted
<1>1. ObjectsInv => WaitQueueSorted
  BY SortedSays DEF ObjectsInv
<1> QED BY <1>1, ObjectsInvariance, PTL

(* No block of a pool is lost, is free twice, or is lent to two tasks.     *)
THEOREM NoBlockIsLost == ProgramSpec => []EveryBlockOnce
<1>1. ObjectsInv => EveryBlockOnce
  <2>1. ASSUME ObjectsInv, kind # "mempfix" PROVE EveryBlockOnce
    BY <2>1 DEF ObjectsInv, NoneOfOtherKinds, EveryBlockOnce
  <2> QED BY <2>1, PoolsSay DEF ObjectsInv, ObjectOfKind
<1> QED BY <1>1, ObjectsInvariance, PTL

(* The tasks that wait for a TA_TFIFO object do not overtake each other.   *)
THEOREM TurnsAreKept == ProgramSpec => WaitersKeepTheirOrder
<1>1. ObjectsInv /\ [ProgramNext]_allvars => [KeepsTurns]_<<vars, semvars>>
  BY ProgramStep DEF ObjectsStepOK
<1>2. ProgramSpec => [][KeepsTurns]_<<vars, semvars>>
  BY <1>1, ObjectsInvariance, PTL DEF ProgramSpec
<1> QED BY <1>2 DEF WaitersKeepTheirOrder, KeepsTurns

(* One setting of an event flag with TW_CLR serves one task, the others    *)
(* that it serves do not clear the flag.                                   *)
THEOREM EventsAreConsumedOnce == ProgramSpec => ConsumedOnce
<1>1. ObjectsInv /\ [ProgramNext]_allvars => [ConsumesOnce]_<<vars, flgvars>>
  BY ProgramStep DEF ObjectsStepOK
<1>2. ProgramSpec => [][ConsumesOnce]_<<vars, flgvars>>
  BY <1>1, ObjectsInvariance, PTL DEF ProgramSpec
<1> QED BY <1>2 DEF ConsumedOnce, ConsumesOnce

(* A pool of fixed-length blocks is a semaphore of the blocks.             *)
THEOREM PoolsServeUnits == ProgramSpec => ServesUnits
<1>1. ObjectsInit => (kind = "mempfix" => PoolInit)
  BY UnitsNext DEF ObjectsInit, PoolInit, Units!SemInit, Units!semaphore_initialize,
                   fix_memorypool_initialize
<1>2. ObjectsInv /\ [ProgramNext]_allvars => [kind = "mempfix" => PoolStep]_allvars
  BY ProgramStep DEF ObjectsStepOK
<1> QED BY <1>1, <1>2, ObjectsInvariance, PTL DEF ProgramSpec, ServesUnits

(* The linked lists of the mailboxes are queues of messages.               *)
THEOREM MailIsServed == ProgramSpec => ServesMail
<1>1. ASSUME ObjectsInit
      PROVE  MailQueue!Init /\ TaskMail!Init
  <2>1. MailQueue!Init
    BY <1>1 DEF ObjectsInit, mailbox_initialize, MailQueue!Init
  <2>2. NoTaskMail
    <3>1. nextmsg \in Links /\ no_messages \in MsgList /\ no_messages.mq_head = NULL
      BY <1>1 DEF ObjectsInit, mailbox_initialize, Links, no_messages, MsgList
    <3> QED BY <1>1, <3>1 DEF NoTaskMail, ObjectsInit, taskmbox_initialize
  <2>3. MailOfTasks = [t \in Task |-> << >>]
    BY <2>2, TaskMailIs, NoMailIs DEF NoTaskMail
  <2> QED BY <2>1, <2>3 DEF TaskMail!Init, MailOfTasks
<1>2. ASSUME ObjectsInv, [ProgramNext]_allvars
      PROVE  /\ [MailQueue!Next]_[b \in Mbx |-> IF b \in mbxs THEN queued(b) ELSE << >>]
             /\ [TaskMail!Next]_[t \in Task |-> mail(t)]
  <2>1. ServesMailStep /\ ServesTaskMailStep
    BY <1>2, ProgramStep DEF ObjectsStepOK
  <2> QED BY <2>1 DEF ServesMailStep, ServesTaskMailStep, MailQueues, MailOfTasks
<1> QED BY <1>1, <1>2, ObjectsInvariance, PTL
        DEF ProgramSpec, ServesMail, ServesMessageQueues, ServesTaskMail, MailQueue!Spec, TaskMail!Spec
=============================================================================
