------------------------- MODULE TaskManagementProofs -------------------------
(***************************************************************************)
(* The invariants of TaskManagement hold for every number of tasks, of     *)
(* priorities, of bits in a word and of interrupt levels, and whatever the *)
(* wait queues of the synchronisation objects are.                         *)
(*                                                                         *)
(* The first part says what the operations of ready_queue.h, and then the  *)
(* internal ones of task.c and wait.c, do to the ready queue and to the    *)
(* wait queues.  The second part shows, action by action, that the         *)
(* inductive invariant IInv is preserved.  The third says what the         *)
(* operations of the objects (wait_release of the tasks served,            *)
(* gcb_make_wait, wait_delete) do to their wait queues, and what every     *)
(* step of the tasks leaves of them.  The fourth shows that the ready      *)
(* tasks are served in the order of precedence: every step is one of       *)
(* Precedence or changes nothing that it looks at.                         *)
(***************************************************************************)
EXTENDS MCTaskManagement, QueueProofs

-----------------------------------------------------------------------------
(***************************************************************************)
(* What the operations of kernel/ready_queue.h do to a consistent ready    *)
(* queue: which tasks it holds afterwards, and which task is at its head.  *)
(***************************************************************************)
PriorityMap == [Task -> Priority]

Consistent(rq, S, pri) ==
  /\ rq \in RDYQUE
  /\ Lists(rq, S, pri)
  /\ Indexed(rq)

QueueOf(rq, S, pri, k) ==
  /\ rq.tskque[k] \in Queue(Task)
  /\ ToSet(rq.tskque[k]) = {u \in S : pri[u] = k}
  /\ rq.tskque[k] = << >> <=> ToSet(rq.tskque[k]) = {}
  /\ rq.tskque[k] # << >> => Head(rq.tskque[k]) \in ToSet(rq.tskque[k])

-----------------------------------------------------------------------------
(* The internal priorities are the numbers below NUM_PRI.                  *)
LEMMA PriorityRange ==
  /\ Priority \subseteq Nat
  /\ NUM_PRI \in Nat
  /\ \A p \in Priority : p < NUM_PRI
  BY ReadyQueueAssumption DEF Priority

(* A priority is in no earlier word of the bitmap than a higher one.       *)
LEMMA WordMonotone ==
  ASSUME NEW p \in Priority, NEW b \in Priority, p <= b
  PROVE  b \div BITMAPSZ >= p \div BITMAPSZ
<1>1. /\ p \in Nat /\ b \in Nat
      /\ BITMAPSZ \in Nat /\ BITMAPSZ > 0
  BY PriorityRange, ReadyQueueAssumption
<1> QED BY <1>1, Z3

(* The queues of a consistent ready queue, taken one by one.               *)
LEMMA ConsistentQueues ==
  ASSUME NEW S \in SUBSET Task, NEW pri \in PriorityMap, NEW rq, Consistent(rq, S, pri)
  PROVE  \A k \in Priority : QueueOf(rq, S, pri, k)
<1> TAKE k \in Priority
<1> DEFINE q == rq.tskque[k]
<1>1. q \in Queue(Task) /\ ToSet(q) = {u \in S : pri[u] = k}
  BY DEF Consistent, Lists, RDYQUE, Queue
<1> HIDE DEF q
<1>2. q \in Seq(Task) /\ Len(q) \in Nat /\ ToSet(q) = {q[j] : j \in 1 .. Len(q)}
  BY <1>1, QueueEntries
<1>3. q = << >> => ToSet(q) = {}
  BY <1>2
<1>4. ASSUME q # << >> PROVE Head(q) \in ToSet(q)
  <2>1. 1 \in 1 .. Len(q) /\ Head(q) = q[1]
    BY <1>2, <1>4
  <2> QED BY <1>2, <2>1
<1> QED BY <1>1, <1>3, <1>4 DEF q, QueueOf

(* The head of a consistent ready queue is one of the tasks it holds, and  *)
(* no task in it has a higher priority; it is NoTask when it holds none.   *)
LEMMA ReadyQueueTop ==
  ASSUME NEW S \in SUBSET Task, NEW pri \in PriorityMap, NEW rq, Consistent(rq, S, pri)
  PROVE  LET top == ready_queue_top(rq) IN
         /\ rq.top_priority = NUM_PRI <=> S = {}
         /\ S = {} => top = NoTask
         /\ S # {} => top \in S /\ pri[top] = rq.top_priority
         /\ \A t \in S : pri[t] >= rq.top_priority
<1>1. /\ rq.bitmap = {p \in Priority : rq.tskque[p] # << >>}
      /\ \A p \in rq.bitmap : rq.top_priority <= p
      /\ rq.bitmap # {} => rq.top_priority \in rq.bitmap
      /\ rq.bitmap = {} => rq.top_priority = NUM_PRI
  BY DEF Consistent, Indexed
<1>c. \A k \in Priority : QueueOf(rq, S, pri, k)
  BY ConsistentQueues
<1>2. \A t \in S : pri[t] \in rq.bitmap
  BY <1>1, <1>c DEF PriorityMap, QueueOf
<1>3. CASE S = {}
  <2>1. rq.bitmap = {}
    BY <1>1, <1>3, <1>c DEF QueueOf
  <2> QED BY <1>1, <1>3, <2>1 DEF ready_queue_top
<1>4. CASE S # {}
  <2>1. rq.top_priority \in Priority /\ rq.tskque[rq.top_priority] # << >>
    BY <1>1, <1>2, <1>4
  <2>2. rq.top_priority # NUM_PRI
    BY <2>1, PriorityRange
  <2>3. /\ ready_queue_top(rq) \in S
        /\ pri[ready_queue_top(rq)] = rq.top_priority
    BY <2>1, <2>2, <1>c DEF ready_queue_top, QueueOf
  <2> QED BY <1>1, <1>2, <1>4, <2>2, <2>3, PriorityRange DEF PriorityMap
<1> QED BY <1>3, <1>4

(* The priorities of the tasks that are not in the ready queue do not      *)
(* matter to it.                                                           *)
LEMMA OtherPriorities ==
  ASSUME NEW S \in SUBSET Task, NEW pri, NEW pri2, NEW rq,
         Consistent(rq, S, pri), \A t \in S : pri2[t] = pri[t]
  PROVE  Consistent(rq, S, pri2)
  BY DEF Consistent, Lists

(* Insertion adds the task, and makes it the head if it has precedence.    *)
LEMMA ReadyQueueInsert ==
  ASSUME NEW S \in SUBSET Task, NEW pri \in PriorityMap, NEW rq, Consistent(rq, S, pri),
         NEW t \in Task \ S
  PROVE  LET new == ready_queue_insert(rq, t, pri[t]) IN
         /\ Consistent(new, S \cup {t}, pri)
         /\ ready_queue_top(new) =
              IF pri[t] < rq.top_priority THEN t ELSE ready_queue_top(rq)
<1> DEFINE p   == pri[t]
           q   == rq.tskque[p]
           new == ready_queue_insert(rq, t, p)
<1>p. p \in Priority /\ p \in Nat /\ p < NUM_PRI
  BY PriorityRange DEF PriorityMap
<1>r. /\ rq.top_priority \in 0 .. NUM_PRI
      /\ rq.tskque \in [Priority -> Seq(Task)]
      /\ rq.bitmap \in SUBSET Priority
  BY DEF Consistent, RDYQUE
<1>i. /\ rq.bitmap = {k \in Priority : rq.tskque[k] # << >>}
      /\ \A k \in rq.bitmap : rq.top_priority <= k
      /\ rq.bitmap # {} => rq.top_priority \in rq.bitmap
      /\ rq.bitmap = {} => rq.top_priority = NUM_PRI
  BY DEF Consistent, Indexed
<1>c. \A k \in Priority : QueueOf(rq, S, pri, k)
  BY ConsistentQueues
<1>q. q \in Queue(Task) /\ ToSet(q) = {u \in S : pri[u] = p}
  BY <1>c, <1>p DEF QueueOf
<1>a. /\ Append(q, t) \in Queue(Task)
      /\ ToSet(Append(q, t)) = ToSet(q) \cup {t}
      /\ Append(q, t) # << >>
      /\ Head(Append(q, t)) = IF q = << >> THEN t ELSE Head(q)
  BY QueueAppend, <1>q
<1>n. /\ new.top_priority = IF p < rq.top_priority THEN p ELSE rq.top_priority
      /\ new.tskque = [rq.tskque EXCEPT ![p] = Append(q, t)]
      /\ new.bitmap = rq.bitmap \cup {p}
      /\ new = [top_priority |-> new.top_priority, tskque |-> new.tskque,
                bitmap |-> new.bitmap]
  BY DEF ready_queue_insert
<1> HIDE DEF p, q, new
<1>1. new \in RDYQUE
  <2>1. new.top_priority \in 0 .. NUM_PRI
    BY <1>p, <1>r, <1>n, PriorityRange
  <2>2. new.tskque \in [Priority -> Seq(Task)]
    BY <1>p, <1>r, <1>n, <1>a DEF Queue
  <2>3. new.bitmap \in SUBSET Priority
    BY <1>p, <1>r, <1>n
  <2> QED BY <1>n, <2>1, <2>2, <2>3 DEF RDYQUE
<1>2. Lists(new, S \cup {t}, pri)
  <2> SUFFICES ASSUME NEW k \in Priority
               PROVE  /\ IsInjective(new.tskque[k])
                      /\ ToSet(new.tskque[k]) = {u \in S \cup {t} : pri[u] = k}
    BY DEF Lists
  <2>1. CASE k = p
    <3>1. new.tskque[k] = Append(q, t)
      BY <2>1, <1>r, <1>n, <1>p
    <3>2. ToSet(q) \cup {t} = {u \in S \cup {t} : pri[u] = k}
      BY <1>q, <2>1 DEF p
    <3> QED BY <1>a, <3>1, <3>2 DEF Queue
  <2>2. CASE k # p
    <3>1. new.tskque[k] = rq.tskque[k]
      BY <2>2, <1>r, <1>n, <1>p
    <3>2. {u \in S : pri[u] = k} = {u \in S \cup {t} : pri[u] = k}
      BY <2>2 DEF p
    <3> QED BY <3>1, <3>2, <1>c DEF Queue, QueueOf
  <2> QED BY <2>1, <2>2
<1>3. Indexed(new)
  <2>1. new.bitmap = {k \in Priority : new.tskque[k] # << >>}
    BY <1>p, <1>r, <1>i, <1>n, <1>a
  <2>2. \A k \in new.bitmap : new.top_priority <= k
    BY <1>p, <1>r, <1>i, <1>n, PriorityRange
  <2>3. new.top_priority \in new.bitmap
    BY <1>p, <1>r, <1>i, <1>n
  <2> QED BY <2>1, <2>2, <2>3 DEF Indexed
<1>4. ready_queue_top(new) = IF p < rq.top_priority THEN t ELSE ready_queue_top(rq)
  <2>1. CASE p < rq.top_priority
    <3>1. p \notin rq.bitmap
      BY <2>1, <1>i, <1>r, <1>p
    <3>2. q = << >>
      BY <3>1, <1>i, <1>p DEF q
    <3>3. new.top_priority = p /\ p # NUM_PRI /\ new.tskque[p] = Append(q, t)
      BY <2>1, <1>n, <1>p, <1>r
    <3> QED BY <2>1, <3>2, <3>3, <1>a DEF ready_queue_top
  <2>2. CASE ~(p < rq.top_priority)
    <3>1. new.top_priority = rq.top_priority /\ rq.top_priority # NUM_PRI
      BY <2>2, <1>n, <1>p, <1>r
    <3>2. rq.top_priority \in Priority /\ rq.tskque[rq.top_priority] # << >>
      BY <3>1, <1>i
    <3>3. CASE rq.top_priority = p
      <4>1. q # << >> /\ new.tskque[p] = Append(q, t)
        BY <3>2, <3>3, <1>n, <1>r, <1>p DEF q
      <4>2. ready_queue_top(new) = Head(Append(q, t)) /\ ready_queue_top(rq) = Head(q)
        BY <3>1, <3>3, <4>1 DEF ready_queue_top, q
      <4> QED BY <2>2, <4>1, <4>2, <1>a
    <3>4. CASE rq.top_priority # p
      <4>1. new.tskque[rq.top_priority] = rq.tskque[rq.top_priority]
        BY <3>2, <3>4, <1>n, <1>r
      <4> QED BY <2>2, <3>1, <4>1 DEF ready_queue_top
    <3> QED BY <3>3, <3>4
  <2> QED BY <2>1, <2>2
<1> QED BY <1>1, <1>2, <1>3, <1>4 DEF Consistent, p, new

(* Deletion takes the task out; unless it was the head, the head stays.    *)
LEMMA ReadyQueueDelete ==
  ASSUME NEW S \in SUBSET Task, NEW pri \in PriorityMap, NEW rq, Consistent(rq, S, pri),
         NEW t \in S
  PROVE  LET new == ready_queue_delete(rq, t, pri[t]) IN
         /\ Consistent(new, S \ {t}, pri)
         /\ t # ready_queue_top(rq) => ready_queue_top(new) = ready_queue_top(rq)
<1> DEFINE p   == pri[t]
           q   == rq.tskque[p]
           d   == queue_delete(q, t)
           cleared == rq.bitmap \ {p}
           new == ready_queue_delete(rq, t, p)
<1>p. p \in Priority /\ p \in Nat /\ p < NUM_PRI
  BY PriorityRange DEF PriorityMap
<1>r. /\ rq = [top_priority |-> rq.top_priority, tskque |-> rq.tskque,
               bitmap |-> rq.bitmap]
      /\ rq.top_priority \in 0 .. NUM_PRI
      /\ rq.tskque \in [Priority -> Seq(Task)]
      /\ rq.bitmap \in SUBSET Priority
  BY DEF Consistent, RDYQUE
<1>i. /\ rq.bitmap = {k \in Priority : rq.tskque[k] # << >>}
      /\ \A k \in rq.bitmap : rq.top_priority <= k
      /\ rq.bitmap # {} => rq.top_priority \in rq.bitmap
      /\ rq.bitmap = {} => rq.top_priority = NUM_PRI
  BY DEF Consistent, Indexed
<1>c. \A k \in Priority : QueueOf(rq, S, pri, k)
  BY ConsistentQueues
<1>q. q \in Queue(Task) /\ ToSet(q) = {u \in S : pri[u] = p} /\ t \in ToSet(q) /\ q # << >>
  BY <1>c, <1>p DEF QueueOf
<1>d. /\ d \in Queue(Task)
      /\ ToSet(d) = ToSet(q) \ {t}
      /\ t # Head(q) => d # << >> /\ Head(d) = Head(q)
  BY QueueDelete, <1>q
<1>t. rq.top_priority <= p /\ rq.top_priority \in Priority /\ rq.top_priority # NUM_PRI
  BY <1>q, <1>p, <1>i, <1>r, PriorityRange DEF q
<1>n. /\ new.tskque = [rq.tskque EXCEPT ![p] = d]
      /\ new.bitmap = IF d # << >> THEN rq.bitmap ELSE cleared
      /\ new.top_priority = IF d = << >> /\ p = rq.top_priority
                            THEN bitmap_search(cleared, p)
                            ELSE rq.top_priority
      /\ new = [top_priority |-> new.top_priority, tskque |-> new.tskque,
                bitmap |-> new.bitmap]
  <2>1. CASE d # << >>
    <3>1. new = [top_priority |-> rq.top_priority, tskque |-> [rq.tskque EXCEPT ![p] = d],
                 bitmap |-> rq.bitmap]
      BY <2>1, <1>r DEF ready_queue_delete
    <3> QED BY <2>1, <3>1
  <2>2. CASE d = << >>
    <3>1. new = [top_priority |-> IF p = rq.top_priority THEN bitmap_search(cleared, p)
                                  ELSE rq.top_priority,
                 tskque |-> [rq.tskque EXCEPT ![p] = d],
                 bitmap |-> cleared]
      BY <2>2 DEF ready_queue_delete
    <3> QED BY <2>2, <3>1
  <2> QED BY <2>1, <2>2
<1> HIDE DEF p, q, d, new
<1>1. Lists(new, S \ {t}, pri)
  <2> SUFFICES ASSUME NEW k \in Priority
               PROVE  /\ IsInjective(new.tskque[k])
                      /\ ToSet(new.tskque[k]) = {u \in S \ {t} : pri[u] = k}
    BY DEF Lists
  <2>1. CASE k = p
    <3>1. new.tskque[k] = d
      BY <2>1, <1>r, <1>n, <1>p
    <3>2. ToSet(q) \ {t} = {u \in S \ {t} : pri[u] = k}
      BY <1>q, <2>1
    <3> QED BY <1>d, <3>1, <3>2 DEF Queue
  <2>2. CASE k # p
    <3>1. new.tskque[k] = rq.tskque[k]
      BY <2>2, <1>r, <1>n, <1>p
    <3>2. {u \in S : pri[u] = k} = {u \in S \ {t} : pri[u] = k}
      BY <2>2 DEF p
    <3> QED BY <3>1, <3>2, <1>c DEF Queue, QueueOf
  <2> QED BY <2>1, <2>2
<1>2. new.bitmap = {k \in Priority : new.tskque[k] # << >>}
  <2>1. \A k \in Priority : new.tskque[k] = IF k = p THEN d ELSE rq.tskque[k]
    BY <1>n, <1>r
  <2>2. p \in rq.bitmap
    BY <1>p, <1>q, <1>i DEF q
  <2> QED BY <1>n, <1>i, <1>r, <2>1, <2>2
<1>3. ASSUME d = << >>, p = rq.top_priority
      PROVE  /\ cleared = {} => bitmap_search(cleared, p) = NUM_PRI
             /\ cleared # {} => /\ bitmap_search(cleared, p) \in cleared
                                /\ \A k \in cleared : bitmap_search(cleared, p) <= k
  <2>1. \A b \in cleared : b \div BITMAPSZ >= p \div BITMAPSZ
    BY <1>3, <1>i, <1>r, <1>p, WordMonotone
  <2>2. {b \in cleared : b \div BITMAPSZ >= p \div BITMAPSZ} = cleared
    BY <2>1
  <2>3. bitmap_search(cleared, p) = IF cleared = {} THEN NUM_PRI ELSE Min(cleared)
    BY <2>2 DEF bitmap_search
  <2>4. cleared \in SUBSET Nat
    BY <1>r, PriorityRange
  <2> QED BY <2>3, <2>4, MinOfNaturals
<1>4. Indexed(new)
  <2>1. CASE d # << >>
    BY <2>1, <1>2, <1>n, <1>i DEF Indexed
  <2>2. CASE d = << >> /\ p # rq.top_priority
    <3>1. rq.top_priority \in cleared
      BY <2>2, <1>i, <1>q, <1>p DEF q
    <3> QED BY <2>2, <3>1, <1>2, <1>n, <1>i DEF Indexed
  <2>3. CASE d = << >> /\ p = rq.top_priority
    BY <2>3, <1>2, <1>3, <1>n DEF Indexed
  <2> QED BY <2>1, <2>2, <2>3
<1>5. new \in RDYQUE
  <2>1. new.bitmap \in SUBSET Priority
    BY <1>r, <1>n
  <2>2. new.tskque \in [Priority -> Seq(Task)]
    BY <1>p, <1>r, <1>n, <1>d DEF Queue
  <2>3. new.top_priority \in 0 .. NUM_PRI
    BY <1>4, <2>1, PriorityRange DEF Indexed
  <2> QED BY <1>n, <2>1, <2>2, <2>3 DEF RDYQUE
<1>6. ASSUME t # ready_queue_top(rq)
      PROVE  ready_queue_top(new) = ready_queue_top(rq)
  <2>1. CASE p = rq.top_priority
    <3>1. ready_queue_top(rq) = Head(q)
      BY <2>1, <1>t DEF ready_queue_top, q
    <3>2. d # << >> /\ Head(d) = Head(q)
      BY <3>1, <1>6, <1>d
    <3>3. new.top_priority = p /\ new.tskque[p] = d
      BY <2>1, <3>2, <1>n, <1>r, <1>p
    <3> QED BY <2>1, <3>1, <3>2, <3>3, <1>t DEF ready_queue_top
  <2>2. CASE p # rq.top_priority
    <3>1. new.top_priority = rq.top_priority
      BY <2>2, <1>n
    <3>2. new.tskque[rq.top_priority] = rq.tskque[rq.top_priority]
      BY <2>2, <1>n, <1>t, <1>r
    <3> QED BY <3>1, <3>2, <1>t DEF ready_queue_top
  <2> QED BY <2>1, <2>2
<1> QED BY <1>1, <1>4, <1>5, <1>6 DEF Consistent, p, new

(* A rotation keeps the tasks.                                             *)
LEMMA ReadyQueueRotate ==
  ASSUME NEW S \in SUBSET Task, NEW pri \in PriorityMap, NEW rq, Consistent(rq, S, pri),
         NEW p \in Priority
  PROVE  Consistent(ready_queue_rotate(rq, p), S, pri)
<1> DEFINE q   == rq.tskque[p]
           r   == Append(Tail(q), Head(q))
           new == [rq EXCEPT !.tskque[p] = r]
<1>1. CASE q = << >>
  BY <1>1 DEF ready_queue_rotate
<1>2. CASE q # << >>
  <2>r. /\ rq = [top_priority |-> rq.top_priority, tskque |-> rq.tskque,
                 bitmap |-> rq.bitmap]
        /\ rq.top_priority \in 0 .. NUM_PRI
        /\ rq.tskque \in [Priority -> Seq(Task)]
        /\ rq.bitmap \in SUBSET Priority
    BY DEF Consistent, RDYQUE
  <2>c. \A k \in Priority : QueueOf(rq, S, pri, k)
    BY ConsistentQueues
  <2>1. r \in Queue(Task) /\ ToSet(r) = ToSet(q) /\ r # << >>
    BY <1>2, <2>c, QueueRotate DEF QueueOf
  <2>2. ready_queue_rotate(rq, p) = new
    BY <1>2 DEF ready_queue_rotate
  <2>3. /\ new = [top_priority |-> rq.top_priority,
                  tskque |-> [rq.tskque EXCEPT ![p] = r], bitmap |-> rq.bitmap]
        /\ new.top_priority = rq.top_priority
        /\ new.tskque = [rq.tskque EXCEPT ![p] = r]
        /\ new.bitmap = rq.bitmap
    <3> HIDE DEF r
    <3>1. new = [rq EXCEPT !.tskque = [rq.tskque EXCEPT ![p] = r]]
      BY <2>r
    <3> DEFINE f == [rq.tskque EXCEPT ![p] = r]
    <3> HIDE DEF f, new
    <3>2. [rq EXCEPT !.tskque = f]
            = [top_priority |-> rq.top_priority, tskque |-> f, bitmap |-> rq.bitmap]
      BY <2>r
    <3>3. new = [top_priority |-> rq.top_priority, tskque |-> f, bitmap |-> rq.bitmap]
      BY <3>1, <3>2 DEF f
    <3> QED BY <3>3 DEF f
  <2> HIDE DEF r, new
  <2>4. \A k \in Priority : new.tskque[k] = IF k = p THEN r ELSE rq.tskque[k]
    BY <2>3, <2>r
  <2>5. new \in RDYQUE
    BY <2>1, <2>3, <2>r DEF RDYQUE, Queue
  <2>6. Lists(new, S, pri)
    BY <2>1, <2>4, <2>c DEF Lists, QueueOf, Queue
  <2>7. Indexed(new)
    <3>1. new.bitmap = {k \in Priority : new.tskque[k] # << >>}
      BY <1>2, <2>1, <2>3, <2>4 DEF Consistent, Indexed
    <3> QED BY <2>3, <3>1 DEF Consistent, Indexed
  <2> QED BY <2>2, <2>5, <2>6, <2>7 DEF Consistent
<1> QED BY <1>1, <1>2

(* The empty ready queue.                                                  *)
LEMMA ReadyQueueInitialize ==
  ASSUME NEW pri
  PROVE  Consistent(ready_queue_initialize, {}, pri)
<1> DEFINE rq == ready_queue_initialize
<1>1. /\ rq.top_priority = NUM_PRI
      /\ rq.tskque = [p \in Priority |-> << >>]
      /\ rq.bitmap = {}
  BY DEF ready_queue_initialize
<1>2. rq \in RDYQUE
  BY PriorityRange DEF ready_queue_initialize, RDYQUE
<1>3. Lists(rq, {}, pri)
  BY <1>1 DEF Lists, IsInjective, ToSet
<1>4. Indexed(rq)
  BY <1>1 DEF Indexed
<1> QED BY <1>2, <1>3, <1>4 DEF Consistent

-----------------------------------------------------------------------------
(***************************************************************************)
(* The parts of the inductive invariant.                                   *)
(***************************************************************************)
StateType == state \in [Task -> TSTAT] /\ priority \in [Task -> Priority]

SchedInv ==
  /\ Consistent(ready_queue, ReadyTasks, priority)
  /\ SchedtskIsTop

WaitQueues ==
  /\ wait_queue \in [Gcb -> Seq(Task)]
  /\ \A g \in Gcb :
       /\ IsInjective(wait_queue[g])
       /\ ToSet(wait_queue[g]) = {t \in Task : wspec[t] = g}

WaitInv ==
  /\ WaitQueues
  /\ \A t \in Task : waiting(t) <=> wspec[t] # "none"
  /\ TimeoutOnlyWhileWaiting

CountInv == SuspendCount /\ StartsFresh /\ NoLostWakeup

RunInv == RunningTaskAlive /\ NoWaitWithoutDispatch

IInv == TypeOK /\ SchedInv /\ WaitInv /\ CountInv /\ RunInv

-----------------------------------------------------------------------------
(* schedtsk is a READY task, or NoTask when there is none.                 *)
LEMMA SchedtskReady ==
  ASSUME StateType, SchedInv
  PROVE  /\ schedtsk \in Task \cup {NoTask}
         /\ schedtsk # NoTask => state[schedtsk] = "READY"
         /\ ready_queue \in RDYQUE
<1>1. ReadyTasks \in SUBSET Task /\ priority \in PriorityMap
  BY DEF ReadyTasks, StateType, PriorityMap
<1>2. /\ ReadyTasks = {} => schedtsk = NoTask
      /\ ReadyTasks # {} => schedtsk \in ReadyTasks
  BY <1>1, ReadyQueueTop DEF SchedInv, SchedtskIsTop
<1> QED BY <1>2 DEF ReadyTasks, SchedInv, Consistent

(* The same in the next state.                                             *)
LEMMA SchedtskReadyNext ==
  ASSUME StateType', SchedInv'
  PROVE  /\ schedtsk' \in Task \cup {NoTask}
         /\ schedtsk' # NoTask => state'[schedtsk'] = "READY"
         /\ ready_queue' \in RDYQUE
<1>1. ReadyTasks' \in SUBSET Task /\ priority' \in PriorityMap
  BY DEF ReadyTasks, StateType, PriorityMap
<1>2. Consistent(ready_queue', ReadyTasks', priority') /\ schedtsk' = ready_queue_top(ready_queue')
  BY DEF SchedInv, SchedtskIsTop
<1>3. /\ ReadyTasks' = {} => schedtsk' = NoTask
      /\ ReadyTasks' # {} => schedtsk' \in ReadyTasks'
  BY <1>1, <1>2, ReadyQueueTop
<1> QED BY <1>2, <1>3 DEF ReadyTasks, Consistent

(* make_ready keeps the ready queue and schedtsk right.                    *)
LEMMA MakeReady ==
  ASSUME StateType, SchedInv, NEW t \in Task, state[t] # "READY",
         make_ready(t), priority' = priority
  PROVE  SchedInv'
<1>1. ReadyTasks \in SUBSET Task /\ priority \in PriorityMap /\ t \in Task \ ReadyTasks
  BY DEF ReadyTasks, StateType, PriorityMap
<1>2. ReadyTasks' = ReadyTasks \cup {t}
  BY DEF ReadyTasks, make_ready, StateType
<1>3. Consistent(ready_queue, ReadyTasks, priority) /\ schedtsk = ready_queue_top(ready_queue)
  BY DEF SchedInv, SchedtskIsTop
<1>4. /\ Consistent(ready_queue', ReadyTasks \cup {t}, priority)
      /\ ready_queue_top(ready_queue') =
           IF priority[t] < ready_queue.top_priority THEN t ELSE ready_queue_top(ready_queue)
  BY <1>1, <1>3, ReadyQueueInsert DEF make_ready
<1>5. schedtsk' = ready_queue_top(ready_queue')
  BY <1>3, <1>4 DEF make_ready
<1> QED BY <1>2, <1>4, <1>5 DEF SchedInv, SchedtskIsTop

(* So does make_non_ready, even if the priority of the task changes too.   *)
LEMMA MakeNonReady ==
  ASSUME StateType, StateType', SchedInv, NEW t \in Task, state[t] = "READY",
         NEW s, s # "READY", make_non_ready(t, s),
         \A u \in Task \ {t} : priority'[u] = priority[u]
  PROVE  SchedInv'
<1>1. ReadyTasks \in SUBSET Task /\ priority \in PriorityMap /\ t \in ReadyTasks
  BY DEF ReadyTasks, StateType, PriorityMap
<1>2. ReadyTasks' = ReadyTasks \ {t}
  BY DEF ReadyTasks, make_non_ready, StateType
<1>3. Consistent(ready_queue, ReadyTasks, priority) /\ schedtsk = ready_queue_top(ready_queue)
  BY DEF SchedInv, SchedtskIsTop
<1>4. /\ Consistent(ready_queue', ReadyTasks \ {t}, priority)
      /\ t # schedtsk => ready_queue_top(ready_queue') = ready_queue_top(ready_queue)
  BY <1>1, <1>3, ReadyQueueDelete DEF make_non_ready
<1>5. Consistent(ready_queue', ReadyTasks', priority')
  <2>1. \A u \in ReadyTasks \ {t} : priority'[u] = priority[u]
    BY <1>1
  <2> QED BY <1>1, <1>2, <1>4, <2>1, OtherPriorities
<1>6. schedtsk' = ready_queue_top(ready_queue')
  BY <1>3, <1>4 DEF make_non_ready
<1> QED BY <1>5, <1>6 DEF SchedInv, SchedtskIsTop

(* A task that is not READY can change its state and its priority.         *)
LEMMA SetState ==
  ASSUME StateType, StateType', SchedInv, NEW t \in Task, state[t] # "READY",
         NEW s, s # "READY", set_state(t, s),
         \A u \in Task \ {t} : priority'[u] = priority[u]
  PROVE  SchedInv'
<1>1. ReadyTasks' = ReadyTasks /\ t \notin ReadyTasks /\ ReadyTasks \in SUBSET Task
  BY DEF ReadyTasks, set_state, StateType
<1>2. Consistent(ready_queue, ReadyTasks, priority')
  BY <1>1, OtherPriorities DEF SchedInv
<1> QED BY <1>1, <1>2 DEF SchedInv, SchedtskIsTop, set_state, schedvars

(* A step that touches neither the states, the priorities nor the queue.   *)
LEMMA SchedUnchanged ==
  ASSUME SchedInv, UNCHANGED <<state, priority, schedvars>>
  PROVE  SchedInv'
  BY DEF SchedInv, SchedtskIsTop, ReadyTasks, schedvars

(* The rotation of a queue keeps the ready queue and schedtsk right.       *)
LEMMA Rotate ==
  ASSUME StateType, SchedInv, NEW p \in Priority, rotate_ready_queue(p),
         UNCHANGED <<state, priority>>
  PROVE  SchedInv'
<1>1. ReadyTasks \in SUBSET Task /\ priority \in PriorityMap /\ ReadyTasks' = ReadyTasks
  BY DEF ReadyTasks, StateType, PriorityMap
<1>2. Consistent(ready_queue', ReadyTasks, priority)
  BY <1>1, ReadyQueueRotate DEF SchedInv, rotate_ready_queue
<1> QED BY <1>1, <1>2 DEF SchedInv, SchedtskIsTop, rotate_ready_queue, reschedule

(* change_task_priority keeps the ready queue right.                       *)
LEMMA ChangePriority ==
  ASSUME StateType, SchedInv, NEW t \in Task, NEW p \in Priority,
         change_task_priority(t, p), UNCHANGED state
  PROVE  SchedInv'
<1>1. /\ ReadyTasks \in SUBSET Task /\ ReadyTasks' = ReadyTasks
      /\ priority \in PriorityMap /\ priority' = [priority EXCEPT ![t] = p]
      /\ priority' \in PriorityMap
  BY DEF ReadyTasks, StateType, PriorityMap, change_task_priority
<1>2. Consistent(ready_queue, ReadyTasks, priority) /\ schedtsk = ready_queue_top(ready_queue)
  BY DEF SchedInv, SchedtskIsTop
<1>3. CASE state[t] = "READY"
  <2> DEFINE rest == ready_queue_delete(ready_queue, t, priority[t])
  <2>1. /\ t \in ReadyTasks
        /\ ready_queue' = ready_queue_insert(rest, t, p)
        /\ schedtsk' = ready_queue_top(ready_queue')
    BY <1>3 DEF ReadyTasks, change_task_priority, reschedule
  <2>2. Consistent(rest, ReadyTasks \ {t}, priority)
    BY <1>1, <1>2, <2>1, ReadyQueueDelete
  <2> HIDE DEF rest
  <2>3. Consistent(rest, ReadyTasks \ {t}, priority')
    BY <1>1, <2>2, OtherPriorities DEF PriorityMap
  <2>4. priority'[t] = p
    BY <1>1 DEF PriorityMap
  <2>5. Consistent(ready_queue', (ReadyTasks \ {t}) \cup {t}, priority')
    BY <1>1, <2>1, <2>3, <2>4, ReadyQueueInsert
  <2>6. (ReadyTasks \ {t}) \cup {t} = ReadyTasks
    BY <2>1
  <2> QED BY <1>1, <2>1, <2>5, <2>6 DEF SchedInv, SchedtskIsTop
<1>4. CASE state[t] # "READY"
  <2>1. UNCHANGED schedvars
    BY <1>4 DEF change_task_priority
  <2>2. \A u \in ReadyTasks : priority'[u] = priority[u]
    BY <1>1, <1>4 DEF ReadyTasks, PriorityMap
  <2>3. Consistent(ready_queue, ReadyTasks, priority')
    BY <1>1, <1>2, <2>2, OtherPriorities
  <2> QED BY <1>1, <1>2, <2>1, <2>3 DEF SchedInv, SchedtskIsTop, schedvars
<1> QED BY <1>3, <1>4

-----------------------------------------------------------------------------
(* A task is in the wait queue of its object and in no other.              *)
LEMMA InWaitQueue ==
  ASSUME WaitQueues, NEW g \in Gcb
  PROVE  /\ wait_queue[g] \in Queue(Task)
         /\ \A t \in Task : t \in ToSet(wait_queue[g]) <=> wspec[t] = g
  BY DEF WaitQueues, Queue

(* wait_cancel takes the task out of its wait queue, if it has one.        *)
LEMMA WaitCancel ==
  ASSUME TypeOK, WaitQueues, NEW t \in Task, wait_cancel(t)
  PROVE  WaitQueues'
<1>n. "none" \notin Gcb
  BY TaskCoreAssumption
<1>w. wspec \in [Task -> Gcb \cup {"none", "slp", "dly", "tmb", "rdv"}] /\ wait_queue \in [Gcb -> Seq(Task)]
  BY DEF TypeOK
<1>e. wspec' = [wspec EXCEPT ![t] = "none"]
  BY DEF wait_cancel
<1>1. CASE wspec[t] \notin Gcb
  <2>1. wait_queue' = wait_queue
    BY <1>1 DEF wait_cancel
  <2>2. \A g \in Gcb : {u \in Task : wspec'[u] = g} = {u \in Task : wspec[u] = g}
    BY <1>1, <1>n, <1>w, <1>e
  <2> QED BY <2>1, <2>2 DEF WaitQueues
<1>2. CASE wspec[t] \in Gcb
  <2> DEFINE q == wait_queue[wspec[t]]
  <2>1. wait_queue' = [wait_queue EXCEPT ![wspec[t]] = queue_delete(q, t)]
    BY <1>2 DEF wait_cancel
  <2>2. q \in Queue(Task) /\ t \in ToSet(q) /\ ToSet(q) = {u \in Task : wspec[u] = wspec[t]}
    BY <1>2 DEF WaitQueues, Queue
  <2>3. queue_delete(q, t) \in Queue(Task) /\ ToSet(queue_delete(q, t)) = ToSet(q) \ {t}
    BY <2>2, QueueDelete
  <2> HIDE DEF q
  <2>4. wait_queue' \in [Gcb -> Seq(Task)]
    BY <1>w, <2>1, <2>3 DEF Queue
  <2>5. ASSUME NEW g \in Gcb
        PROVE  /\ IsInjective(wait_queue'[g])
               /\ ToSet(wait_queue'[g]) = {u \in Task : wspec'[u] = g}
    <3>1. CASE g = wspec[t]
      <4>1. wait_queue'[g] = queue_delete(q, t)
        BY <1>w, <2>1, <3>1
      <4>2. {u \in Task : wspec'[u] = g} = {u \in Task : wspec[u] = g} \ {t}
        BY <1>n, <1>w, <1>e
      <4> QED BY <2>2, <2>3, <3>1, <4>1, <4>2 DEF Queue
    <3>2. CASE g # wspec[t]
      <4>1. wait_queue'[g] = wait_queue[g]
        BY <1>w, <2>1, <3>2
      <4>2. {u \in Task : wspec'[u] = g} = {u \in Task : wspec[u] = g}
        BY <1>n, <1>w, <1>e, <3>2
      <4> QED BY <4>1, <4>2 DEF WaitQueues
    <3> QED BY <3>1, <3>2
  <2> QED BY <2>4, <2>5 DEF WaitQueues
<1> QED BY <1>1, <1>2

(* The position that queue_search_gt finds is one of the queue or that of  *)
(* the header.                                                             *)
LEMMA QueueSearch ==
  ASSUME NEW q \in Seq(Task), NEW key, NEW val
  PROVE  queue_search_gt(q, key, val) \in 1 .. Len(q) + 1
<1> DEFINE greater == {i \in DOMAIN q : key[q[i]] > val}
<1>1. Len(q) \in Nat /\ \A i \in greater : i \in 1 .. Len(q)
  OBVIOUS
<1>2. queue_search_gt(q, key, val) = IF greater = {} THEN Len(q) + 1 ELSE Min(greater)
  BY DEF queue_search_gt
<1> HIDE DEF greater
<1>3. greater \in SUBSET Nat
  BY <1>1
<1>4. greater # {} => Min(greater) \in greater
  BY <1>3, MinOfNaturals
<1>5. CASE greater = {}
  BY <1>1, <1>2, <1>5
<1>6. CASE greater # {}
  BY <1>1, <1>2, <1>4, <1>6
<1> QED BY <1>5, <1>6

(* A change of priority only reorders a wait queue.                        *)
LEMMA WaitQueueReordered ==
  ASSUME TypeOK, WaitQueues, NEW t \in Task, NEW p \in Priority,
         change_task_priority(t, p), UNCHANGED wspec
  PROVE  WaitQueues'
<1>1. CASE ~(waiting(t) /\ wspec[t] \in TaTpri)
  <2>1. wait_queue' = wait_queue
    BY <1>1 DEF change_task_priority
  <2> QED BY <2>1 DEF WaitQueues
<1>2. CASE waiting(t) /\ wspec[t] \in TaTpri
  <2> DEFINE q == wait_queue[wspec[t]]
             d == queue_delete(q, t)
             i == queue_search_gt(d, priority', priority'[t])
  <2>0. wspec[t] \in Gcb
    BY <1>2, TaskCoreAssumption
  <2>1. wait_queue' = [wait_queue EXCEPT ![wspec[t]] = queue_insert(d, i, t)]
    BY <1>2 DEF change_task_priority, gcb_change_priority, queue_insert_tpri
  <2>2. q \in Queue(Task) /\ t \in ToSet(q)
    BY <2>0 DEF WaitQueues, Queue
  <2>3. d \in Queue(Task) /\ ToSet(d) = ToSet(q) \ {t}
    BY <2>2, QueueDelete
  <2>4. i \in 1 .. Len(d) + 1
    BY <2>3, QueueSearch DEF Queue
  <2> HIDE DEF d, i, q
  <2>5. /\ queue_insert(d, i, t) \in Queue(Task)
        /\ ToSet(queue_insert(d, i, t)) = ToSet(q)
    <3>1. /\ queue_insert(d, i, t) \in Queue(Task)
          /\ ToSet(queue_insert(d, i, t)) = ToSet(d) \cup {t}
      BY <2>3, <2>4, QueueInsert
    <3> QED BY <2>2, <2>3, <3>1
  <2>6. wait_queue' \in [Gcb -> Seq(Task)]
    BY <2>1, <2>5 DEF WaitQueues, Queue
  <2>7. ASSUME NEW g \in Gcb
        PROVE  IsInjective(wait_queue'[g]) /\ ToSet(wait_queue'[g]) = ToSet(wait_queue[g])
    BY <2>1, <2>5 DEF WaitQueues, Queue, q
  <2> QED BY <2>6, <2>7 DEF WaitQueues
<1> QED BY <1>1, <1>2

-----------------------------------------------------------------------------
(* What a call may assume: the caller is a task that exists, and it is     *)
(* READY unless dispatching is disabled.                                   *)
LEMMA CallerTask ==
  ASSUME IInv, in_task
  PROVE  /\ ctxtsk \in Task
         /\ state[ctxtsk] \in {"READY", "SUSPEND"}
         /\ dispatch_enabled => state[ctxtsk] = "READY"
<1>1. ctxtsk \in Task
  BY DEF IInv, TypeOK, in_task
<1>2. dispatch_enabled => state[ctxtsk] = "READY"
  BY <1>1, SchedtskReady DEF IInv, in_task, TypeOK, StateType
<1>3. ~dispatch_enabled => state[ctxtsk] \in {"READY", "SUSPEND"}
  BY <1>1 DEF IInv, RunInv, NoWaitWithoutDispatch, in_task
<1> QED BY <1>1, <1>2, <1>3

(* A call that names a task (pri is the priority it may name too).         *)
CallOn(t, pri) ==
  \/ del_tsk(t) \/ sta_tsk(t) \/ ter_tsk(t) \/ rel_wai(t)
  \/ sus_tsk(t) \/ rsm_tsk(t) \/ frsm_tsk(t)
  \/ wup_tsk(t) \/ can_wup(t) \/ timer_handler(t)
  \/ cre_tsk(t, pri) \/ chg_pri(t, pri)

(***************************************************************************)
(* The ready queue and schedtsk, action by action.                         *)
(***************************************************************************)
(* A call that names a task keeps the ready queue and schedtsk right.      *)
LEMMA TaskCallSched ==
  ASSUME IInv, StateType', NEW t \in Task, NEW pri \in Priority, CallOn(t, pri)
  PROVE  SchedInv'
<1>i. StateType /\ SchedInv
  BY DEF IInv, TypeOK, StateType
<1>1. ASSUME wait_release(t), waiting(t), UNCHANGED priority PROVE SchedInv'
  <2>1. CASE state[t] = "WAIT"
    BY <1>i, <1>1, <2>1, MakeReady DEF wait_release, make_non_wait
  <2>2. CASE state[t] # "WAIT"
    BY <1>i, <1>1, <2>2, SetState DEF wait_release, make_non_wait, waiting, TS_WAIT
  <2> QED BY <2>1, <2>2
<1>2. ASSUME resume(t), state[t] \in TS_SUSPEND, UNCHANGED priority PROVE SchedInv'
  <2>1. CASE state[t] = "SUSPEND"
    BY <1>i, <1>2, <2>1, MakeReady DEF resume
  <2>2. CASE state[t] # "SUSPEND"
    BY <1>i, <1>2, <2>2, SetState DEF resume, TS_SUSPEND
  <2> QED BY <2>1, <2>2
<1>3. CASE del_tsk(t)
  BY <1>i, <1>3, SetState DEF del_tsk, privars
<1>4. CASE sta_tsk(t)
  BY <1>i, <1>4, MakeReady DEF sta_tsk, privars
<1>5. CASE ter_tsk(t)
  <2>1. \A u \in Task \ {t} : priority'[u] = priority[u]
    BY <1>i, <1>5 DEF ter_tsk, make_dormant, StateType
  <2>2. CASE state[t] = "READY"
    BY <1>i, <1>5, <2>1, <2>2, MakeNonReady DEF ter_tsk, _ter_tsk
  <2>3. CASE state[t] # "READY"
    BY <1>i, <1>5, <2>1, <2>3, SetState DEF ter_tsk, _ter_tsk
  <2> QED BY <2>2, <2>3
<1>6. CASE rel_wai(t)
  BY <1>1, <1>6 DEF rel_wai, privars
<1>7. CASE sus_tsk(t)
  <2>1. UNCHANGED priority
    BY <1>7 DEF sus_tsk, privars
  <2>2. CASE state[t] = "READY"
    BY <1>i, <1>7, <2>1, <2>2, MakeNonReady DEF sus_tsk
  <2>3. CASE state[t] = "WAIT"
    BY <1>i, <1>7, <2>1, <2>3, SetState DEF sus_tsk
  <2>4. CASE state[t] \notin {"READY", "WAIT"}
    BY <1>i, <1>7, <2>1, <2>4, SchedUnchanged DEF sus_tsk
  <2> QED BY <2>2, <2>3, <2>4
<1>8. CASE rsm_tsk(t)
  <2>1. UNCHANGED priority /\ state[t] \in TS_SUSPEND
    BY <1>8 DEF rsm_tsk, privars
  <2>2. CASE suscnt[t] = 1
    BY <1>2, <1>8, <2>1, <2>2 DEF rsm_tsk
  <2>3. CASE suscnt[t] # 1
    BY <1>i, <1>8, <2>1, <2>3, SchedUnchanged DEF rsm_tsk
  <2> QED BY <2>2, <2>3
<1>9. CASE frsm_tsk(t)
  BY <1>2, <1>9 DEF frsm_tsk, privars
<1>10. CASE wup_tsk(t)
  <2>1. UNCHANGED priority
    BY <1>10 DEF wup_tsk, privars
  <2>2. CASE waiting(t) /\ wspec[t] = "slp"
    BY <1>1, <1>10, <2>1, <2>2 DEF wup_tsk
  <2>3. CASE ~(waiting(t) /\ wspec[t] = "slp")
    BY <1>i, <1>10, <2>1, <2>3, SchedUnchanged DEF wup_tsk
  <2> QED BY <2>2, <2>3
<1>11. CASE can_wup(t)
  BY <1>i, <1>11, SchedUnchanged DEF can_wup, privars
<1>12. CASE timer_handler(t)
  BY <1>1, <1>12 DEF timer_handler, privars, IInv, WaitInv, TimeoutOnlyWhileWaiting
<1>13. CASE cre_tsk(t, pri)
  <2>1. \A u \in Task \ {t} : priority'[u] = priority[u]
    BY <1>i, <1>13 DEF cre_tsk, StateType
  <2> QED BY <1>i, <1>13, <2>1, SetState DEF cre_tsk
<1>14. CASE chg_pri(t, pri)
  BY <1>i, <1>14, ChangePriority DEF chg_pri
<1> QED
  BY <1>3, <1>4, <1>5, <1>6, <1>7, <1>8, <1>9, <1>10, <1>11, <1>12, <1>13, <1>14 DEF CallOn

(* make_wait takes the running task out of the ready queue.                *)
LEMMA MakeWaitSched ==
  ASSUME IInv, StateType', in_task, NEW w, NEW timed, make_wait(w, timed),
         UNCHANGED priority
  PROVE  SchedInv'
<1>1. ctxtsk \in Task /\ StateType /\ SchedInv
  BY CallerTask DEF IInv, TypeOK, StateType
<1>2. CASE state[ctxtsk] = "READY"
  BY <1>1, <1>2, MakeNonReady DEF make_wait
<1>3. CASE state[ctxtsk] # "READY"
  BY <1>1, <1>3, SetState DEF make_wait
<1> QED BY <1>2, <1>3

(* So does a call about the running task itself.                           *)
LEMMA SelfCallSched ==
  ASSUME IInv, StateType', SelfCall
  PROVE  SchedInv'
<1>i. StateType /\ SchedInv /\ (in_task => ctxtsk \in Task)
  BY CallerTask DEF IInv, TypeOK, StateType
<1>1. ASSUME NEW s \in {"DORMANT", "NONEXIST"}, in_task, _ter_tsk(ctxtsk, s),
             \A u \in Task \ {ctxtsk} : priority'[u] = priority[u]
      PROVE  SchedInv'
  <2>1. CASE state[ctxtsk] = "READY"
    BY <1>i, <1>1, <2>1, MakeNonReady DEF _ter_tsk
  <2>2. CASE state[ctxtsk] # "READY"
    BY <1>i, <1>1, <2>2, SetState DEF _ter_tsk
  <2> QED BY <2>1, <2>2
<1>2. CASE ext_tsk
  <2>1. \A u \in Task \ {ctxtsk} : priority'[u] = priority[u]
    BY <1>i, <1>2 DEF ext_tsk, make_dormant, StateType
  <2> QED BY <1>1, <1>2, <2>1 DEF ext_tsk
<1>3. CASE exd_tsk
  BY <1>1, <1>3 DEF exd_tsk, privars
<1>4. CASE dly_tsk
  BY <1>4, MakeWaitSched DEF dly_tsk, privars
<1>5. CASE rot_rdq_run
  <2>1. UNCHANGED <<state, priority>>
    BY <1>5 DEF rot_rdq_run, privars
  <2>2. CASE in_indp /\ schedtsk # NoTask /\ rotate_ready_queue(ready_queue.top_priority)
    <3>1. ready_queue.top_priority \in Priority
      <4>1. ReadyTasks \in SUBSET Task /\ priority \in PriorityMap
        BY <1>i DEF ReadyTasks, StateType, PriorityMap
      <4>2. schedtsk \in ReadyTasks /\ priority[schedtsk] = ready_queue.top_priority
        BY <2>2, <1>i, <4>1, ReadyQueueTop DEF SchedInv, SchedtskIsTop
      <4> QED BY <4>1, <4>2 DEF PriorityMap
    <3> QED BY <1>i, <2>1, <2>2, <3>1, Rotate
  <2>3. CASE in_task /\ rotate_ready_queue(priority[ctxtsk])
    <3>1. priority[ctxtsk] \in Priority
      BY <1>i, <2>3 DEF StateType
    <3> QED BY <1>i, <2>1, <2>3, <3>1, Rotate
  <2> QED BY <1>5, <2>2, <2>3 DEF rot_rdq_run
<1>6. ASSUME NEW timed \in BOOLEAN, tslp_tsk(timed) PROVE SchedInv'
  <2>1. UNCHANGED priority /\ in_task
    BY <1>6 DEF tslp_tsk, privars
  <2>2. CASE wupcnt[ctxtsk] > 0
    BY <1>i, <1>6, <2>1, <2>2, SchedUnchanged DEF tslp_tsk
  <2>3. CASE ~(wupcnt[ctxtsk] > 0)
    BY <1>6, <2>1, <2>3, MakeWaitSched DEF tslp_tsk
  <2> QED BY <2>2, <2>3
<1>7. ASSUME NEW pri \in Priority, rot_rdq(pri) PROVE SchedInv'
  BY <1>i, <1>7, Rotate DEF rot_rdq, privars
<1> QED BY <1>2, <1>3, <1>4, <1>5, <1>6, <1>7 DEF SelfCall

(* The steps of the processor leave the tasks alone.                       *)
LEMMA CpuStepTasks ==
  ASSUME CpuStep
  PROVE  UNCHANGED taskvars
  BY DEF CpuStep, dis_dsp, ena_dsp, loc_cpu, unl_cpu, chg_ipm, dispatch, interrupt, ret_int

(***************************************************************************)
(* Types.                                                                  *)
(***************************************************************************)
(* States and priorities after a call that names a task.                   *)
LEMMA TaskCallStateType ==
  ASSUME TypeOK, NEW t \in Task, NEW pri \in Priority, CallOn(t, pri)
  PROVE  StateType'
<1>i. state \in [Task -> TSTAT] /\ priority \in [Task -> Priority] /\ ipriority \in [Task -> Priority]
  BY DEF TypeOK
<1>r. ASSUME wait_release(t) PROVE state' \in [Task -> TSTAT]
  BY <1>i, <1>r DEF wait_release, make_non_wait, make_ready, set_state, TSTAT
<1>s. ASSUME resume(t) PROVE state' \in [Task -> TSTAT]
  BY <1>i, <1>s DEF resume, make_ready, set_state, TSTAT
<1>1. CASE del_tsk(t)
  BY <1>i, <1>1 DEF del_tsk, set_state, StateType, TSTAT, privars
<1>2. CASE sta_tsk(t)
  BY <1>i, <1>2 DEF sta_tsk, make_ready, StateType, TSTAT, privars
<1>3. CASE ter_tsk(t)
  BY <1>i, <1>3 DEF ter_tsk, _ter_tsk, make_non_ready, set_state, make_dormant, StateType, TSTAT
<1>4. CASE rel_wai(t)
  BY <1>i, <1>r, <1>4 DEF rel_wai, StateType, privars
<1>5. CASE sus_tsk(t)
  BY <1>i, <1>5 DEF sus_tsk, make_non_ready, set_state, StateType, TSTAT, privars
<1>6. CASE rsm_tsk(t)
  BY <1>i, <1>s, <1>6 DEF rsm_tsk, StateType, privars
<1>7. CASE frsm_tsk(t)
  BY <1>i, <1>s, <1>7 DEF frsm_tsk, StateType, privars
<1>8. CASE wup_tsk(t)
  BY <1>i, <1>r, <1>8 DEF wup_tsk, StateType, privars
<1>9. CASE can_wup(t)
  BY <1>i, <1>9 DEF can_wup, StateType, privars
<1>10. CASE timer_handler(t)
  BY <1>i, <1>r, <1>10 DEF timer_handler, StateType, privars
<1>11. CASE cre_tsk(t, pri)
  BY <1>i, <1>11 DEF cre_tsk, set_state, StateType, TSTAT
<1>12. CASE chg_pri(t, pri)
  BY <1>i, <1>12 DEF chg_pri, change_task_priority, StateType
<1> QED
  BY <1>1, <1>2, <1>3, <1>4, <1>5, <1>6, <1>7, <1>8, <1>9, <1>10, <1>11, <1>12
  DEF CallOn

(* States and priorities after a call about the running task.              *)
LEMMA SelfCallStateType ==
  ASSUME IInv, SelfCall
  PROVE  StateType'
<1>i. state \in [Task -> TSTAT] /\ priority \in [Task -> Priority] /\ ipriority \in [Task -> Priority]
  BY DEF IInv, TypeOK
<1>1. CASE ext_tsk
  BY <1>i, <1>1, CallerTask
  DEF ext_tsk, _ter_tsk, make_non_ready, set_state, make_dormant, StateType, TSTAT
<1>2. CASE exd_tsk
  BY <1>i, <1>2 DEF exd_tsk, _ter_tsk, make_non_ready, set_state, StateType, TSTAT, privars
<1>3. CASE dly_tsk
  BY <1>i, <1>3 DEF dly_tsk, make_wait, make_non_ready, set_state, StateType, TSTAT, privars
<1>4. CASE rot_rdq_run
  BY <1>i, <1>4 DEF rot_rdq_run, StateType, privars
<1>5. ASSUME NEW timed \in BOOLEAN, tslp_tsk(timed) PROVE StateType'
  BY <1>i, <1>5 DEF tslp_tsk, make_wait, make_non_ready, set_state, StateType, TSTAT, privars
<1>6. ASSUME NEW pri \in Priority, rot_rdq(pri) PROVE StateType'
  BY <1>i, <1>6 DEF rot_rdq, StateType, privars
<1> QED BY <1>1, <1>2, <1>3, <1>4, <1>5, <1>6 DEF SelfCall

(* The other variables after a call that names a task.                     *)
LEMMA TaskCallTypes ==
  ASSUME IInv, NEW t \in Task, NEW pri \in Priority, CallOn(t, pri)
  PROVE  /\ ipriority' \in [Task -> Priority]
         /\ wupcnt' \in [Task -> 0 .. INT_MAX]
         /\ suscnt' \in [Task -> 0 .. INT_MAX]
         /\ wspec' \in [Task -> Gcb \cup {"none", "slp", "dly", "tmb", "rdv"}]
         /\ timer_queue' \in SUBSET Task
         /\ UNCHANGED cpuvars
<1>i. /\ ipriority \in [Task -> Priority]
      /\ wupcnt \in [Task -> 0 .. INT_MAX]
      /\ suscnt \in [Task -> 0 .. INT_MAX]
      /\ wspec \in [Task -> Gcb \cup {"none", "slp", "dly", "tmb", "rdv"}]
      /\ timer_queue \in SUBSET Task
      /\ INT_MAX \in Nat
  BY TaskManagementAssumption DEF IInv, TypeOK
<1>w. ASSUME wait_cancel(t)
      PROVE  /\ wspec' \in [Task -> Gcb \cup {"none", "slp", "dly", "tmb", "rdv"}]
             /\ timer_queue' \in SUBSET Task
  BY <1>i, <1>w DEF wait_cancel
<1>n. \A u \in Task : state[u] \in TS_SUSPEND => suscnt[u] > 0
  BY DEF IInv, CountInv, SuspendCount, task_alive
<1>1. CASE del_tsk(t)
  BY <1>i, <1>1 DEF del_tsk, countvars, privars, waitvars
<1>2. CASE sta_tsk(t)
  BY <1>i, <1>2 DEF sta_tsk, countvars, privars, waitvars
<1>3. CASE ter_tsk(t)
  BY <1>i, <1>w, <1>3 DEF ter_tsk, _ter_tsk, make_dormant, waitvars
<1>4. CASE rel_wai(t)
  BY <1>i, <1>w, <1>4 DEF rel_wai, wait_release, countvars, privars
<1>5. CASE sus_tsk(t)
  <2>1. suscnt' \in [Task -> 0 .. INT_MAX]
    BY <1>i, <1>5 DEF sus_tsk
  <2> QED BY <1>i, <1>5, <2>1 DEF sus_tsk, privars, waitvars
<1>6. CASE rsm_tsk(t)
  <2>1. suscnt' \in [Task -> 0 .. INT_MAX]
    BY <1>i, <1>n, <1>6 DEF rsm_tsk
  <2> QED BY <1>i, <1>6, <2>1 DEF rsm_tsk, privars, waitvars
<1>7. CASE frsm_tsk(t)
  BY <1>i, <1>7 DEF frsm_tsk, privars, waitvars
<1>8. CASE wup_tsk(t)
  <2>1. CASE waiting(t) /\ wspec[t] = "slp"
    BY <1>i, <1>w, <1>8, <2>1 DEF wup_tsk, wait_release, privars
  <2>2. CASE ~(waiting(t) /\ wspec[t] = "slp")
    <3>1. wupcnt' \in [Task -> 0 .. INT_MAX]
      BY <1>i, <1>8, <2>2 DEF wup_tsk
    <3> QED BY <1>i, <1>8, <2>2, <3>1 DEF wup_tsk, privars, waitvars
  <2> QED BY <2>1, <2>2
<1>9. CASE can_wup(t)
  BY <1>i, <1>9 DEF can_wup, privars, waitvars
<1>10. CASE timer_handler(t)
  BY <1>i, <1>w, <1>10 DEF timer_handler, wait_release, countvars, privars
<1>11. CASE cre_tsk(t, pri)
  BY <1>i, <1>11 DEF cre_tsk, waitvars
<1>12. CASE chg_pri(t, pri)
  BY <1>i, <1>12 DEF chg_pri, countvars
<1> QED
  BY <1>1, <1>2, <1>3, <1>4, <1>5, <1>6, <1>7, <1>8, <1>9, <1>10, <1>11, <1>12
  DEF CallOn

(* The other variables after a call about the running task.                *)
LEMMA SelfCallTypes ==
  ASSUME IInv, SchedInv', StateType', SelfCall
  PROVE  /\ ipriority' \in [Task -> Priority]
         /\ wupcnt' \in [Task -> 0 .. INT_MAX]
         /\ suscnt' \in [Task -> 0 .. INT_MAX]
         /\ wspec' \in [Task -> Gcb \cup {"none", "slp", "dly", "tmb", "rdv"}]
         /\ timer_queue' \in SUBSET Task
         /\ ctxtsk' \in Task \cup {NoTask}
         /\ dispatch_disabled' \in BOOLEAN
         /\ ipm' \in 0 .. IPM_MAX
         /\ in_indp' \in BOOLEAN
<1>i. /\ ipriority \in [Task -> Priority]
      /\ wupcnt \in [Task -> 0 .. INT_MAX]
      /\ suscnt \in [Task -> 0 .. INT_MAX]
      /\ wspec \in [Task -> Gcb \cup {"none", "slp", "dly", "tmb", "rdv"}]
      /\ timer_queue \in SUBSET Task
      /\ ctxtsk \in Task \cup {NoTask}
      /\ dispatch_disabled \in BOOLEAN
      /\ ipm \in 0 .. IPM_MAX
      /\ in_indp \in BOOLEAN
      /\ INT_MAX \in Nat
      /\ 0 \in 0 .. IPM_MAX
  BY TaskManagementAssumption, TaskCoreAssumption DEF IInv, TypeOK
<1>c. in_task => ctxtsk \in Task
  BY CallerTask
<1>s. schedtsk' \in Task \cup {NoTask}
  BY SchedtskReadyNext
<1>w. ASSUME NEW s, in_task, _ter_tsk(ctxtsk, s)
      PROVE  /\ wspec' \in [Task -> Gcb \cup {"none", "slp", "dly", "tmb", "rdv"}]
             /\ timer_queue' \in SUBSET Task
  BY <1>i, <1>w, <1>c DEF _ter_tsk, wait_cancel, waitvars
<1>m. ASSUME NEW w \in {"slp", "dly"}, NEW timed, in_task, make_wait(w, timed)
      PROVE  /\ wspec' \in [Task -> Gcb \cup {"none", "slp", "dly", "tmb", "rdv"}]
             /\ timer_queue' \in SUBSET Task
  BY <1>i, <1>m, <1>c DEF make_wait
<1>1. CASE ext_tsk
  <2>1. /\ wupcnt' = [wupcnt EXCEPT ![ctxtsk] = 0]
        /\ suscnt' = [suscnt EXCEPT ![ctxtsk] = 0]
        /\ ipriority' = ipriority
    BY <1>1 DEF ext_tsk, make_dormant
  <2>2. /\ wspec' \in [Task -> Gcb \cup {"none", "slp", "dly", "tmb", "rdv"}]
        /\ timer_queue' \in SUBSET Task
    BY <1>w, <1>1 DEF ext_tsk
  <2>3. /\ ctxtsk' = schedtsk' /\ dispatch_disabled' = FALSE
        /\ ipm' = 0 /\ in_indp' = in_indp
    BY <1>1 DEF ext_tsk, force_dispatch
  <2>4. /\ wupcnt' \in [Task -> 0 .. INT_MAX]
        /\ suscnt' \in [Task -> 0 .. INT_MAX]
    <3>1. ctxtsk \in Task
      BY <1>c, <1>1 DEF ext_tsk
    <3> QED BY <1>i, <2>1, <3>1
  <2> QED BY <1>i, <1>s, <2>1, <2>2, <2>3, <2>4
<1>2. CASE exd_tsk
  BY <1>i, <1>w, <1>s, <1>2 DEF exd_tsk, force_dispatch, countvars, privars
<1>3. CASE dly_tsk
  BY <1>i, <1>m, <1>3 DEF dly_tsk, countvars, privars, cpuvars
<1>4. CASE rot_rdq_run
  BY <1>i, <1>4 DEF rot_rdq_run, countvars, privars, waitvars, cpuvars
<1>5. ASSUME NEW timed \in BOOLEAN, tslp_tsk(timed)
      PROVE  /\ wupcnt' \in [Task -> 0 .. INT_MAX]
             /\ wspec' \in [Task -> Gcb \cup {"none", "slp", "dly", "tmb", "rdv"}]
             /\ timer_queue' \in SUBSET Task
             /\ UNCHANGED <<suscnt, privars, cpuvars>>
  <2>1. CASE wupcnt[ctxtsk] > 0
    <3>1. wupcnt' \in [Task -> 0 .. INT_MAX]
      BY <1>i, <1>c, <1>5, <2>1 DEF tslp_tsk
    <3> QED BY <1>i, <1>5, <2>1, <3>1 DEF tslp_tsk, waitvars
  <2>2. CASE ~(wupcnt[ctxtsk] > 0)
    BY <1>i, <1>m, <1>5, <2>2 DEF tslp_tsk
  <2> QED BY <2>1, <2>2
<1>6. ASSUME NEW pri \in Priority, rot_rdq(pri)
      PROVE  UNCHANGED <<countvars, privars, waitvars, cpuvars>>
  BY <1>6 DEF rot_rdq
<1> QED
  BY <1>i, <1>1, <1>2, <1>3, <1>4, <1>5, <1>6
  DEF SelfCall, countvars, privars, waitvars, cpuvars

(***************************************************************************)
(* The wait queues.                                                        *)
(***************************************************************************)
(* A task whose wait ends leaves its wait queue and the timer queue.       *)
LEMMA TaskCallWait ==
  ASSUME IInv, NEW t \in Task, NEW pri \in Priority, CallOn(t, pri)
  PROVE  WaitInv'
<1>t. /\ state \in [Task -> TSTAT]
      /\ wspec \in [Task -> Gcb \cup {"none", "slp", "dly", "tmb", "rdv"}]
      /\ timer_queue \in SUBSET Task
      /\ TypeOK
  BY DEF IInv, TypeOK
<1>i. /\ WaitQueues
      /\ \A u \in Task : waiting(u) <=> wspec[u] # "none"
      /\ \A u \in timer_queue : waiting(u)
  BY DEF IInv, WaitInv, TimeoutOnlyWhileWaiting
<1>u. ASSUME UNCHANGED <<wspec, wait_queue>> PROVE WaitQueues'
  BY <1>i, <1>u DEF WaitQueues
<1>r. ASSUME wait_release(t), waiting(t) PROVE WaitInv'
  <2>1. WaitQueues'
    BY <1>i, <1>t, <1>r, WaitCancel DEF wait_release
  <2>2. /\ state' = [state EXCEPT ![t] = IF state[t] = "WAIT" THEN "READY" ELSE "SUSPEND"]
        /\ wspec' = [wspec EXCEPT ![t] = "none"]
        /\ timer_queue' = timer_queue \ {t}
    BY <1>r DEF wait_release, wait_cancel, make_non_wait, make_ready, set_state
  <2> QED BY <1>t, <1>i, <2>1, <2>2 DEF WaitInv, TimeoutOnlyWhileWaiting, waiting, TS_WAIT
<1>q. ASSUME UNCHANGED waitvars, NEW s \in TSTAT, state' = [state EXCEPT ![t] = s],
             waiting(t) <=> s \in TS_WAIT
      PROVE  WaitInv'
  BY <1>t, <1>i, <1>u, <1>q DEF WaitInv, TimeoutOnlyWhileWaiting, waiting, waitvars
<1>e. ASSUME UNCHANGED <<state, waitvars>> PROVE WaitInv'
  BY <1>i, <1>u, <1>e DEF WaitInv, TimeoutOnlyWhileWaiting, waiting, waitvars
<1>s. ASSUME resume(t), state[t] \in TS_SUSPEND, UNCHANGED waitvars PROVE WaitInv'
  BY <1>q, <1>s DEF resume, make_ready, set_state, waiting, TS_WAIT, TS_SUSPEND, TSTAT
<1>1. CASE del_tsk(t)
  BY <1>q, <1>1 DEF del_tsk, set_state, waiting, TS_WAIT, TSTAT
<1>2. CASE sta_tsk(t)
  BY <1>q, <1>2 DEF sta_tsk, make_ready, waiting, TS_WAIT, TSTAT
<1>3. CASE ter_tsk(t)
  <2>1. state' = [state EXCEPT ![t] = "DORMANT"]
    BY <1>3 DEF ter_tsk, _ter_tsk, make_non_ready, set_state
  <2>2. CASE waiting(t)
    <3>1. WaitQueues'
      BY <1>i, <1>t, <1>3, <2>2, WaitCancel DEF ter_tsk, _ter_tsk
    <3>2. wspec' = [wspec EXCEPT ![t] = "none"] /\ timer_queue' = timer_queue \ {t}
      BY <1>3, <2>2 DEF ter_tsk, _ter_tsk, wait_cancel
    <3> QED BY <1>t, <1>i, <2>1, <3>1, <3>2 DEF WaitInv, TimeoutOnlyWhileWaiting, waiting, TS_WAIT
  <2>3. CASE ~waiting(t)
    BY <1>q, <1>3, <2>1, <2>3 DEF ter_tsk, _ter_tsk, TS_WAIT, TSTAT
  <2> QED BY <2>2, <2>3
<1>4. CASE rel_wai(t)
  BY <1>r, <1>4 DEF rel_wai
<1>5. CASE sus_tsk(t)
  <2>1. CASE state[t] = "READY"
    BY <1>q, <1>5, <2>1 DEF sus_tsk, make_non_ready, waiting, TS_WAIT, TSTAT
  <2>2. CASE state[t] = "WAIT"
    BY <1>q, <1>5, <2>2 DEF sus_tsk, set_state, waiting, TS_WAIT, TSTAT
  <2>3. CASE state[t] \notin {"READY", "WAIT"}
    BY <1>e, <1>5, <2>3 DEF sus_tsk
  <2> QED BY <2>1, <2>2, <2>3
<1>6. CASE rsm_tsk(t)
  BY <1>s, <1>e, <1>6 DEF rsm_tsk
<1>7. CASE frsm_tsk(t)
  BY <1>s, <1>7 DEF frsm_tsk
<1>8. CASE wup_tsk(t)
  BY <1>r, <1>e, <1>8 DEF wup_tsk
<1>9. CASE can_wup(t)
  BY <1>e, <1>9 DEF can_wup
<1>10. CASE timer_handler(t)
  BY <1>r, <1>i, <1>10 DEF timer_handler
<1>11. CASE cre_tsk(t, pri)
  BY <1>q, <1>11 DEF cre_tsk, set_state, waiting, TS_WAIT, TSTAT
<1>12. CASE chg_pri(t, pri)
  <2>1. WaitQueues'
    BY <1>i, <1>t, <1>12, WaitQueueReordered DEF chg_pri
  <2> QED BY <1>i, <1>12, <2>1 DEF chg_pri, WaitInv, TimeoutOnlyWhileWaiting, waiting
<1> QED
  BY <1>1, <1>2, <1>3, <1>4, <1>5, <1>6, <1>7, <1>8, <1>9, <1>10, <1>11, <1>12
  DEF CallOn

(* The running task is in no wait queue, and enters none here.             *)
LEMMA SelfCallWait ==
  ASSUME IInv, SelfCall
  PROVE  WaitInv'
<1>t. /\ state \in [Task -> TSTAT]
      /\ wspec \in [Task -> Gcb \cup {"none", "slp", "dly", "tmb", "rdv"}]
      /\ timer_queue \in SUBSET Task
  BY DEF IInv, TypeOK
<1>i. /\ WaitQueues
      /\ \A u \in Task : waiting(u) <=> wspec[u] # "none"
      /\ \A u \in timer_queue : waiting(u)
  BY DEF IInv, WaitInv, TimeoutOnlyWhileWaiting
<1>u. ASSUME UNCHANGED <<wspec, wait_queue>> PROVE WaitQueues'
  BY <1>i, <1>u DEF WaitQueues
<1>e. ASSUME UNCHANGED <<state, waitvars>> PROVE WaitInv'
  BY <1>i, <1>u, <1>e DEF WaitInv, TimeoutOnlyWhileWaiting, waiting, waitvars
<1>x. ASSUME in_task, NEW s \in {"DORMANT", "NONEXIST"}, _ter_tsk(ctxtsk, s)
      PROVE  WaitInv'
  <2>1. ctxtsk \in Task /\ ~waiting(ctxtsk)
    BY <1>x, CallerTask DEF waiting, TS_WAIT
  <2>2. UNCHANGED waitvars /\ state' = [state EXCEPT ![ctxtsk] = s]
    BY <1>x, <2>1 DEF _ter_tsk, make_non_ready, set_state
  <2> QED BY <1>t, <1>i, <1>u, <2>1, <2>2
          DEF WaitInv, TimeoutOnlyWhileWaiting, waiting, waitvars, TS_WAIT
<1>m. ASSUME in_task, ~in_ddsp, NEW w \in {"slp", "dly"}, NEW timed, make_wait(w, timed),
             UNCHANGED wait_queue
      PROVE  WaitInv'
  <2>1. ctxtsk \in Task /\ state[ctxtsk] \in {"READY", "SUSPEND"}
    BY <1>m, CallerTask
  <2>2. PICK s \in TS_WAIT : state' = [state EXCEPT ![ctxtsk] = s]
    BY <1>m DEF make_wait, make_non_ready, set_state, TS_WAIT
  <2>3. /\ wspec' = [wspec EXCEPT ![ctxtsk] = w]
        /\ timer_queue' \subseteq timer_queue \cup {ctxtsk}
        /\ wspec[ctxtsk] = "none" /\ w \notin Gcb /\ "none" \notin Gcb /\ w # "none"
    BY <1>m, <1>i, <2>1, TaskCoreAssumption DEF make_wait, waiting, TS_WAIT
  <2>4. WaitQueues'
    <3>1. \A g \in Gcb : {u \in Task : wspec'[u] = g} = {u \in Task : wspec[u] = g}
      BY <1>t, <2>1, <2>3
    <3> QED BY <1>i, <1>m, <3>1 DEF WaitQueues
  <2> QED BY <1>t, <1>i, <2>1, <2>2, <2>3, <2>4
          DEF WaitInv, TimeoutOnlyWhileWaiting, waiting, TS_WAIT
<1>1. CASE ext_tsk
  BY <1>x, <1>1 DEF ext_tsk
<1>2. CASE exd_tsk
  BY <1>x, <1>2 DEF exd_tsk
<1>3. CASE dly_tsk
  BY <1>m, <1>3 DEF dly_tsk
<1>4. CASE rot_rdq_run
  BY <1>e, <1>4 DEF rot_rdq_run
<1>5. ASSUME NEW timed \in BOOLEAN, tslp_tsk(timed) PROVE WaitInv'
  <2>1. CASE wupcnt[ctxtsk] > 0
    BY <1>e, <1>5, <2>1 DEF tslp_tsk
  <2>2. CASE ~(wupcnt[ctxtsk] > 0)
    BY <1>m, <1>5, <2>2 DEF tslp_tsk
  <2> QED BY <2>1, <2>2
<1>6. ASSUME NEW pri \in Priority, rot_rdq(pri) PROVE WaitInv'
  BY <1>e, <1>6 DEF rot_rdq
<1> QED BY <1>1, <1>2, <1>3, <1>4, <1>5, <1>6 DEF SelfCall

(***************************************************************************)
(* The counts of queued wake-ups and of nested suspensions.                *)
(***************************************************************************)
(* A call that names a task changes its counts with its state.             *)
LEMMA TaskCallCount ==
  ASSUME IInv, NEW t \in Task, NEW pri \in Priority, CallOn(t, pri)
  PROVE  CountInv'
<1>t. /\ state \in [Task -> TSTAT]
      /\ wspec \in [Task -> Gcb \cup {"none", "slp", "dly", "tmb", "rdv"}]
      /\ wupcnt \in [Task -> Nat] /\ suscnt \in [Task -> Nat]
  BY TaskManagementAssumption DEF IInv, TypeOK
<1>s. \A u \in Task : task_alive(u) => (suscnt[u] > 0 <=> state[u] \in TS_SUSPEND)
  BY DEF IInv, CountInv, SuspendCount
<1>f. \A u \in Task : state[u] = "DORMANT" => wupcnt[u] = 0 /\ suscnt[u] = 0
  BY DEF IInv, CountInv, StartsFresh
<1>w. \A u \in Task : waiting(u) /\ wspec[u] = "slp" => wupcnt[u] = 0
  BY DEF IInv, CountInv, NoLostWakeup
<1> USE DEF CountInv, SuspendCount, StartsFresh, NoLostWakeup, task_alive, waiting, TS_WAIT, TS_SUSPEND
<1>r. ASSUME wait_release(t), waiting(t), UNCHANGED countvars PROVE CountInv'
  <2>1. /\ state' = [state EXCEPT ![t] = IF state[t] = "WAIT" THEN "READY" ELSE "SUSPEND"]
        /\ wspec' = [wspec EXCEPT ![t] = "none"]
    BY <1>r DEF wait_release, wait_cancel, make_non_wait, make_ready, set_state
  <2> QED BY <1>r, <1>t, <1>s, <1>f, <1>w, <2>1 DEF countvars
<1>1. CASE del_tsk(t)
  BY <1>t, <1>s, <1>f, <1>w, <1>1 DEF del_tsk, set_state, countvars, waitvars
<1>2. CASE sta_tsk(t)
  BY <1>t, <1>s, <1>f, <1>w, <1>2 DEF sta_tsk, make_ready, countvars, waitvars
<1>3. CASE ter_tsk(t)
  <2>1. state' = [state EXCEPT ![t] = "DORMANT"]
    BY <1>3 DEF ter_tsk, _ter_tsk, make_non_ready, set_state
  <2>2. /\ wupcnt' = [wupcnt EXCEPT ![t] = 0]
        /\ suscnt' = [suscnt EXCEPT ![t] = 0]
        /\ wspec' = wspec \/ wspec' = [wspec EXCEPT ![t] = "none"]
    BY <1>3 DEF ter_tsk, _ter_tsk, make_dormant, wait_cancel, waitvars
  <2> QED BY <1>t, <1>s, <1>f, <1>w, <2>1, <2>2
<1>4. CASE rel_wai(t)
  BY <1>r, <1>4 DEF rel_wai
<1>5. CASE sus_tsk(t)
  <2>1. /\ suscnt' = [suscnt EXCEPT ![t] = suscnt[t] + 1]
        /\ UNCHANGED <<wupcnt, wspec>>
    BY <1>5 DEF sus_tsk, waitvars
  <2>2. state' = [state EXCEPT ![t] = IF state[t] = "READY" THEN "SUSPEND"
                                     ELSE IF state[t] = "WAIT" THEN "WAITSUS" ELSE state[t]]
    <3>1. CASE state[t] = "READY"
      BY <1>t, <1>5, <3>1 DEF sus_tsk, make_non_ready
    <3>2. CASE state[t] = "WAIT"
      BY <1>t, <1>5, <3>2 DEF sus_tsk, set_state
    <3>3. CASE state[t] \notin {"READY", "WAIT"}
      BY <1>t, <1>5, <3>3 DEF sus_tsk
    <3> QED BY <3>1, <3>2, <3>3
  <2>3. task_alive(t)
    BY <1>5 DEF sus_tsk
  <2> QED BY <1>t, <1>s, <1>f, <1>w, <2>1, <2>2, <2>3
<1>6. CASE rsm_tsk(t)
  <2>1. /\ suscnt' = [suscnt EXCEPT ![t] = suscnt[t] - 1]
        /\ UNCHANGED <<wupcnt, wspec>>
        /\ state[t] \in TS_SUSPEND
    BY <1>6 DEF rsm_tsk, waitvars
  <2>2. CASE suscnt[t] = 1
    <3>1. state' = [state EXCEPT ![t] = IF state[t] = "SUSPEND" THEN "READY" ELSE "WAIT"]
      BY <1>6, <2>2 DEF rsm_tsk, resume, make_ready, set_state
    <3> QED BY <1>t, <1>s, <1>f, <1>w, <2>1, <2>2, <3>1
  <2>3. CASE suscnt[t] # 1
    <3>1. state' = state
      BY <1>6, <2>3 DEF rsm_tsk
    <3> QED BY <1>t, <1>s, <1>f, <1>w, <2>1, <2>3, <3>1
  <2> QED BY <2>2, <2>3
<1>7. CASE frsm_tsk(t)
  <2>1. /\ suscnt' = [suscnt EXCEPT ![t] = 0]
        /\ UNCHANGED <<wupcnt, wspec>>
        /\ state' = [state EXCEPT ![t] = IF state[t] = "SUSPEND" THEN "READY" ELSE "WAIT"]
        /\ state[t] \in TS_SUSPEND
    BY <1>7 DEF frsm_tsk, resume, make_ready, set_state, waitvars
  <2> QED BY <1>t, <1>s, <1>f, <1>w, <2>1
<1>8. CASE wup_tsk(t)
  <2>1. CASE waiting(t) /\ wspec[t] = "slp"
    BY <1>r, <1>8, <2>1 DEF wup_tsk, countvars
  <2>2. CASE ~(waiting(t) /\ wspec[t] = "slp")
    <3>1. /\ wupcnt' = [wupcnt EXCEPT ![t] = wupcnt[t] + 1]
          /\ UNCHANGED <<state, suscnt, wspec>>
          /\ task_alive(t)
      BY <1>8, <2>2 DEF wup_tsk, waitvars
    <3> QED BY <1>t, <1>s, <1>f, <1>w, <2>2, <3>1
  <2> QED BY <2>1, <2>2
<1>9. CASE can_wup(t)
  BY <1>t, <1>s, <1>f, <1>w, <1>9 DEF can_wup, waitvars
<1>10. CASE timer_handler(t)
  BY <1>r, <1>10 DEF timer_handler, IInv, WaitInv, TimeoutOnlyWhileWaiting
<1>11. CASE cre_tsk(t, pri)
  BY <1>t, <1>s, <1>f, <1>w, <1>11 DEF cre_tsk, set_state, waitvars
<1>12. CASE chg_pri(t, pri)
  BY <1>t, <1>s, <1>f, <1>w, <1>12 DEF chg_pri, countvars
<1> QED
  BY <1>1, <1>2, <1>3, <1>4, <1>5, <1>6, <1>7, <1>8, <1>9, <1>10, <1>11, <1>12
  DEF CallOn

(* The running task goes to sleep only if no wake-up is queued.            *)
LEMMA SelfCallCount ==
  ASSUME IInv, SelfCall
  PROVE  CountInv'
<1>t. /\ state \in [Task -> TSTAT]
      /\ wspec \in [Task -> Gcb \cup {"none", "slp", "dly", "tmb", "rdv"}]
      /\ wupcnt \in [Task -> Nat] /\ suscnt \in [Task -> Nat]
  BY TaskManagementAssumption DEF IInv, TypeOK
<1>s. \A u \in Task : task_alive(u) => (suscnt[u] > 0 <=> state[u] \in TS_SUSPEND)
  BY DEF IInv, CountInv, SuspendCount
<1>f. \A u \in Task : state[u] = "DORMANT" => wupcnt[u] = 0 /\ suscnt[u] = 0
  BY DEF IInv, CountInv, StartsFresh
<1>w. \A u \in Task : waiting(u) /\ wspec[u] = "slp" => wupcnt[u] = 0
  BY DEF IInv, CountInv, NoLostWakeup
<1>c. in_task => ctxtsk \in Task /\ state[ctxtsk] \in {"READY", "SUSPEND"}
  BY CallerTask
<1> USE DEF CountInv, SuspendCount, StartsFresh, NoLostWakeup, task_alive, waiting,
            TS_WAIT, TS_SUSPEND
<1>m. ASSUME in_task, ~in_ddsp, NEW w \in {"slp", "dly"}, NEW timed, make_wait(w, timed),
             UNCHANGED countvars, w = "slp" => wupcnt[ctxtsk] = 0
      PROVE  CountInv'
  <2>1. state[ctxtsk] = "READY" /\ ctxtsk \in Task
    BY <1>m, CallerTask DEF in_ddsp, in_loc, dispatch_enabled, in_task, IInv, TypeOK
  <2>2. state' = [state EXCEPT ![ctxtsk] = "WAIT"] /\ wspec' = [wspec EXCEPT ![ctxtsk] = w]
    BY <1>m, <2>1 DEF make_wait, make_non_ready
  <2> QED BY <1>t, <1>s, <1>f, <1>w, <1>m, <2>1, <2>2 DEF countvars
<1>1. CASE ext_tsk
  <2>1. /\ state' = [state EXCEPT ![ctxtsk] = "DORMANT"]
        /\ wupcnt' = [wupcnt EXCEPT ![ctxtsk] = 0]
        /\ suscnt' = [suscnt EXCEPT ![ctxtsk] = 0]
        /\ wspec' = wspec \/ wspec' = [wspec EXCEPT ![ctxtsk] = "none"]
        /\ ctxtsk \in Task
    BY <1>1, <1>c
    DEF ext_tsk, _ter_tsk, make_dormant, make_non_ready, set_state, wait_cancel, waitvars
  <2> QED BY <1>t, <1>s, <1>f, <1>w, <2>1
<1>2. CASE exd_tsk
  <2>1. /\ state' = [state EXCEPT ![ctxtsk] = "NONEXIST"]
        /\ UNCHANGED countvars
        /\ wspec' = wspec \/ wspec' = [wspec EXCEPT ![ctxtsk] = "none"]
        /\ ctxtsk \in Task
    BY <1>2, <1>c DEF exd_tsk, _ter_tsk, make_non_ready, set_state, wait_cancel, waitvars
  <2> QED BY <1>t, <1>s, <1>f, <1>w, <2>1 DEF countvars
<1>3. CASE dly_tsk
  BY <1>m, <1>3 DEF dly_tsk
<1>4. CASE rot_rdq_run
  BY <1>t, <1>s, <1>f, <1>w, <1>4 DEF rot_rdq_run, countvars, waitvars
<1>5. ASSUME NEW timed \in BOOLEAN, tslp_tsk(timed) PROVE CountInv'
  <2>1. CASE wupcnt[ctxtsk] > 0
    <3>1. /\ wupcnt' = [wupcnt EXCEPT ![ctxtsk] = wupcnt[ctxtsk] - 1]
          /\ UNCHANGED <<state, suscnt, wspec>>
          /\ ctxtsk \in Task /\ state[ctxtsk] \in {"READY", "SUSPEND"}
      BY <1>5, <1>c, <2>1 DEF tslp_tsk, waitvars
    <3> QED BY <1>t, <1>s, <1>f, <1>w, <3>1
  <2>2. CASE ~(wupcnt[ctxtsk] > 0)
    <3>1. wupcnt[ctxtsk] = 0 /\ UNCHANGED countvars /\ in_task /\ ~in_ddsp
      BY <1>5, <1>t, <1>c, <2>2 DEF tslp_tsk, countvars
    <3>2. make_wait("slp", timed)
      BY <1>5, <2>2 DEF tslp_tsk
    <3> QED BY <1>m, <3>1, <3>2
  <2> QED BY <2>1, <2>2
<1>6. ASSUME NEW pri \in Priority, rot_rdq(pri) PROVE CountInv'
  BY <1>t, <1>s, <1>f, <1>w, <1>6 DEF rot_rdq, countvars, waitvars
<1> QED BY <1>1, <1>2, <1>3, <1>4, <1>5, <1>6 DEF SelfCall

(***************************************************************************)
(* The running task.                                                       *)
(***************************************************************************)
(* A call that names a task cannot end the running task or make it wait.   *)
LEMMA TaskCallRun ==
  ASSUME IInv, NEW t \in Task, NEW pri \in Priority, CallOn(t, pri)
  PROVE  RunInv'
<1>t. state \in [Task -> TSTAT] /\ ctxtsk \in Task \cup {NoTask}
  BY DEF IInv, TypeOK
<1>i. /\ ctxtsk # NoTask => task_alive(ctxtsk)
      /\ ctxtsk # NoTask /\ ~dispatch_enabled => state[ctxtsk] \in {"READY", "SUSPEND"}
  BY DEF IInv, RunInv, RunningTaskAlive, NoWaitWithoutDispatch
<1> USE DEF task_alive, waiting, TS_WAIT, TS_SUSPEND
(* It is enough to see where the task t, if it is the running one, can go. *)
<1>g. ASSUME UNCHANGED cpuvars,
             \A u \in Task \ {t} : state'[u] = state[u],
             \/ state'[t] = state[t]
             \/ t # ctxtsk
             \/ state[t] = "READY" /\ state'[t] = "SUSPEND"
             \/ state[t] = "WAIT" /\ state'[t] \in {"READY", "WAITSUS"}
             \/ state[t] = "SUSPEND" /\ state'[t] = "READY"
             \/ state[t] = "WAITSUS" /\ state'[t] \in {"SUSPEND", "WAIT"}
      PROVE  RunInv'
  <2>1. ctxtsk' = ctxtsk /\ dispatch_enabled' = dispatch_enabled
    BY <1>g DEF cpuvars, dispatch_enabled
  <2>2. CASE ctxtsk = NoTask
    BY <2>1, <2>2 DEF RunInv, RunningTaskAlive, NoWaitWithoutDispatch
  <2>3. CASE ctxtsk # NoTask
    <3>1. ctxtsk \in Task
      BY <1>t, <2>3
    <3>2. CASE ctxtsk # t
      <4>1. state'[ctxtsk] = state[ctxtsk]
        BY <1>g, <3>1, <3>2
      <4> QED BY <1>i, <2>1, <2>3, <4>1 DEF RunInv, RunningTaskAlive, NoWaitWithoutDispatch
    <3>3. CASE ctxtsk = t
      <4>1. \/ state'[t] = state[t]
            \/ state[t] = "READY" /\ state'[t] = "SUSPEND"
            \/ state[t] = "WAIT" /\ state'[t] \in {"READY", "WAITSUS"}
            \/ state[t] = "SUSPEND" /\ state'[t] = "READY"
            \/ state[t] = "WAITSUS" /\ state'[t] \in {"SUSPEND", "WAIT"}
        BY <1>g, <3>3
      <4>2. /\ task_alive(ctxtsk)
            /\ ~dispatch_enabled => state[ctxtsk] \in {"READY", "SUSPEND"}
        BY <1>i, <2>3
      <4> QED BY <2>1, <3>3, <4>1, <4>2 DEF RunInv, RunningTaskAlive, NoWaitWithoutDispatch
    <3> QED BY <3>2, <3>3
  <2> QED BY <2>2, <2>3
<1>d. state[t] \in {"DORMANT", "NONEXIST"} => t # ctxtsk
  <2>1. t # NoTask
    BY ReadyQueueAssumption
  <2> QED BY <1>i, <2>1
<1>r. ASSUME wait_release(t), waiting(t), UNCHANGED cpuvars PROVE RunInv'
  <2>1. state' = [state EXCEPT ![t] = IF state[t] = "WAIT" THEN "READY" ELSE "SUSPEND"]
    BY <1>r DEF wait_release, make_non_wait, make_ready, set_state
  <2> QED BY <1>t, <1>g, <1>r, <2>1
<1>s. ASSUME resume(t), state[t] \in TS_SUSPEND, UNCHANGED cpuvars PROVE RunInv'
  <2>1. state' = [state EXCEPT ![t] = IF state[t] = "SUSPEND" THEN "READY" ELSE "WAIT"]
    BY <1>s DEF resume, make_ready, set_state
  <2> QED BY <1>t, <1>g, <1>s, <2>1
<1>1. CASE del_tsk(t)
  BY <1>t, <1>d, <1>g, <1>1 DEF del_tsk, set_state
<1>2. CASE sta_tsk(t)
  BY <1>t, <1>d, <1>g, <1>2 DEF sta_tsk, make_ready
<1>3. CASE ter_tsk(t)
  <2>1. t # ctxtsk /\ UNCHANGED cpuvars
    BY <1>3 DEF ter_tsk, nonself, in_task
  <2>2. state' = [state EXCEPT ![t] = "DORMANT"]
    BY <1>3 DEF ter_tsk, _ter_tsk, make_non_ready, set_state
  <2> QED BY <1>t, <1>g, <2>1, <2>2
<1>4. CASE rel_wai(t)
  BY <1>r, <1>4 DEF rel_wai
<1>5. CASE sus_tsk(t)
  <2>1. CASE state[t] = "READY"
    BY <1>t, <1>g, <1>5, <2>1 DEF sus_tsk, make_non_ready
  <2>2. CASE state[t] = "WAIT"
    BY <1>t, <1>g, <1>5, <2>2 DEF sus_tsk, set_state
  <2>3. CASE state[t] \notin {"READY", "WAIT"}
    BY <1>t, <1>g, <1>5, <2>3 DEF sus_tsk
  <2> QED BY <2>1, <2>2, <2>3
<1>6. CASE rsm_tsk(t)
  BY <1>s, <1>g, <1>6 DEF rsm_tsk
<1>7. CASE frsm_tsk(t)
  BY <1>s, <1>7 DEF frsm_tsk
<1>8. CASE wup_tsk(t)
  BY <1>r, <1>g, <1>8 DEF wup_tsk
<1>9. CASE can_wup(t)
  BY <1>g, <1>9 DEF can_wup
<1>10. CASE timer_handler(t)
  BY <1>r, <1>10 DEF timer_handler, IInv, WaitInv, TimeoutOnlyWhileWaiting
<1>11. CASE cre_tsk(t, pri)
  BY <1>t, <1>d, <1>g, <1>11 DEF cre_tsk, set_state
<1>12. CASE chg_pri(t, pri)
  BY <1>g, <1>12 DEF chg_pri
<1> QED
  BY <1>1, <1>2, <1>3, <1>4, <1>5, <1>6, <1>7, <1>8, <1>9, <1>10, <1>11, <1>12
  DEF CallOn

(* Likewise for the calls about the running task: one that gives up the    *)
(* processor hands it to schedtsk, one that waits has dispatching enabled. *)
LEMMA SelfCallRun ==
  ASSUME IInv, SelfCall, StateType', SchedInv'
  PROVE  RunInv'
<1>t. state \in [Task -> TSTAT] /\ ctxtsk \in Task \cup {NoTask}
  BY DEF IInv, TypeOK
<1>i. /\ ctxtsk # NoTask => task_alive(ctxtsk)
      /\ ctxtsk # NoTask /\ ~dispatch_enabled => state[ctxtsk] \in {"READY", "SUSPEND"}
  BY DEF IInv, RunInv, RunningTaskAlive, NoWaitWithoutDispatch
<1> USE DEF RunInv, RunningTaskAlive, NoWaitWithoutDispatch
<1>e. ASSUME UNCHANGED <<state, cpuvars>> PROVE RunInv'
  BY <1>i, <1>e DEF cpuvars, dispatch_enabled, task_alive
<1>x. ASSUME force_dispatch PROVE RunInv'
  <2>1. schedtsk' # NoTask => state'[schedtsk'] = "READY"
    BY SchedtskReadyNext
  <2>2. ctxtsk' = schedtsk' /\ dispatch_enabled'
    BY <1>x DEF force_dispatch, dispatch_enabled
  <2> QED BY <2>1, <2>2 DEF task_alive
<1>m. ASSUME in_task, ~in_ddsp, NEW w, NEW timed, make_wait(w, timed), UNCHANGED cpuvars
      PROVE  RunInv'
  <2>1. ctxtsk \in Task /\ ctxtsk' = ctxtsk /\ dispatch_enabled'
    BY <1>m, <1>t DEF in_task, in_ddsp, in_loc, dispatch_enabled, cpuvars, IInv, TypeOK
  <2>2. state'[ctxtsk] \in TS_WAIT
    BY <1>m, <1>t, <2>1 DEF make_wait, make_non_ready, set_state, TS_WAIT
  <2> QED BY <2>1, <2>2 DEF task_alive
<1>1. CASE ext_tsk
  BY <1>x, <1>1 DEF ext_tsk
<1>2. CASE exd_tsk
  BY <1>x, <1>2 DEF exd_tsk
<1>3. CASE dly_tsk
  BY <1>m, <1>3 DEF dly_tsk
<1>4. CASE rot_rdq_run
  BY <1>e, <1>4 DEF rot_rdq_run
<1>5. ASSUME NEW timed \in BOOLEAN, tslp_tsk(timed) PROVE RunInv'
  <2>1. CASE wupcnt[ctxtsk] > 0
    BY <1>e, <1>5, <2>1 DEF tslp_tsk
  <2>2. CASE ~(wupcnt[ctxtsk] > 0)
    BY <1>m, <1>5, <2>2 DEF tslp_tsk
  <2> QED BY <2>1, <2>2
<1>6. ASSUME NEW pri \in Priority, rot_rdq(pri) PROVE RunInv'
  BY <1>e, <1>6 DEF rot_rdq
<1> QED BY <1>1, <1>2, <1>3, <1>4, <1>5, <1>6 DEF SelfCall

(* The steps that only touch the processor: schedtsk, which gets it, is    *)
(* READY, and a task that disables dispatching is READY too.               *)
LEMMA CpuStepInv ==
  ASSUME IInv, CpuStep
  PROVE  IInv'
<1>1. UNCHANGED taskvars
  BY CpuStepTasks
<1>2. /\ ctxtsk \in Task \cup {NoTask} /\ schedtsk \in Task \cup {NoTask}
      /\ dispatch_disabled \in BOOLEAN /\ ipm \in 0 .. IPM_MAX /\ in_indp \in BOOLEAN
      /\ IPM_MAX \in Nat \ {0}
  BY TaskCoreAssumption DEF IInv, TypeOK
<1>3. schedtsk # NoTask => state[schedtsk] = "READY"
  BY SchedtskReady DEF IInv, TypeOK, StateType
<1>4. TypeOK'
  <2> USE DEF CpuStep, dis_dsp, ena_dsp, loc_cpu, unl_cpu, chg_ipm, dispatch, interrupt, ret_int
  <2>1. ctxtsk' \in Task \cup {NoTask}
    BY <1>2
  <2>2. dispatch_disabled' \in BOOLEAN /\ in_indp' \in BOOLEAN
    BY <1>2
  <2>3. ipm' \in 0 .. IPM_MAX
    <3>1. 0 \in 0 .. IPM_MAX /\ IPM_MAX \in 0 .. IPM_MAX
      BY <1>2
    <3> QED BY <1>2, <3>1
  <2> QED BY <1>1, <2>1, <2>2, <2>3
          DEF IInv, TypeOK, taskvars, countvars, privars, waitvars, schedvars
<1>5. SchedInv' /\ WaitInv' /\ CountInv'
  <2>1. UNCHANGED <<state, priority, ready_queue, schedtsk, wspec, wait_queue, timer_queue,
                    wupcnt, suscnt>>
    BY <1>1 DEF taskvars, countvars, privars, waitvars, schedvars
  <2>2. SchedInv'
    BY <2>1, SchedUnchanged DEF IInv, schedvars
  <2>3. WaitInv' /\ CountInv'
    BY <2>1 DEF IInv, WaitInv, WaitQueues, TimeoutOnlyWhileWaiting, CountInv, SuspendCount,
                StartsFresh, NoLostWakeup, waiting, task_alive
  <2> QED BY <2>2, <2>3
<1>6. RunInv'
  <2>1. state' = state
    BY <1>1 DEF taskvars
  <2>2. ASSUME in_task, ctxtsk' = ctxtsk PROVE RunInv'
    BY <2>1, <2>2, CallerTask
    DEF RunInv, RunningTaskAlive, NoWaitWithoutDispatch, task_alive, TS_SUSPEND
  <2>3. ASSUME ctxtsk' = schedtsk PROVE RunInv'
    BY <1>3, <2>1, <2>3 DEF RunInv, RunningTaskAlive, NoWaitWithoutDispatch, task_alive
  <2>4. ASSUME ctxtsk' = ctxtsk, UNCHANGED <<dispatch_disabled, ipm>> PROVE RunInv'
    BY <2>1, <2>4
    DEF IInv, RunInv, RunningTaskAlive, NoWaitWithoutDispatch, task_alive, dispatch_enabled
  <2>5. CASE dis_dsp \/ ena_dsp \/ loc_cpu \/ unl_cpu \/ \E level \in 0 .. IPM_MAX : chg_ipm(level)
    BY <2>2, <2>5 DEF dis_dsp, ena_dsp, loc_cpu, unl_cpu, chg_ipm
  <2>6. CASE dispatch
    BY <2>3, <2>6 DEF dispatch
  <2>7. CASE interrupt
    BY <2>4, <2>7 DEF interrupt
  <2>8. CASE ret_int
    BY <2>3, <2>4, <2>8 DEF ret_int
  <2> QED BY <2>5, <2>6, <2>7, <2>8 DEF CpuStep
<1> QED BY <1>4, <1>5, <1>6 DEF IInv

-----------------------------------------------------------------------------
(* The state that main() leaves satisfies the invariant: the ready queue   *)
(* holds the initial task alone, and no object has a waiting task.         *)
LEMMA InitInv ==
  ASSUME Init
  PROVE  IInv
<1>a. /\ TSK_INIT \in Task /\ TSK_INIT_PRI \in Priority /\ INT_MAX \in Nat /\ 0 \in Priority
      /\ "none" \notin Gcb /\ IPM_MAX \in Nat /\ TSK_INIT # NoTask
  BY TaskManagementAssumption, TaskCoreAssumption, ReadyQueueAssumption DEF Priority
<1>1. /\ state = [t \in Task |-> IF t = TSK_INIT THEN "READY" ELSE "NONEXIST"]
      /\ priority = [t \in Task |-> IF t = TSK_INIT THEN TSK_INIT_PRI ELSE 0]
      /\ ipriority = priority
      /\ wupcnt = [t \in Task |-> 0] /\ suscnt = [t \in Task |-> 0]
      /\ wspec = [t \in Task |-> "none"] /\ wait_queue = [g \in Gcb |-> << >>]
      /\ timer_queue = {}
      /\ ready_queue = ready_queue_insert(ready_queue_initialize, TSK_INIT, TSK_INIT_PRI)
      /\ schedtsk = TSK_INIT /\ ctxtsk = TSK_INIT
      /\ dispatch_disabled = FALSE /\ ipm = 0 /\ in_indp = FALSE
  BY DEF Init
<1>2. StateType
  BY <1>a, <1>1 DEF StateType, TSTAT
<1>3. SchedInv
  <2> DEFINE none == ready_queue_initialize
  <2>1. ReadyTasks = {TSK_INIT} /\ priority[TSK_INIT] = TSK_INIT_PRI
    BY <1>a, <1>1 DEF ReadyTasks
  <2>2. priority \in PriorityMap /\ TSK_INIT \in Task \ {}
    BY <1>a, <1>2 DEF StateType, PriorityMap
  <2>3. Consistent(none, {}, priority)
    BY ReadyQueueInitialize
  <2>4. none.top_priority = NUM_PRI /\ TSK_INIT_PRI < NUM_PRI
    BY <1>a, ReadyQueueAssumption DEF ready_queue_initialize, Priority
  <2> HIDE DEF none
  <2>5. /\ Consistent(ready_queue, {} \cup {TSK_INIT}, priority)
        /\ ready_queue_top(ready_queue) =
             IF priority[TSK_INIT] < none.top_priority THEN TSK_INIT ELSE ready_queue_top(none)
    <3>1. ready_queue = ready_queue_insert(none, TSK_INIT, priority[TSK_INIT])
      BY <1>1, <2>1 DEF none
    <3> QED BY <2>2, <2>3, <3>1, ReadyQueueInsert
  <2>6. Consistent(ready_queue, {TSK_INIT}, priority)
    <3>1. {} \cup {TSK_INIT} = {TSK_INIT}
      OBVIOUS
    <3> QED BY <2>5, <3>1
  <2>7. ready_queue_top(ready_queue) = schedtsk
    BY <1>1, <2>1, <2>4, <2>5
  <2> QED BY <2>1, <2>6, <2>7 DEF SchedInv, SchedtskIsTop
<1>4. WaitQueues
  <2>1. \A g \in Gcb : wait_queue[g] = << >> /\ {t \in Task : wspec[t] = g} = {}
    BY <1>a, <1>1
  <2>2. IsInjective(<< >>) /\ ToSet(<< >>) = {} /\ << >> \in Seq(Task)
    BY DEF IsInjective, ToSet
  <2>3. wait_queue \in [Gcb -> Seq(Task)]
    BY <1>1, <2>2
  <2> QED BY <2>1, <2>2, <2>3 DEF WaitQueues
<1>5. TypeOK
  <2>1. wait_queue \in [Gcb -> Seq(Task)] /\ ready_queue \in RDYQUE
    BY <1>3, <1>4 DEF WaitQueues, SchedInv, Consistent
  <2>2. wupcnt \in [Task -> 0 .. INT_MAX] /\ suscnt \in [Task -> 0 .. INT_MAX]
    BY <1>a, <1>1
  <2>3. wspec \in [Task -> Gcb \cup {"none", "slp", "dly", "tmb", "rdv"}]
    BY <1>1
  <2>4. ipm \in 0 .. IPM_MAX
    BY <1>a, <1>1
  <2> QED BY <1>a, <1>1, <1>2, <2>1, <2>2, <2>3, <2>4 DEF TypeOK, StateType
<1>6. WaitInv
  BY <1>1, <1>4 DEF WaitInv, TimeoutOnlyWhileWaiting, waiting, TS_WAIT
<1>7. CountInv
  BY <1>1 DEF CountInv, SuspendCount, StartsFresh, NoLostWakeup, task_alive, waiting,
              TS_WAIT, TS_SUSPEND
<1>8. RunInv
  BY <1>a, <1>1 DEF RunInv, RunningTaskAlive, NoWaitWithoutDispatch, task_alive
<1> QED BY <1>3, <1>5, <1>6, <1>7, <1>8 DEF IInv

(* Every step preserves it.                                                *)
LEMMA StepInv ==
  ASSUME IInv, [Next]_vars
  PROVE  IInv'
<1>1. CASE TaskCall
  <2>1. PICK t \in Task, pri \in Priority : CallOn(t, pri)
    BY <1>1, TaskManagementAssumption DEF TaskCall, CallOn
  <2>2. StateType'
    BY <2>1, TaskCallStateType DEF IInv
  <2>3. SchedInv' /\ WaitInv' /\ CountInv' /\ RunInv'
    BY <2>1, <2>2, TaskCallSched, TaskCallWait, TaskCallCount, TaskCallRun
  <2>4. /\ ipriority' \in [Task -> Priority]
        /\ wupcnt' \in [Task -> 0 .. INT_MAX]
        /\ suscnt' \in [Task -> 0 .. INT_MAX]
        /\ wspec' \in [Task -> Gcb \cup {"none", "slp", "dly", "tmb", "rdv"}]
        /\ timer_queue' \in SUBSET Task
        /\ UNCHANGED cpuvars
    BY <2>1, TaskCallTypes
  <2>5. schedtsk' \in Task \cup {NoTask} /\ ready_queue' \in RDYQUE
    BY <2>2, <2>3, SchedtskReadyNext
  <2>6. wait_queue' \in [Gcb -> Seq(Task)]
    BY <2>3 DEF WaitInv, WaitQueues
  <2>7. TypeOK'
    BY <2>2, <2>4, <2>5, <2>6 DEF IInv, TypeOK, StateType, cpuvars
  <2> QED BY <2>3, <2>7 DEF IInv
<1>2. CASE SelfCall
  <2>1. StateType'
    BY <1>2, SelfCallStateType
  <2>2. SchedInv'
    BY <1>2, <2>1, SelfCallSched
  <2>3. WaitInv' /\ CountInv' /\ RunInv'
    BY <1>2, <2>1, <2>2, SelfCallWait, SelfCallCount, SelfCallRun
  <2>4. schedtsk' \in Task \cup {NoTask} /\ ready_queue' \in RDYQUE
    BY <2>1, <2>2, SchedtskReadyNext
  <2>5. wait_queue' \in [Gcb -> Seq(Task)]
    BY <2>3 DEF WaitInv, WaitQueues
  <2>6. TypeOK'
    BY <1>2, <2>1, <2>2, <2>4, <2>5, SelfCallTypes DEF TypeOK, StateType
  <2> QED BY <2>2, <2>3, <2>6 DEF IInv
<1>3. CASE CpuStep
  BY <1>3, CpuStepInv
<1>4. CASE UNCHANGED vars
  <2>1. UNCHANGED <<state, priority, ipriority, wupcnt, suscnt, wspec, wait_queue, timer_queue,
                    ready_queue, schedtsk, ctxtsk, dispatch_disabled, ipm, in_indp>>
    BY <1>4 DEF vars, taskvars, countvars, privars, waitvars, schedvars, cpuvars
  <2>2. SchedInv'
    BY <2>1, SchedUnchanged DEF IInv, schedvars
  <2> QED BY <2>1, <2>2
          DEF IInv, TypeOK, WaitInv, WaitQueues, TimeoutOnlyWhileWaiting, CountInv, SuspendCount,
              StartsFresh, NoLostWakeup, waiting, task_alive, RunInv, RunningTaskAlive,
              NoWaitWithoutDispatch, dispatch_enabled
<1> QED BY <1>1, <1>2, <1>3, <1>4 DEF Next

-----------------------------------------------------------------------------
(* The inductive invariant holds in every reachable state of the task      *)
(* management calls, whatever calls tasks and handlers make.               *)
THEOREM Invariance == Spec => []IInv
<1>1. Init => IInv
  BY InitInv
<1>2. IInv /\ [Next]_vars => IInv'
  BY StepInv
<1> QED BY <1>1, <1>2, PTL DEF Spec

(* Every variable keeps its type: no count leaves 0 .. INT_MAX, and the    *)
(* queues hold nothing but tasks.                                          *)
THEOREM TypeCorrect == Spec => []TypeOK
<1>1. IInv => TypeOK
  BY DEF IInv
<1> QED BY <1>1, Invariance, PTL

(* The ready queue of each priority holds exactly the READY tasks of that  *)
(* priority, each once.                                                    *)
THEOREM ReadyQueueIsExact == Spec => []ReadyQueueExact
<1>1. IInv => ReadyQueueExact
  BY DEF IInv, SchedInv, Consistent, ReadyQueueExact
<1> QED BY <1>1, Invariance, PTL

(* The bitmap and top_priority agree with the queues, for every number of  *)
(* priorities and every word size of the bitmap.                           *)
THEOREM BitmapIsExact == Spec => []ReadyQueueIndexed
<1>1. IInv => ReadyQueueIndexed
  BY DEF IInv, SchedInv, Consistent, ReadyQueueIndexed
<1> QED BY <1>1, Invariance, PTL

(* schedtsk is the head of the ready queue.                                *)
THEOREM SchedtskIsRight == Spec => []SchedtskIsTop
<1>1. IInv => SchedtskIsTop
  BY DEF IInv, SchedInv
<1> QED BY <1>1, Invariance, PTL

(* A task that is alive is suspended exactly while its suspend requests    *)
(* are not all undone.                                                     *)
THEOREM SuspendNesting == Spec => []SuspendCount
<1>1. IInv => SuspendCount
  BY DEF IInv, CountInv
<1> QED BY <1>1, Invariance, PTL

(* A task that can be started has no request left from an earlier life.    *)
THEOREM FreshStart == Spec => []StartsFresh
<1>1. IInv => StartsFresh
  BY DEF IInv, CountInv
<1> QED BY <1>1, Invariance, PTL

(* No task sleeps while it has a wake-up request.                          *)
THEOREM WakeupNotLost == Spec => []NoLostWakeup
<1>1. IInv => NoLostWakeup
  BY DEF IInv, CountInv
<1> QED BY <1>1, Invariance, PTL

(* Every time event in the timer queue is that of a waiting task.          *)
THEOREM TimeoutMeetsWaiter == Spec => []TimeoutOnlyWhileWaiting
<1>1. IInv => TimeoutOnlyWhileWaiting
  BY DEF IInv, WaitInv
<1> QED BY <1>1, Invariance, PTL

(* No call and no handler ends the task that has the processor.            *)
THEOREM RunningTaskStaysAlive == Spec => []RunningTaskAlive
<1>1. IInv => RunningTaskAlive
  BY DEF IInv, RunInv
<1> QED BY <1>1, Invariance, PTL

(* The running task does not wait while it holds dispatching off.          *)
THEOREM DispatchBeforeWait == Spec => []NoWaitWithoutDispatch
<1>1. IInv => NoWaitWithoutDispatch
  BY DEF IInv, RunInv
<1> QED BY <1>1, Invariance, PTL

(* Until the dispatcher runs, neither a handler nor another call takes the *)
(* processor from a task that does not end itself.                         *)
THEOREM DispatchIsDelayed == Spec => DelayedDispatch
<1> DEFINE A == ctxtsk' # ctxtsk /\ ctxtsk # NoTask =>
                  \/ dispatch_enabled /\ (in_indp => ~in_indp')
                  \/ ~in_indp /\ state'[ctxtsk] \in {"DORMANT", "NONEXIST"}
<1>1. ASSUME IInv, [Next]_vars PROVE A
  <2>1. CASE TaskCall
    <3>1. UNCHANGED cpuvars
      BY <1>1, <2>1, TaskCallTypes, TaskManagementAssumption DEF TaskCall, CallOn
    <3> QED BY <3>1 DEF cpuvars
  <2>2. CASE SelfCall
    <3>1. ASSUME in_task, NEW s \in {"DORMANT", "NONEXIST"}, _ter_tsk(ctxtsk, s)
          PROVE  ~in_indp /\ state'[ctxtsk] = s
      <4>1. ctxtsk \in Task /\ state \in [Task -> TSTAT]
        BY <1>1, <3>1, CallerTask DEF IInv, TypeOK
      <4> QED BY <3>1, <4>1 DEF _ter_tsk, make_non_ready, set_state, in_task
    <3>2. CASE ext_tsk
      BY <3>1, <3>2 DEF ext_tsk
    <3>3. CASE exd_tsk
      BY <3>1, <3>3 DEF exd_tsk
    <3>4. CASE ~(ext_tsk \/ exd_tsk)
      BY <2>2, <3>4 DEF SelfCall, dly_tsk, rot_rdq_run, tslp_tsk, rot_rdq, cpuvars
    <3> QED BY <3>2, <3>3, <3>4
  <2>3. CASE CpuStep
    BY <2>3
    DEF CpuStep, dis_dsp, ena_dsp, loc_cpu, unl_cpu, chg_ipm, dispatch, interrupt, ret_int
  <2>4. CASE UNCHANGED vars
    BY <2>4 DEF vars, cpuvars
  <2> QED BY <1>1, <2>1, <2>2, <2>3, <2>4 DEF Next
<1>2. IInv /\ [Next]_vars => [A]_vars
  BY <1>1
<1> QED BY <1>2, Invariance, PTL DEF Spec, DelayedDispatch

-----------------------------------------------------------------------------
(***************************************************************************)
(* The wait queues of the synchronisation objects.                         *)
(***************************************************************************)
(* f tells where a walk of N steps has come to: each step is a function of *)
(* where the one before it left off.                                       *)
Walks(f, N, start, step) ==
  f[0] = start /\ \A n \in 1 .. N : f[n] = step[n][f[n - 1]]

(* Such a walk can be defined by recursion on the number of steps.         *)
LEMMA Walk ==
  ASSUME NEW N \in Nat, NEW S, NEW start \in S, NEW step \in [1 .. N -> [S -> S]]
  PROVE  \E f \in [0 .. N -> S] : Walks(f, N, start, step)
<1> DEFINE Upto(m, f) == /\ f \in [0 .. m -> S]
                         /\ f[0] = start
                         /\ \A n \in 1 .. m : f[n] = step[n][f[n - 1]]
           Bad == {m \in 0 .. N : ~ \E f : Upto(m, f)}
<1>1. \E f : Upto(0, f)
  <2> DEFINE f0 == [n \in 0 .. 0 |-> start]
  <2>1. Upto(0, f0)
    OBVIOUS
  <2> QED BY <2>1
<1>2. ASSUME NEW m \in 1 .. N, NEW f, Upto(m - 1, f)
      PROVE  \E g : Upto(m, g)
  <2> DEFINE g == [n \in 0 .. m |-> IF n = m THEN step[m][f[m - 1]] ELSE f[n]]
  <2>1. step[m] \in [S -> S] /\ f[m - 1] \in S
    BY <1>2
  <2>2. g \in [0 .. m -> S]
    BY <1>2, <2>1
  <2>3. g[0] = start
    BY <1>2
  <2>4. ASSUME NEW n \in 1 .. m PROVE g[n] = step[n][g[n - 1]]
    <3>1. n - 1 \in 0 .. m - 1 /\ g[n - 1] = f[n - 1]
      OBVIOUS
    <3>2. CASE n = m
      BY <3>1, <3>2
    <3>3. CASE n # m
      <4>1. n \in 1 .. m - 1 /\ g[n] = f[n]
        BY <3>3
      <4> QED BY <1>2, <3>1, <4>1
    <3> QED BY <3>2, <3>3
  <2> QED BY <2>2, <2>3, <2>4
<1>3. Bad = {}
  <2> SUFFICES ASSUME Bad # {} PROVE FALSE
    OBVIOUS
  <2>0. Bad \in SUBSET Nat
    OBVIOUS
  <2>a. \A m \in 0 .. N : m \in Bad <=> ~ \E f : Upto(m, f)
    OBVIOUS
  <2> HIDE DEF Bad, Upto
  <2>1. PICK m \in Bad : \A n \in Bad : m <= n
    BY <2>0, MinOfNaturals
  <2>2. m \in 1 .. N
    <3>1. m \in 0 .. N
      BY <2>1 DEF Bad
    <3>2. m # 0
      BY <1>1, <2>a, <2>1, <3>1
    <3> QED BY <3>1, <3>2
  <2>3. m - 1 \in 0 .. N /\ m - 1 \notin Bad
    BY <2>1, <2>2
  <2>4. PICK f : Upto(m - 1, f)
    BY <2>a, <2>3
  <2>5. \E g : Upto(m, g)
    BY <1>2, <2>2, <2>4
  <2> QED BY <2>a, <2>1, <2>2, <2>5
<1>4. PICK f : Upto(N, f)
  <2>1. N \in 0 .. N
    OBVIOUS
  <2>2. N \notin Bad
    BY <1>3, Zenon
  <2> QED BY <2>1, <2>2
<1> QED BY <1>4 DEF Walks

-----------------------------------------------------------------------------
(***************************************************************************)
(* The order of the entries of a queue.                                    *)
(***************************************************************************)
(* The entries that are left by queue_delete keep their order.             *)
LEMMA DeleteKeepsOrder ==
  ASSUME NEW S, NEW q \in Queue(S), NEW x \in ToSet(q), NEW t, NEW u
  PROVE  before(queue_delete(q, x), t, u) <=> before(q, t, u) /\ t # x /\ u # x
<1>q. /\ q \in Seq(S) /\ Len(q) \in Nat /\ ToSet(q) = {q[j] : j \in 1 .. Len(q)}
      /\ \A j, k \in 1 .. Len(q) : q[j] = q[k] => j = k
  BY QueueEntries
<1>1. PICK i \in 1 .. Len(q) : q[i] = x /\ queue_delete(q, x) = RemoveAt(q, i)
  BY QueueDeleteAt
<1> DEFINE r == RemoveAt(q, i)
<1>2. /\ r \in Seq(S) /\ Len(r) = Len(q) - 1 /\ DOMAIN r = 1 .. Len(q) - 1
      /\ \A j \in 1 .. Len(q) - 1 : r[j] = IF j < i THEN q[j] ELSE q[j + 1]
  <2>1. /\ r \in Seq(S) /\ Len(r) = Len(q) - 1
        /\ \A j \in 1 .. Len(q) - 1 : r[j] = IF j < i THEN q[j] ELSE q[j + 1]
    BY RemoveAtEntries, <1>q
  <2> QED BY <2>1
<1> HIDE DEF r
<1>3. ASSUME before(r, t, u) PROVE before(q, t, u) /\ t # x /\ u # x
  <2>1. PICK j \in 1 .. Len(q) - 1, k \in 1 .. Len(q) - 1 : j < k /\ r[j] = t /\ r[k] = u
    BY <1>2, <1>3 DEF before
  <2> DEFINE at(n) == IF n < i THEN n ELSE n + 1
  <2>2. /\ at(j) \in 1 .. Len(q) /\ at(k) \in 1 .. Len(q) /\ at(j) < at(k)
        /\ at(j) # i /\ at(k) # i
    BY <1>q, <2>1
  <2>3. q[at(j)] = t /\ q[at(k)] = u
    BY <1>2, <2>1
  <2> QED BY <1>q, <1>1, <2>2, <2>3 DEF before
<1>4. ASSUME before(q, t, u), t # x, u # x PROVE before(r, t, u)
  <2>1. PICK j \in 1 .. Len(q), k \in 1 .. Len(q) : j < k /\ q[j] = t /\ q[k] = u
    BY <1>q, <1>4 DEF before
  <2> DEFINE at(n) == IF n < i THEN n ELSE n - 1
  <2>2. j # i /\ k # i
    BY <1>1, <1>4, <2>1
  <2>3. at(j) \in 1 .. Len(q) - 1 /\ at(k) \in 1 .. Len(q) - 1 /\ at(j) < at(k)
    BY <1>q, <2>1, <2>2
  <2>4. ASSUME NEW n \in 1 .. Len(q), n # i, at(n) \in 1 .. Len(q) - 1
        PROVE  r[at(n)] = q[n]
    <3>1. CASE n < i
      BY <1>2, <2>4, <3>1
    <3>2. CASE ~(n < i)
      <4>1. at(n) = n - 1 /\ ~(n - 1 < i) /\ n - 1 + 1 = n
        BY <2>4, <3>2
      <4> QED BY <1>2, <2>4, <4>1
    <3> QED BY <3>1, <3>2
  <2>5. r[at(j)] = t /\ r[at(k)] = u
    BY <2>1, <2>2, <2>3, <2>4
  <2> QED BY <1>2, <2>3, <2>4, <2>5 DEF before
<1> QED BY <1>1, <1>3, <1>4 DEF r

(* An insertion keeps the order of the entries that were there.            *)
LEMMA InsertKeepsOrder ==
  ASSUME NEW S, NEW q \in Queue(S), NEW x \in S \ ToSet(q), NEW i \in 1 .. Len(q) + 1,
         NEW t, NEW u
  PROVE  before(queue_insert(q, i, x), t, u) <=>
           \/ before(q, t, u)
           \/ u = x /\ \E j \in 1 .. i - 1 : q[j] = t
           \/ t = x /\ \E j \in i .. Len(q) : q[j] = u
<1>q. /\ q \in Seq(S) /\ Len(q) \in Nat /\ ToSet(q) = {q[j] : j \in 1 .. Len(q)}
      /\ \A j, k \in 1 .. Len(q) : q[j] = q[k] => j = k
  BY QueueEntries
<1> DEFINE r == InsertAt(q, i, x)
<1>1. /\ r \in Seq(S) /\ Len(r) = Len(q) + 1 /\ DOMAIN r = 1 .. Len(q) + 1
      /\ \A j \in 1 .. Len(q) + 1 :
           r[j] = IF j < i THEN q[j] ELSE IF j = i THEN x ELSE q[j - 1]
  <2>1. x \in S
    OBVIOUS
  <2>2. /\ r \in Seq(S) /\ Len(r) = Len(q) + 1
        /\ \A j \in 1 .. Len(q) + 1 :
             r[j] = IF j < i THEN q[j] ELSE IF j = i THEN x ELSE q[j - 1]
    BY <2>1, <1>q, InsertAtEntries
  <2> HIDE DEF r
  <2> QED BY <2>2, <1>q
<1> HIDE DEF r
<1>2. ASSUME before(r, t, u)
      PROVE  \/ before(q, t, u)
             \/ u = x /\ \E j \in 1 .. i - 1 : q[j] = t
             \/ t = x /\ \E j \in i .. Len(q) : q[j] = u
  <2>1. PICK j \in 1 .. Len(q) + 1, k \in 1 .. Len(q) + 1 : j < k /\ r[j] = t /\ r[k] = u
    BY <1>1, <1>2 DEF before
  <2>2. CASE j = i
    <3>1. t = x /\ k - 1 \in i .. Len(q) /\ q[k - 1] = u
      BY <1>q, <1>1, <2>1, <2>2
    <3> QED BY <3>1
  <2>3. CASE k = i
    <3>1. u = x /\ j \in 1 .. i - 1 /\ q[j] = t
      BY <1>q, <1>1, <2>1, <2>3
    <3> QED BY <3>1
  <2>4. CASE j # i /\ k # i
    <3> DEFINE at(n) == IF n < i THEN n ELSE n - 1
    <3>1. at(j) \in 1 .. Len(q) /\ at(k) \in 1 .. Len(q) /\ at(j) < at(k)
      BY <1>q, <2>1, <2>4
    <3>2. q[at(j)] = t /\ q[at(k)] = u
      BY <1>q, <1>1, <2>1, <2>4
    <3> QED BY <1>q, <3>1, <3>2 DEF before
  <2> QED BY <2>2, <2>3, <2>4
<1>3. ASSUME before(q, t, u) PROVE before(r, t, u)
  <2>1. PICK j \in 1 .. Len(q), k \in 1 .. Len(q) : j < k /\ q[j] = t /\ q[k] = u
    BY <1>q, <1>3 DEF before
  <2> DEFINE at(n) == IF n < i THEN n ELSE n + 1
  <2>2. at(j) \in 1 .. Len(q) + 1 /\ at(k) \in 1 .. Len(q) + 1 /\ at(j) < at(k)
    BY <1>q, <2>1
  <2>3. r[at(j)] = t
    BY <1>q, <1>1, <2>1, <2>2
  <2>4. r[at(k)] = u
    BY <1>q, <1>1, <2>1, <2>2
  <2> QED BY <1>1, <2>2, <2>3, <2>4 DEF before
<1>4. ASSUME u = x, NEW j \in 1 .. i - 1, q[j] = t PROVE before(r, t, u)
  <2>1. j \in 1 .. Len(q) + 1 /\ i \in 1 .. Len(q) + 1 /\ j < i /\ r[j] = t /\ r[i] = u
    BY <1>q, <1>1, <1>4
  <2> QED BY <1>1, <2>1 DEF before
<1>5. ASSUME t = x, NEW j \in i .. Len(q), q[j] = u PROVE before(r, t, u)
  <2>1. /\ j + 1 \in 1 .. Len(q) + 1 /\ i \in 1 .. Len(q) + 1 /\ i < j + 1
        /\ r[i] = t /\ r[j + 1] = u
    BY <1>q, <1>1, <1>5
  <2> QED BY <1>1, <2>1 DEF before
<1> QED BY <1>2, <1>3, <1>4, <1>5 DEF r, queue_insert

(* A new entry at the end comes after all others.                          *)
LEMMA AppendKeepsOrder ==
  ASSUME NEW S, NEW q \in Seq(S), NEW x \in S, NEW t, NEW u
  PROVE  before(Append(q, x), t, u) <=> before(q, t, u) \/ (u = x /\ t \in ToSet(q))
<1>q. Len(q) \in Nat /\ ToSet(q) = {q[j] : j \in 1 .. Len(q)} /\ DOMAIN q = 1 .. Len(q)
  BY DEF ToSet
<1> DEFINE r == Append(q, x)
<1>1. /\ Len(r) = Len(q) + 1 /\ DOMAIN r = 1 .. Len(q) + 1
      /\ \A j \in 1 .. Len(q) + 1 : r[j] = IF j <= Len(q) THEN q[j] ELSE x
  OBVIOUS
<1> HIDE DEF r
<1>2. ASSUME before(r, t, u) PROVE before(q, t, u) \/ (u = x /\ t \in ToSet(q))
  <2>1. PICK j \in 1 .. Len(q) + 1, k \in 1 .. Len(q) + 1 : j < k /\ r[j] = t /\ r[k] = u
    BY <1>1, <1>2 DEF before
  <2>2. j \in 1 .. Len(q) /\ q[j] = t
    BY <1>q, <1>1, <2>1
  <2>3. CASE k <= Len(q)
    BY <1>q, <1>1, <2>1, <2>2, <2>3 DEF before
  <2>4. CASE ~(k <= Len(q))
    BY <1>q, <1>1, <2>1, <2>2, <2>4
  <2> QED BY <2>3, <2>4
<1>3. ASSUME before(q, t, u) PROVE before(r, t, u)
  BY <1>q, <1>1, <1>3 DEF before
<1>4. ASSUME u = x, NEW j \in 1 .. Len(q), q[j] = t PROVE before(r, t, u)
  <2>1. j \in DOMAIN r /\ Len(q) + 1 \in DOMAIN r /\ j < Len(q) + 1 /\ r[j] = t /\ r[Len(q) + 1] = u
    BY <1>q, <1>1, <1>4
  <2> QED BY <2>1 DEF before
<1> QED BY <1>q, <1>2, <1>3, <1>4 DEF r

(* What is before or behind something in a queue is in the queue.          *)
LEMMA BeforeIn ==
  ASSUME NEW q, NEW t, NEW u, before(q, t, u)
  PROVE  t \in ToSet(q) /\ u \in ToSet(q)
  BY DEF before, ToSet

(* queue_delete returns a sequence, whether the entry is there or not.     *)
LEMMA DeleteType ==
  ASSUME NEW S, NEW q \in Seq(S), NEW t
  PROVE  queue_delete(q, t) \in Seq(S)
<1> DEFINE at == {i \in 1 .. Len(q) : q[i] = t}
<1>1. CASE at = {}
  <2>1. ~ \E i \in 1 .. Len(q) : q[i] = t
    BY <1>1
  <2> QED BY <2>1 DEF queue_delete, RemoveFirst
<1>2. CASE at # {}
  <2>1. at \in SUBSET Nat
    OBVIOUS
  <2>2. Min(at) \in at
    BY <1>2, <2>1, MinOfNaturals
  <2>3. SelectInSeq(q, LAMBDA v : v = t) = Min(at)
    BY <1>2 DEF SelectInSeq
  <2> HIDE DEF at
  <2>4. Min(at) \in 1 .. Len(q) /\ \E i \in 1 .. Len(q) : q[i] = t
    BY <2>2 DEF at
  <2>5. queue_delete(q, t) = RemoveAt(q, Min(at))
    BY <2>3, <2>4 DEF queue_delete, RemoveFirst
  <2> QED BY <2>4, <2>5, RemoveAtEntries
<1> QED BY <1>1, <1>2

-----------------------------------------------------------------------------
(***************************************************************************)
(* Queues in the order of priorities.                                      *)
(***************************************************************************)
SortedBy(q, pri) == \A t, u : before(q, t, u) => pri[t] <= pri[u]

(* In a sorted queue queue_search_gt finds the end of the entries whose    *)
(* key is not greater.                                                     *)
LEMMA SearchSorted ==
  ASSUME NEW q \in Queue(Task), NEW pri \in PriorityMap, SortedBy(q, pri), NEW val \in Priority
  PROVE  LET i == queue_search_gt(q, pri, val) IN
         /\ i \in 1 .. Len(q) + 1
         /\ \A j \in 1 .. i - 1 : pri[q[j]] <= val
         /\ \A j \in i .. Len(q) : pri[q[j]] > val
<1> DEFINE greater == {j \in DOMAIN q : pri[q[j]] > val}
           i == queue_search_gt(q, pri, val)
<1>q. /\ q \in Seq(Task) /\ Len(q) \in Nat /\ DOMAIN q = 1 .. Len(q)
      /\ \A j \in 1 .. Len(q) : q[j] \in Task
  BY QueueEntries
<1>p. val \in Int /\ \A t \in Task : pri[t] \in Int
  BY DEF PriorityMap, Priority
<1>1. i = IF greater = {} THEN Len(q) + 1 ELSE Min(greater)
  BY DEF queue_search_gt
<1>2. i \in 1 .. Len(q) + 1
  BY <1>q, QueueSearch
<1>3. greater \in SUBSET Nat
  BY <1>q
<1>4. \A j \in DOMAIN q : j \in greater <=> pri[q[j]] > val
  OBVIOUS
<1> HIDE DEF greater, i
<1>5. ASSUME NEW j \in 1 .. i - 1 PROVE pri[q[j]] <= val
  <2>1. j \in DOMAIN q
    BY <1>q, <1>2
  <2>2. j \notin greater
    <3>1. CASE greater = {}
      BY <3>1
    <3>2. CASE greater # {}
      BY <1>1, <1>2, <1>3, <3>2, MinOfNaturals
    <3> QED BY <3>1, <3>2
  <2> QED BY <1>q, <1>p, <1>4, <2>1, <2>2
<1>6. ASSUME NEW j \in i .. Len(q) PROVE pri[q[j]] > val
  <2>1. j \in 1 .. Len(q) /\ i \in 1 .. Len(q)
    BY <1>q, <1>2
  <2>2. greater # {}
    BY <1>q, <1>1, <2>1
  <2>3. i \in greater
    BY <1>1, <1>3, <2>2, MinOfNaturals
  <2>4. pri[q[i]] > val
    BY <1>q, <1>4, <2>1, <2>3
  <2>5. CASE j = i
    BY <2>4, <2>5
  <2>6. CASE j # i
    <3>1. before(q, q[i], q[j])
      BY <1>q, <2>1, <2>6 DEF before
    <3>2. pri[q[i]] <= pri[q[j]]
      BY <3>1 DEF SortedBy
    <3> QED BY <1>q, <1>p, <2>1, <2>4, <3>2
  <2> QED BY <2>5, <2>6
<1> QED BY <1>2, <1>5, <1>6 DEF i

(* gcb_make_wait and gcb_change_priority insert in the order of priority.  *)
LEMMA InsertSorted ==
  ASSUME NEW q \in Queue(Task), NEW pri \in PriorityMap, SortedBy(q, pri),
         NEW x \in Task \ ToSet(q)
  PROVE  /\ queue_insert_tpri(q, x, pri) \in Queue(Task)
         /\ ToSet(queue_insert_tpri(q, x, pri)) = ToSet(q) \cup {x}
         /\ SortedBy(queue_insert_tpri(q, x, pri), pri)
<1> DEFINE i == queue_search_gt(q, pri, pri[x])
           r == queue_insert(q, i, x)
<1>p. pri[x] \in Priority /\ \A t \in Task : pri[t] \in Int
  BY DEF PriorityMap, Priority
<1>1. /\ i \in 1 .. Len(q) + 1
      /\ \A j \in 1 .. i - 1 : pri[q[j]] <= pri[x]
      /\ \A j \in i .. Len(q) : pri[q[j]] > pri[x]
  BY <1>p, SearchSorted
<1>2. r = queue_insert_tpri(q, x, pri)
  BY DEF queue_insert_tpri
<1> HIDE DEF i
<1>3. r \in Queue(Task) /\ ToSet(r) = ToSet(q) \cup {x}
  BY <1>1, QueueInsert
<1>4. ASSUME NEW t, NEW u, before(r, t, u) PROVE pri[t] <= pri[u]
  <2>1. \/ before(q, t, u)
        \/ u = x /\ \E j \in 1 .. i - 1 : q[j] = t
        \/ t = x /\ \E j \in i .. Len(q) : q[j] = u
    BY <1>1, <1>4, InsertKeepsOrder
  <2>2. CASE before(q, t, u)
    BY <2>2 DEF SortedBy
  <2>3. CASE u = x /\ \E j \in 1 .. i - 1 : q[j] = t
    BY <1>1, <2>3
  <2>4. CASE t = x /\ \E j \in i .. Len(q) : q[j] = u
    <3>1. PICK j \in i .. Len(q) : q[j] = u
      BY <2>4
    <3>2. u \in Task
      BY <1>1, <3>1, QueueEntries
    <3> QED BY <1>p, <1>1, <2>4, <3>1, <3>2
  <2> QED BY <2>1, <2>2, <2>3, <2>4
<1> HIDE DEF r
<1>5. SortedBy(r, pri)
  BY <1>4 DEF SortedBy
<1> QED BY <1>2, <1>3, <1>5

-----------------------------------------------------------------------------
(***************************************************************************)
(* The walk that releases waiting tasks.                                   *)
(***************************************************************************)
WalkState == [sched  : [rq : RDYQUE, top : Task \cup {NoTask}],
              queues : [Gcb -> Seq(Task)]]

(* What a walk has done when it has released the tasks in R.               *)
ReleasedSoFar(walk, R) ==
  /\ Consistent(walk.sched.rq, ReadyTasks \cup {t \in R : state[t] = "WAIT"}, priority)
  /\ walk.sched.top = ready_queue_top(walk.sched.rq)
  /\ walk.queues \in [Gcb -> Seq(Task)]
  /\ \A g \in Gcb :
       /\ walk.queues[g] \in Queue(Task)
       /\ ToSet(walk.queues[g]) = ToSet(wait_queue[g]) \ R
       /\ \A t, u : before(walk.queues[g], t, u) <=>
                     before(wait_queue[g], t, u) /\ t \notin R /\ u \notin R

(* A step of the walk leaves a ready queue and wait queues.                *)
LEMMA ReleasedType ==
  ASSUME priority \in PriorityMap, NEW walk \in WalkState, NEW t \in Task
  PROVE  wait_ended(walk, t) \in WalkState
<1> DEFINE rq == walk.sched.rq
<1>1. rq \in RDYQUE /\ walk.sched.top \in Task \cup {NoTask} /\ walk.queues \in [Gcb -> Seq(Task)]
  BY DEF WalkState
<1>2. priority[t] \in Priority
  BY DEF PriorityMap
<1>3. ready_queue_insert(rq, t, priority[t]) \in RDYQUE
  <2>1. /\ rq.top_priority \in 0 .. NUM_PRI /\ rq.bitmap \in SUBSET Priority
        /\ rq.tskque \in [Priority -> Seq(Task)] /\ Append(rq.tskque[priority[t]], t) \in Seq(Task)
    BY <1>1, <1>2 DEF RDYQUE
  <2>2. priority[t] \in 0 .. NUM_PRI
    BY <1>2, ReadyQueueAssumption DEF Priority
  <2> HIDE DEF rq
  <2> QED BY <1>2, <2>1, <2>2 DEF ready_queue_insert, RDYQUE
<1>4. wait_ended(walk, t).sched \in [rq : RDYQUE, top : Task \cup {NoTask}]
  <2>1. made_ready(walk.sched, t) \in [rq : RDYQUE, top : Task \cup {NoTask}]
    BY <1>1, <1>3 DEF made_ready
  <2> QED BY <1>1, <2>1 DEF wait_ended, WalkState
<1>5. wait_ended(walk, t).queues \in [Gcb -> Seq(Task)]
  <2>1. ASSUME wspec[t] \in Gcb PROVE queue_delete(walk.queues[wspec[t]], t) \in Seq(Task)
    BY <1>1, <2>1, DeleteType
  <2> QED BY <1>1, <2>1 DEF wait_ended
<1> QED BY <1>4, <1>5 DEF wait_ended, WalkState

(* It releases one task more.                                              *)
LEMMA ReleaseOne ==
  ASSUME StateType, WaitQueues, NEW R \in SUBSET Task, NEW walk, ReleasedSoFar(walk, R),
         NEW t \in Task \ R, waiting(t), wspec[t] \in Gcb
  PROVE  ReleasedSoFar(wait_ended(walk, t), R \cup {t})
<1> DEFINE S   == ReadyTasks \cup {u \in R : state[u] = "WAIT"}
           S2  == ReadyTasks \cup {u \in R \cup {t} : state[u] = "WAIT"}
           new == wait_ended(walk, t)
           h   == wspec[t]
<1>1. S \in SUBSET Task /\ priority \in PriorityMap
  BY DEF ReadyTasks, StateType, PriorityMap
<1>2. /\ Consistent(walk.sched.rq, S, priority)
      /\ walk.sched.top = ready_queue_top(walk.sched.rq)
      /\ walk.queues \in [Gcb -> Seq(Task)]
  BY DEF ReleasedSoFar
<1>3. ASSUME NEW g \in Gcb
      PROVE  /\ walk.queues[g] \in Queue(Task)
             /\ ToSet(walk.queues[g]) = ToSet(wait_queue[g]) \ R
             /\ \A u, v : before(walk.queues[g], u, v) <=>
                           before(wait_queue[g], u, v) /\ u \notin R /\ v \notin R
  BY DEF ReleasedSoFar
<1>4. Consistent(new.sched.rq, S2, priority) /\ new.sched.top = ready_queue_top(new.sched.rq)
  <2>1. CASE state[t] = "WAIT"
    <3>1. S2 = S \cup {t}
      BY <2>1
    <3>2. t \in Task \ S
      BY <2>1 DEF ReadyTasks
    <3>3. new.sched = made_ready(walk.sched, t)
      BY <2>1 DEF wait_ended
    <3>4. /\ new.sched.rq = ready_queue_insert(walk.sched.rq, t, priority[t])
          /\ new.sched.top = IF priority[t] < walk.sched.rq.top_priority THEN t ELSE walk.sched.top
      BY <3>3 DEF made_ready
    <3> DEFINE rq  == walk.sched.rq
               rq2 == ready_queue_insert(rq, t, priority[t])
    <3>. Consistent(rq, S, priority)
      BY <1>2
    <3> HIDE DEF S, S2, new, rq
    <3>5. /\ Consistent(rq2, S \cup {t}, priority)
          /\ ready_queue_top(rq2) = IF priority[t] < rq.top_priority THEN t ELSE ready_queue_top(rq)
      BY <1>1, <3>2, ReadyQueueInsert, Zenon
    <3>6. /\ Consistent(new.sched.rq, S \cup {t}, priority)
          /\ ready_queue_top(new.sched.rq) =
               IF priority[t] < walk.sched.rq.top_priority THEN t ELSE ready_queue_top(walk.sched.rq)
      BY <3>4, <3>5 DEF rq
    <3> QED BY <1>2, <3>1, <3>4, <3>6
  <2>2. CASE state[t] # "WAIT"
    <3>1. S2 = S
      BY <2>2
    <3>2. new.sched = walk.sched
      BY <2>2 DEF wait_ended
    <3> QED BY <1>2, <3>1, <3>2
  <2> QED BY <2>1, <2>2
<1>5. new.queues = [walk.queues EXCEPT ![h] = queue_delete(walk.queues[h], t)]
  BY DEF wait_ended
<1> HIDE DEF S, S2, new
<1>6. t \in ToSet(walk.queues[h])
  <2>1. t \in ToSet(wait_queue[h])
    BY DEF WaitQueues
  <2> QED BY <1>3, <2>1
<1>7. /\ queue_delete(walk.queues[h], t) \in Queue(Task)
      /\ ToSet(queue_delete(walk.queues[h], t)) = ToSet(walk.queues[h]) \ {t}
  BY <1>3, <1>6, QueueDelete
<1>8. new.queues \in [Gcb -> Seq(Task)]
  BY <1>2, <1>5, <1>7 DEF Queue
<1>9. ASSUME NEW g \in Gcb
      PROVE  /\ new.queues[g] \in Queue(Task)
             /\ ToSet(new.queues[g]) = ToSet(wait_queue[g]) \ (R \cup {t})
             /\ \A u, v : before(new.queues[g], u, v) <=>
                           before(wait_queue[g], u, v) /\ u \notin R \cup {t} /\ v \notin R \cup {t}
  <2>1. CASE g = h
    <3>1. new.queues[g] = queue_delete(walk.queues[g], t)
      BY <1>2, <1>5, <2>1
    <3>2. ASSUME NEW u, NEW v
          PROVE  before(new.queues[g], u, v) <=> before(walk.queues[g], u, v) /\ u # t /\ v # t
      BY <1>3, <1>6, <2>1, <3>1, DeleteKeepsOrder
    <3>3. ToSet(new.queues[g]) = ToSet(wait_queue[g]) \ (R \cup {t})
      BY <1>3, <1>7, <2>1, <3>1
    <3>4. ASSUME NEW u, NEW v
          PROVE  before(new.queues[g], u, v) <=>
                   before(wait_queue[g], u, v) /\ u \notin R \cup {t} /\ v \notin R \cup {t}
      BY <1>3, <3>2
    <3> QED BY <1>7, <2>1, <3>1, <3>3, <3>4
  <2>2. CASE g # h
    <3>1. new.queues[g] = walk.queues[g]
      BY <1>2, <1>5, <2>2
    <3>2. t \notin ToSet(wait_queue[g])
      BY <2>2 DEF WaitQueues
    <3>3. ToSet(new.queues[g]) = ToSet(wait_queue[g]) \ (R \cup {t})
      BY <1>3, <3>1, <3>2
    <3>4. ASSUME NEW u, NEW v
          PROVE  before(new.queues[g], u, v) <=>
                   before(wait_queue[g], u, v) /\ u \notin R \cup {t} /\ v \notin R \cup {t}
      <4>1. before(wait_queue[g], u, v) => u # t /\ v # t
        BY <3>2, BeforeIn
      <4> QED BY <1>3, <3>1, <4>1
    <3> QED BY <1>3, <3>1, <3>3, <3>4
  <2> QED BY <2>1, <2>2
<1>10. Consistent(new.sched.rq, ReadyTasks \cup {u \in R \cup {t} : state[u] = "WAIT"}, priority)
  BY <1>4 DEF S2
<1>11. ReleasedSoFar(new, R \cup {t})
  BY <1>4, <1>8, <1>9, <1>10, Zenon DEF ReleasedSoFar
<1> QED BY <1>11 DEF new

(* The tasks in W that are among the first n of a sequence.                *)
FirstOf(tasks, W, n) == {t \in W : \E j \in 1 .. n : tasks[j] = t}

(* The walk releases the waiting tasks in W one after the other, and       *)
(* leaves the order of the tasks that go on waiting.                       *)
LEMMA ReleaseWalks ==
  ASSUME StateType, SchedInv, schedtsk \in Task \cup {NoTask}, WaitQueues,
         NEW tasks \in Queue(Task), NEW W \in SUBSET ToSet(tasks),
         \A t \in W : waiting(t) /\ wspec[t] \in Gcb
  PROVE  \E after :
           /\ release_walk(tasks, W) = after[Len(tasks)]
           /\ \A n \in 1 .. Len(tasks) :
                after[n] = IF tasks[n] \in W THEN wait_ended(after[n - 1], tasks[n])
                                             ELSE after[n - 1]
           /\ \A n \in 0 .. Len(tasks) : ReleasedSoFar(after[n], FirstOf(tasks, W, n))
<1> DEFINE N     == Len(tasks)
           start == [sched |-> [rq |-> ready_queue, top |-> schedtsk], queues |-> wait_queue]
           step  == [n \in 1 .. N |-> [x \in WalkState |->
                       IF tasks[n] \in W THEN wait_ended(x, tasks[n]) ELSE x]]
           F(g)  == [n \in 0 .. N |->
                       IF n = 0
                       THEN start
                       ELSE IF tasks[n] \in W THEN wait_ended(g[n - 1], tasks[n]) ELSE g[n - 1]]
           after == CHOOSE g : g = F(g)
<1>q. /\ N \in Nat /\ ToSet(tasks) = {tasks[j] : j \in 1 .. N}
      /\ \A j, k \in 1 .. N : tasks[j] = tasks[k] => j = k
      /\ \A j \in 1 .. N : tasks[j] \in Task
  BY QueueEntries
<1>1. /\ Consistent(ready_queue, ReadyTasks, priority) /\ schedtsk = ready_queue_top(ready_queue)
      /\ priority \in PriorityMap /\ wait_queue \in [Gcb -> Seq(Task)]
  BY DEF SchedInv, SchedtskIsTop, StateType, PriorityMap, WaitQueues
<1>2. start \in WalkState
  BY <1>1 DEF WalkState, Consistent
<1>3. step \in [1 .. N -> [WalkState -> WalkState]]
  <2>1. ASSUME NEW n \in 1 .. N, NEW x \in WalkState
        PROVE  (IF tasks[n] \in W THEN wait_ended(x, tasks[n]) ELSE x) \in WalkState
    BY <1>q, <1>1, <2>1, ReleasedType
  <2> QED BY <2>1
<1>4. \E g : g = F(g)
  <2> HIDE DEF start, step
  <2>1. PICK g \in [0 .. N -> WalkState] :
          g[0] = start /\ \A n \in 1 .. N : g[n] = step[n][g[n - 1]]
    <3> HIDE DEF N
    <3>1. N \in Nat
      BY <1>q
    <3>2. \E g \in [0 .. N -> WalkState] : Walks(g, N, start, step)
      BY <1>2, <1>3, <3>1, Walk
    <3> QED BY <3>2 DEF Walks
  <2>2. ASSUME NEW n \in 0 .. N
        PROVE  g[n] = IF n = 0 THEN start
                      ELSE IF tasks[n] \in W THEN wait_ended(g[n - 1], tasks[n]) ELSE g[n - 1]
    <3>1. CASE n = 0
      BY <2>1, <3>1
    <3>2. CASE n # 0
      <4>1. n \in 1 .. N /\ n - 1 \in 0 .. N
        BY <3>2
      <4>2. g[n - 1] \in WalkState /\ g[n] = step[n][g[n - 1]]
        BY <2>1, <4>1
      <4> QED BY <3>2, <4>1, <4>2 DEF step
    <3> QED BY <3>1, <3>2
  <2>3. g = F(g)
    BY <2>1, <2>2
  <2> QED BY <2>3
<1>5. after = F(after)
  <2> HIDE DEF F
  <2> QED BY <1>4, Zenon
<1>6. release_walk(tasks, W) = after[N]
  BY DEF release_walk
<1> DEFINE R(n) == {t \in W : \E j \in 1 .. n : tasks[j] = t}
           Bad  == {n \in 0 .. N : ~ReleasedSoFar(after[n], R(n))}
<1> HIDE DEF after
<1>7. after[0] = start
  BY <1>5, <1>q
<1>8. ASSUME NEW n \in 1 .. N
      PROVE  after[n] = IF tasks[n] \in W THEN wait_ended(after[n - 1], tasks[n]) ELSE after[n - 1]
  <2>1. n \in 0 .. N /\ n # 0
    OBVIOUS
  <2> QED BY <1>5, <2>1
<1> HIDE DEF step, F
<1>9. ReleasedSoFar(after[0], R(0))
  <2>1. R(0) = {}
    OBVIOUS
  <2>2. ReadyTasks \cup {t \in {} : state[t] = "WAIT"} = ReadyTasks
    OBVIOUS
  <2>3. Consistent(start.sched.rq, ReadyTasks \cup {t \in {} : state[t] = "WAIT"}, priority)
    BY <1>1, <2>2
  <2>4. \A g \in Gcb : wait_queue[g] \in Queue(Task)
    BY InWaitQueue
  <2>5. ReleasedSoFar(start, {})
    BY <1>1, <2>3, <2>4 DEF ReleasedSoFar
  <2> QED BY <1>7, <2>1, <2>5
<1>10. ASSUME NEW n \in 1 .. N, ReleasedSoFar(after[n - 1], R(n - 1))
       PROVE  ReleasedSoFar(after[n], R(n))
  <2>1. R(n) = IF tasks[n] \in W THEN R(n - 1) \cup {tasks[n]} ELSE R(n - 1)
    <3>1. \A t : (\E j \in 1 .. n : tasks[j] = t) <=> ((\E j \in 1 .. n - 1 : tasks[j] = t) \/ tasks[n] = t)
      <4>1. 1 .. n = 1 .. n - 1 \cup {n}
        OBVIOUS
      <4> QED BY <4>1
    <3> QED BY <3>1
  <2>2. CASE tasks[n] \in W
    <3>1. tasks[n] \in Task \ R(n - 1) /\ R(n - 1) \in SUBSET Task
      <4>1. \A j \in 1 .. n - 1 : tasks[j] # tasks[n]
        BY <1>q
      <4>2. W \subseteq Task
        BY <1>q
      <4> QED BY <1>q, <4>1, <4>2
    <3>2. waiting(tasks[n]) /\ wspec[tasks[n]] \in Gcb
      BY <2>2
    <3> DEFINE before_n == after[n - 1]
               Rn == R(n - 1)
               t == tasks[n]
    <3>3. ReleasedSoFar(before_n, Rn)
      BY <1>10
    <3>4. Rn \in SUBSET Task /\ t \in Task \ Rn /\ waiting(t) /\ wspec[t] \in Gcb
      BY <3>1, <3>2
    <3>5. after[n] = wait_ended(before_n, t) /\ R(n) = Rn \cup {t}
      BY <1>8, <2>1, <2>2
    <3> HIDE DEF before_n, Rn, t, R
    <3>6. ReleasedSoFar(wait_ended(before_n, t), Rn \cup {t})
      BY <3>3, <3>4, ReleaseOne, Zenon
    <3> QED BY <3>5, <3>6
  <2>3. CASE tasks[n] \notin W
    BY <1>8, <1>10, <2>1, <2>3
  <2> QED BY <2>2, <2>3
<1>11. Bad = {}
  <2> SUFFICES ASSUME Bad # {} PROVE FALSE
    OBVIOUS
  <2>0. Bad \in SUBSET Nat
    OBVIOUS
  <2>a. \A n \in 0 .. N : n \in Bad <=> ~ReleasedSoFar(after[n], R(n))
    OBVIOUS
  <2>1. Bad \subseteq 0 .. N
    OBVIOUS
  <2> HIDE DEF Bad, R
  <2>2. PICK n \in Bad : \A m \in Bad : n <= m
    BY <2>0, MinOfNaturals
  <2>3. n \in 1 .. N
    <3>1. n \in 0 .. N
      BY <2>1, <2>2
    <3>2. n # 0
      BY <1>9, <2>a, <2>2, <3>1
    <3> QED BY <3>1, <3>2
  <2>4. n - 1 \in 0 .. N /\ n - 1 \notin Bad
    BY <2>2, <2>3
  <2>5. ReleasedSoFar(after[n - 1], R(n - 1))
    BY <2>a, <2>4
  <2>6. ReleasedSoFar(after[n], R(n))
    BY <1>10, <2>3, <2>5
  <2> QED BY <2>a, <2>1, <2>2, <2>6
<1>12. ASSUME NEW n \in 0 .. N PROVE ReleasedSoFar(after[n], FirstOf(tasks, W, n))
  <2>1. n \notin Bad
    BY <1>11, Zenon
  <2> QED BY <2>1 DEF FirstOf
<1> QED BY <1>6, <1>8, <1>12

(* When it is done, it has released them all.                              *)
LEMMA ReleaseWalk ==
  ASSUME StateType, SchedInv, schedtsk \in Task \cup {NoTask}, WaitQueues,
         NEW tasks \in Queue(Task), NEW W \in SUBSET ToSet(tasks),
         \A t \in W : waiting(t) /\ wspec[t] \in Gcb
  PROVE  ReleasedSoFar(release_walk(tasks, W), W)
<1>1. Len(tasks) \in Nat /\ ToSet(tasks) = {tasks[j] : j \in 1 .. Len(tasks)}
  BY QueueEntries
<1>2. FirstOf(tasks, W, Len(tasks)) = W
  BY <1>1 DEF FirstOf
<1>3. Len(tasks) \in 0 .. Len(tasks)
  BY <1>1
<1> QED BY <1>2, <1>3, ReleaseWalks

(* Some entries have left a queue, and the others kept their order.        *)
Thinned(q, q2) ==
  /\ ToSet(q2) \subseteq ToSet(q)
  /\ \A t, u : before(q2, t, u) <=> before(q, t, u) /\ t \in ToSet(q2) /\ u \in ToSet(q2)

(* What ends the waits of several tasks keeps the invariant, and the order *)
(* of the tasks that go on waiting.                                        *)
LEMMA WaitReleaseThose ==
  ASSUME IInv, NEW tasks \in Queue(Task), NEW W \in SUBSET ToSet(tasks),
         \A t \in W : waiting(t) /\ wspec[t] \in Gcb,
         wait_release_those(tasks, W), UNCHANGED <<countvars, privars, cpuvars>>
  PROVE  /\ IInv'
         /\ \A g \in Gcb : Thinned(wait_queue[g], wait_queue'[g])
         /\ \A g \in Gcb : ToSet(wait_queue'[g]) = ToSet(wait_queue[g]) \ W
<1>i. /\ TypeOK /\ StateType /\ SchedInv /\ WaitInv /\ WaitQueues /\ CountInv /\ RunInv
      /\ schedtsk \in Task \cup {NoTask}
  BY DEF IInv, TypeOK, StateType, WaitInv
<1>t. /\ state \in [Task -> TSTAT] /\ timer_queue \in SUBSET Task /\ ctxtsk \in Task \cup {NoTask}
      /\ wspec \in [Task -> Gcb \cup {"none", "slp", "dly", "tmb", "rdv"}]
      /\ "none" \notin Gcb /\ W \subseteq Task
  <2>1. W \subseteq Task
    BY QueueEntries
  <2> QED BY <1>i, <2>1, TaskCoreAssumption DEF TypeOK
<1> DEFINE walk == release_walk(tasks, W)
<1>1. /\ state' = [t \in Task |-> IF t \notin W THEN state[t]
                                   ELSE IF state[t] = "WAIT" THEN "READY" ELSE "SUSPEND"]
      /\ ready_queue' = walk.sched.rq
      /\ schedtsk' = walk.sched.top
      /\ wspec' = [t \in Task |-> IF t \in W THEN "none" ELSE wspec[t]]
      /\ wait_queue' = walk.queues
      /\ timer_queue' = timer_queue \ W
  BY DEF wait_release_those
<1>2. ReleasedSoFar(walk, W)
  BY <1>i, ReleaseWalk
<1> HIDE DEF walk
<1>u. /\ UNCHANGED <<wupcnt, suscnt, priority, ipriority, ctxtsk, dispatch_disabled, ipm, in_indp>>
  BY DEF countvars, privars, cpuvars
<1>3. StateType'
  BY <1>i, <1>t, <1>1, <1>u DEF StateType, TSTAT
<1>4. SchedInv' /\ ready_queue' \in RDYQUE /\ schedtsk' \in Task \cup {NoTask}
  <2>1. ReadyTasks' = ReadyTasks \cup {t \in W : state[t] = "WAIT"}
    BY <1>t, <1>1 DEF ReadyTasks, waiting, TS_WAIT
  <2>2. Consistent(ready_queue', ReadyTasks', priority') /\ schedtsk' = ready_queue_top(ready_queue')
    BY <1>1, <1>2, <1>u, <2>1 DEF ReleasedSoFar
  <2>3. SchedInv'
    BY <2>2 DEF SchedInv, SchedtskIsTop
  <2> QED BY <1>3, <2>3, SchedtskReadyNext
<1>5. ASSUME NEW g \in Gcb
      PROVE  /\ wait_queue'[g] \in Queue(Task)
             /\ ToSet(wait_queue'[g]) = ToSet(wait_queue[g]) \ W
             /\ Thinned(wait_queue[g], wait_queue'[g])
  <2>1. /\ wait_queue'[g] \in Queue(Task)
        /\ ToSet(wait_queue'[g]) = ToSet(wait_queue[g]) \ W
        /\ \A t, u : before(wait_queue'[g], t, u) <=>
                      before(wait_queue[g], t, u) /\ t \notin W /\ u \notin W
    BY <1>1, <1>2, Zenon DEF ReleasedSoFar
  <2>2. ASSUME NEW t, NEW u
        PROVE  before(wait_queue'[g], t, u) <=>
                 /\ before(wait_queue[g], t, u)
                 /\ t \in ToSet(wait_queue'[g]) /\ u \in ToSet(wait_queue'[g])
    BY <2>1, BeforeIn
  <2> QED BY <2>1, <2>2 DEF Thinned
<1>6. WaitQueues'
  <2>1. wait_queue' \in [Gcb -> Seq(Task)]
    BY <1>1, <1>2 DEF ReleasedSoFar
  <2>2. ASSUME NEW g \in Gcb
        PROVE  /\ IsInjective(wait_queue'[g])
               /\ ToSet(wait_queue'[g]) = {t \in Task : wspec'[t] = g}
    <3>1. {t \in Task : wspec'[t] = g} = {t \in Task : wspec[t] = g} \ W
      BY <1>t, <1>1
    <3>2. ToSet(wait_queue[g]) = {t \in Task : wspec[t] = g}
      BY <1>i DEF WaitQueues
    <3> QED BY <1>5, <3>1, <3>2 DEF Queue
  <2> QED BY <2>1, <2>2 DEF WaitQueues
<1>7. WaitInv'
  <2>1. \A t \in Task : waiting(t)' <=> wspec'[t] # "none"
    <3>1. \A t \in Task : waiting(t) <=> wspec[t] # "none"
      BY <1>i DEF WaitInv
    <3> QED BY <1>t, <1>1, <3>1 DEF waiting, TS_WAIT
  <2>2. TimeoutOnlyWhileWaiting'
    <3>1. \A t \in timer_queue : waiting(t)
      BY <1>i DEF WaitInv, TimeoutOnlyWhileWaiting
    <3> QED BY <1>t, <1>1, <3>1 DEF TimeoutOnlyWhileWaiting, waiting, TS_WAIT
  <2> QED BY <1>6, <2>1, <2>2 DEF WaitInv
<1>8. CountInv'
  <2>1. \A t \in Task : task_alive(t) => (suscnt[t] > 0 <=> state[t] \in TS_SUSPEND)
    BY <1>i DEF CountInv, SuspendCount
  <2>2. /\ \A t \in Task : state[t] = "DORMANT" => wupcnt[t] = 0 /\ suscnt[t] = 0
        /\ \A t \in Task : waiting(t) /\ wspec[t] = "slp" => wupcnt[t] = 0
    BY <1>i DEF CountInv, StartsFresh, NoLostWakeup
  <2> QED BY <1>t, <1>1, <1>u, <2>1, <2>2
          DEF CountInv, SuspendCount, StartsFresh, NoLostWakeup, task_alive, waiting, TS_WAIT, TS_SUSPEND
<1>9. RunInv'
  <2>1. /\ ctxtsk # NoTask => task_alive(ctxtsk)
        /\ ctxtsk # NoTask /\ ~dispatch_enabled => state[ctxtsk] \in {"READY", "SUSPEND"}
        /\ dispatch_enabled' = dispatch_enabled
    BY <1>i, <1>u DEF RunInv, RunningTaskAlive, NoWaitWithoutDispatch, dispatch_enabled
  <2> QED BY <1>t, <1>1, <1>u, <2>1
          DEF RunInv, RunningTaskAlive, NoWaitWithoutDispatch, task_alive, waiting, TS_WAIT, TS_SUSPEND
<1>10. TypeOK'
  <2>1. /\ wspec' \in [Task -> Gcb \cup {"none", "slp", "dly", "tmb", "rdv"}]
        /\ timer_queue' \in SUBSET Task /\ wait_queue' \in [Gcb -> Seq(Task)]
    BY <1>t, <1>1, <1>6 DEF WaitQueues
  <2> QED BY <1>i, <1>3, <1>4, <1>u, <2>1 DEF TypeOK, StateType
<1> QED BY <1>4, <1>5, <1>7, <1>8, <1>9, <1>10 DEF IInv

(* The deletion of an object ends the waits of all tasks that wait for it. *)
LEMMA WaitDelete ==
  ASSUME IInv, NEW g \in Gcb, wait_delete(g), UNCHANGED <<countvars, privars, cpuvars>>
  PROVE  /\ IInv'
         /\ ToSet(wait_queue'[g]) = {}
         /\ \A h \in Gcb : Thinned(wait_queue[h], wait_queue'[h])
         /\ \A h \in Gcb \ {g} : ToSet(wait_queue'[h]) = ToSet(wait_queue[h])
<1> DEFINE q == wait_queue[g]
           W == ToSet(wait_queue[g])
<1>1. WaitQueues /\ q \in Queue(Task) /\ \A t \in Task : t \in W <=> wspec[t] = g
  BY InWaitQueue DEF IInv, WaitInv
<1>2. W \subseteq Task
  BY <1>1, QueueEntries
<1>3. \A t \in W : waiting(t) /\ wspec[t] \in Gcb
  BY <1>1, <1>2, TaskCoreAssumption DEF IInv, WaitInv
<1>4. wait_release_those(q, W)
  BY DEF wait_delete, wait_release_all
<1>5. \A h \in Gcb \ {g} : ToSet(wait_queue[h]) \cap W = {}
  BY <1>1 DEF WaitQueues
<1> HIDE DEF q, W
<1>6. W \in SUBSET ToSet(q)
  BY DEF q, W
<1>7. /\ IInv'
      /\ \A h \in Gcb : Thinned(wait_queue[h], wait_queue'[h])
      /\ \A h \in Gcb : ToSet(wait_queue'[h]) = ToSet(wait_queue[h]) \ W
  BY <1>1, <1>3, <1>4, <1>6, WaitReleaseThose
<1> QED BY <1>5, <1>7 DEF W

-----------------------------------------------------------------------------
(***************************************************************************)
(* Waiting.                                                                *)
(***************************************************************************)
(* A task that waits keeps the invariant, if the wait queues are right.    *)
LEMMA MakeWaitInv ==
  ASSUME IInv, in_task, ~in_ddsp, NEW w \in Gcb \cup {"slp", "dly", "tmb", "rdv"}, NEW timed,
         make_wait(w, timed), WaitQueues', w = "slp" => wupcnt[ctxtsk] = 0,
         UNCHANGED <<countvars, privars, cpuvars>>
  PROVE  IInv'
<1>i. /\ TypeOK /\ StateType /\ SchedInv /\ WaitInv /\ CountInv /\ RunInv
  BY DEF IInv, TypeOK, StateType
<1>c. ctxtsk \in Task /\ state[ctxtsk] = "READY" /\ dispatch_enabled
  BY CallerTask DEF in_ddsp, in_loc, dispatch_enabled, in_task, IInv, TypeOK
<1>t. /\ state \in [Task -> TSTAT] /\ timer_queue \in SUBSET Task
      /\ wspec \in [Task -> Gcb \cup {"none", "slp", "dly", "tmb", "rdv"}]
      /\ w # "none" /\ "slp" \notin Gcb
  BY <1>i, TaskCoreAssumption DEF TypeOK
<1>1. /\ state' = [state EXCEPT ![ctxtsk] = "WAIT"]
      /\ wspec' = [wspec EXCEPT ![ctxtsk] = w]
      /\ timer_queue' \subseteq timer_queue \cup {ctxtsk}
  BY <1>c DEF make_wait, make_non_ready
<1>u. UNCHANGED <<wupcnt, suscnt, priority, ipriority, ctxtsk, dispatch_disabled, ipm, in_indp>>
  BY DEF countvars, privars, cpuvars
<1>2. StateType'
  BY <1>i, <1>t, <1>1, <1>u DEF StateType, TSTAT
<1>3. SchedInv'
  BY <1>2, <1>u, MakeWaitSched
<1>4. ready_queue' \in RDYQUE /\ schedtsk' \in Task \cup {NoTask}
  BY <1>2, <1>3, SchedtskReadyNext
<1>5. WaitInv'
  <2>1. \A t \in Task : waiting(t)' <=> wspec'[t] # "none"
    <3>1. \A t \in Task : waiting(t) <=> wspec[t] # "none"
      BY <1>i DEF WaitInv
    <3> QED BY <1>c, <1>t, <1>1, <3>1 DEF waiting, TS_WAIT
  <2>2. TimeoutOnlyWhileWaiting'
    <3>1. \A t \in timer_queue : waiting(t)
      BY <1>i DEF WaitInv, TimeoutOnlyWhileWaiting
    <3> QED BY <1>c, <1>t, <1>1, <3>1 DEF TimeoutOnlyWhileWaiting, waiting, TS_WAIT
  <2> QED BY <2>1, <2>2 DEF WaitInv
<1>6. CountInv'
  <2>1. \A t \in Task : task_alive(t) => (suscnt[t] > 0 <=> state[t] \in TS_SUSPEND)
    BY <1>i DEF CountInv, SuspendCount
  <2>2. /\ \A t \in Task : state[t] = "DORMANT" => wupcnt[t] = 0 /\ suscnt[t] = 0
        /\ \A t \in Task : waiting(t) /\ wspec[t] = "slp" => wupcnt[t] = 0
    BY <1>i DEF CountInv, StartsFresh, NoLostWakeup
  <2> QED BY <1>c, <1>t, <1>1, <1>u, <2>1, <2>2
          DEF CountInv, SuspendCount, StartsFresh, NoLostWakeup, task_alive, waiting, TS_WAIT, TS_SUSPEND
<1>7. RunInv'
  <2>1. dispatch_enabled'
    BY <1>c, <1>u DEF dispatch_enabled
  <2>2. state'[ctxtsk] = "WAIT"
    BY <1>c, <1>t, <1>1
  <2> QED BY <1>u, <2>1, <2>2 DEF RunInv, RunningTaskAlive, NoWaitWithoutDispatch, task_alive, TS_WAIT
<1>8. TypeOK'
  <2>1. /\ wspec' \in [Task -> Gcb \cup {"none", "slp", "dly", "tmb", "rdv"}]
        /\ timer_queue' \in SUBSET Task /\ wait_queue' \in [Gcb -> Seq(Task)]
    BY <1>c, <1>t, <1>1, <1>5 DEF WaitInv, WaitQueues
  <2> QED BY <1>i, <1>2, <1>4, <1>u, <2>1 DEF TypeOK, StateType
<1> QED BY <1>3, <1>5, <1>6, <1>7, <1>8 DEF IInv

(* So does a task that enters the queue of an object: at its end, or in    *)
(* front of the tasks of lower priority.                                   *)
LEMMA GcbMakeWait ==
  ASSUME IInv, in_task, ~in_ddsp, NEW g \in Gcb, NEW timed, gcb_make_wait(g, timed),
         UNCHANGED <<countvars, privars, cpuvars>>
  PROVE  /\ IInv'
         /\ \A h \in Gcb \ {g} : wait_queue'[h] = wait_queue[h]
         /\ ToSet(wait_queue'[g]) = ToSet(wait_queue[g]) \cup {ctxtsk}
         /\ ctxtsk \notin ToSet(wait_queue[g])
         /\ \A t, u : before(wait_queue[g], t, u) => before(wait_queue'[g], t, u)
         /\ g \notin TaTpri => wait_queue'[g] = Append(wait_queue[g], ctxtsk)
         /\ g \in TaTpri /\ SortedBy(wait_queue[g], priority)
              => SortedBy(wait_queue'[g], priority)
<1> DEFINE q  == wait_queue[g]
           i  == queue_search_gt(q, priority, priority[ctxtsk])
           q2 == IF g \in TaTpri THEN queue_insert(q, i, ctxtsk) ELSE Append(q, ctxtsk)
<1>c. ctxtsk \in Task /\ state[ctxtsk] = "READY"
  BY CallerTask DEF in_ddsp, in_loc, dispatch_enabled, in_task, IInv, TypeOK
<1>1. /\ WaitQueues /\ wait_queue \in [Gcb -> Seq(Task)] /\ priority \in PriorityMap
      /\ wspec \in [Task -> Gcb \cup {"none", "slp", "dly", "tmb", "rdv"}]
      /\ "none" \notin Gcb /\ wspec[ctxtsk] = "none"
  BY <1>c, TaskCoreAssumption DEF IInv, TypeOK, WaitInv, WaitQueues, PriorityMap, waiting, TS_WAIT
<1>2. q \in Queue(Task) /\ ctxtsk \in Task \ ToSet(q) /\ ToSet(q) = {t \in Task : wspec[t] = g}
  BY <1>c, <1>1, InWaitQueue DEF WaitQueues
<1>3. make_wait(g, timed) /\ wait_queue' = [wait_queue EXCEPT ![g] = q2]
  BY DEF gcb_make_wait, queue_insert_tpri
<1>4. wspec' = [wspec EXCEPT ![ctxtsk] = g]
  BY <1>3 DEF make_wait
<1> HIDE DEF q
<1>5. i \in 1 .. Len(q) + 1
  BY <1>2, QueueSearch DEF Queue
<1> HIDE DEF i
<1>6. q2 \in Queue(Task) /\ ToSet(q2) = ToSet(q) \cup {ctxtsk}
  <2>1. CASE g \in TaTpri
    BY <1>2, <1>5, <2>1, QueueInsert
  <2>2. CASE g \notin TaTpri
    BY <1>2, <2>2, QueueAppend
  <2> QED BY <2>1, <2>2
<1>7. ASSUME NEW t, NEW u, before(q, t, u) PROVE before(q2, t, u)
  <2>1. CASE g \in TaTpri
    BY <1>2, <1>5, <1>7, <2>1, InsertKeepsOrder
  <2>2. CASE g \notin TaTpri
    <3>1. q \in Seq(Task) /\ ctxtsk \in Task
      BY <1>2 DEF Queue
    <3> QED BY <1>7, <2>2, <3>1, AppendKeepsOrder
  <2> QED BY <2>1, <2>2
<1>8. g \in TaTpri /\ SortedBy(q, priority) => SortedBy(q2, priority)
  <2> SUFFICES ASSUME g \in TaTpri, SortedBy(q, priority) PROVE SortedBy(q2, priority)
    OBVIOUS
  <2>1. q2 = queue_insert_tpri(q, ctxtsk, priority)
    BY DEF queue_insert_tpri, i
  <2> HIDE DEF q2
  <2> QED BY <1>1, <1>2, <2>1, InsertSorted
<1> HIDE DEF q2
<1>9. wait_queue' \in [Gcb -> Seq(Task)] /\ wait_queue'[g] = q2
      /\ \A h \in Gcb \ {g} : wait_queue'[h] = wait_queue[h]
  BY <1>1, <1>3, <1>6 DEF Queue
<1>10. WaitQueues'
  <2>1. ASSUME NEW h \in Gcb
        PROVE  /\ IsInjective(wait_queue'[h])
               /\ ToSet(wait_queue'[h]) = {t \in Task : wspec'[t] = h}
    <3>1. CASE h = g
      <4>1. {t \in Task : wspec'[t] = g} = {t \in Task : wspec[t] = g} \cup {ctxtsk}
        BY <1>c, <1>1, <1>4
      <4> QED BY <1>2, <1>6, <1>9, <3>1, <4>1 DEF Queue
    <3>2. CASE h # g
      <4>1. {t \in Task : wspec'[t] = h} = {t \in Task : wspec[t] = h}
        BY <1>c, <1>1, <1>4, <3>2
      <4> QED BY <1>1, <1>9, <3>2, <4>1 DEF WaitQueues
    <3> QED BY <3>1, <3>2
  <2> QED BY <1>9, <2>1 DEF WaitQueues
<1>11. IInv'
  <2>1. g \in Gcb \cup {"slp", "dly", "tmb", "rdv"} /\ g # "slp"
    BY TaskCoreAssumption
  <2> QED BY <1>3, <1>10, <2>1, MakeWaitInv
<1>12. g \notin TaTpri => q2 = Append(q, ctxtsk)
  BY DEF q2
<1> QED BY <1>2, <1>6, <1>7, <1>8, <1>9, <1>11, <1>12 DEF q

(* What the calls of the objects leave alone.                              *)
UNCHANGEDcalls == UNCHANGED <<countvars, privars, cpuvars>>

(* A queue is empty if nobody is in it.                                    *)
LEMMA NobodyIn ==
  ASSUME NEW q \in Seq(Task)
  PROVE  q = << >> <=> ToSet(q) = {}
<1>1. ASSUME q # << >> PROVE q[1] \in ToSet(q)
  BY <1>1 DEF ToSet
<1>2. ASSUME q = << >> PROVE ToSet(q) = {}
  BY <1>2 DEF ToSet
<1> QED BY <1>1, <1>2

(* The first task of a wait queue waits for the object, and the ref calls  *)
(* report it.                                                              *)
LEMMA FirstWaits ==
  ASSUME IInv, NEW g \in Gcb
  PROVE  /\ wait_queue[g] \in Queue(Task)
         /\ wait_queue[g] = << >> <=> ToSet(wait_queue[g]) = {}
         /\ wait_tskid(g) # NoTask <=> wait_queue[g] # << >>
         /\ wait_queue[g] # << >> =>
              /\ wait_tskid(g) = Head(wait_queue[g])
              /\ Head(wait_queue[g]) \in ToSet(wait_queue[g])
              /\ Head(wait_queue[g]) \in Task
              /\ waiting(Head(wait_queue[g]))
              /\ wspec[Head(wait_queue[g])] = g
<1> DEFINE q == wait_queue[g]
<1>1. q \in Queue(Task) /\ q \in Seq(Task) /\ \A t \in Task : t \in ToSet(q) <=> wspec[t] = g
  BY InWaitQueue DEF IInv, WaitInv, Queue
<1>2. ASSUME q # << >>
      PROVE  Head(q) \in ToSet(q) /\ Head(q) \in Task
  BY <1>1, <1>2 DEF ToSet
<1>3. ASSUME q # << >>
      PROVE  wspec[Head(q)] = g /\ waiting(Head(q))
  BY <1>1, <1>2, <1>3, TaskCoreAssumption DEF IInv, WaitInv
<1>4. q = << >> <=> ToSet(q) = {}
  <2> HIDE DEF q
  <2> QED BY <1>1, NobodyIn
<1> QED BY <1>1, <1>2, <1>3, <1>4, ReadyQueueAssumption DEF wait_tskid

(* So its release by the object is one of the steps of task management.    *)
LEMMA FirstReleased ==
  ASSUME IInv, caller, NEW g \in Gcb, wait_queue[g] # << >>,
         wait_release(Head(wait_queue[g])), UNCHANGEDcalls
  PROVE  Next
<1>1. Head(wait_queue[g]) \in Task /\ waiting(Head(wait_queue[g]))
  BY FirstWaits
<1>2. rel_wai(Head(wait_queue[g]))
  BY <1>1 DEF rel_wai, UNCHANGEDcalls
<1> QED BY <1>1, <1>2 DEF Next, TaskCall

-----------------------------------------------------------------------------
(***************************************************************************)
(* What the task management calls do to the wait queues of the objects.    *)
(***************************************************************************)
(* A queue that nobody enters stays sorted.                                *)
LEMMA ThinnedSorted ==
  ASSUME NEW q, NEW q2, NEW pri, NEW pri2, Thinned(q, q2), SortedBy(q, pri),
         \A t \in ToSet(q2) : pri2[t] = pri[t]
  PROVE  SortedBy(q2, pri2)
<1>1. ASSUME NEW t, NEW u, before(q2, t, u) PROVE pri2[t] <= pri2[u]
  <2>1. before(q, t, u) /\ t \in ToSet(q2) /\ u \in ToSet(q2)
    BY <1>1, BeforeIn DEF Thinned
  <2> QED BY <2>1 DEF SortedBy
<1> QED BY <1>1 DEF SortedBy

(* The order of a queue is one of its entries.                             *)
LEMMA ThinnedSelf ==
  ASSUME NEW q
  PROVE  Thinned(q, q)
  BY BeforeIn DEF Thinned

(* wait_cancel takes its task out and leaves the others in their order.    *)
LEMMA WaitCancelThins ==
  ASSUME IInv, NEW t \in Task, wait_cancel(t), NEW g \in Gcb
  PROVE  /\ Thinned(wait_queue[g], wait_queue'[g])
         /\ t \notin ToSet(wait_queue'[g])
<1> DEFINE q == wait_queue[g]
<1>1. /\ wait_queue \in [Gcb -> Seq(Task)] /\ q \in Queue(Task)
      /\ t \in ToSet(q) <=> wspec[t] = g
  BY InWaitQueue DEF IInv, WaitInv, WaitQueues
<1>2. CASE wspec[t] = g
  <2>1. wait_queue'[g] = queue_delete(q, t)
    BY <1>1, <1>2 DEF wait_cancel
  <2> HIDE DEF q
  <2>2. ToSet(queue_delete(q, t)) = ToSet(q) \ {t}
    BY <1>1, <1>2, QueueDelete
  <2>3. ASSUME NEW u, NEW v
        PROVE  before(wait_queue'[g], u, v) <=>
                 before(q, u, v) /\ u \in ToSet(wait_queue'[g]) /\ v \in ToSet(wait_queue'[g])
    <3>1. before(queue_delete(q, t), u, v) <=> before(q, u, v) /\ u # t /\ v # t
      BY <1>1, <1>2, DeleteKeepsOrder
    <3> QED BY <2>1, <2>2, <3>1, BeforeIn
  <2> QED BY <2>1, <2>2, <2>3 DEF Thinned, q
<1>3. CASE wspec[t] # g
  <2>1. wait_queue'[g] = q
    BY <1>1, <1>3 DEF wait_cancel
  <2> QED BY <1>1, <1>3, <2>1, ThinnedSelf
<1> QED BY <1>2, <1>3

(* A change of priority moves its task in a queue that is sorted, so that  *)
(* it stays sorted.                                                        *)
LEMMA ChangeKeepsSorted ==
  ASSUME IInv, NEW t \in Task, NEW p \in Priority, change_task_priority(t, p),
         NEW g \in TaTpri, SortedBy(wait_queue[g], priority)
  PROVE  /\ SortedBy(wait_queue'[g], priority')
         /\ ToSet(wait_queue'[g]) = ToSet(wait_queue[g])
<1> DEFINE q == wait_queue[g]
           d == queue_delete(q, t)
<1>1. /\ wait_queue \in [Gcb -> Seq(Task)] /\ q \in Queue(Task) /\ g \in Gcb
      /\ t \in ToSet(q) <=> wspec[t] = g
      /\ priority \in PriorityMap /\ priority' = [priority EXCEPT ![t] = p]
      /\ waiting(t) <=> wspec[t] # "none"
      /\ "none" \notin Gcb
  BY InWaitQueue, TaskCoreAssumption
  DEF IInv, WaitInv, WaitQueues, TypeOK, PriorityMap, change_task_priority
<1>2. priority' \in PriorityMap /\ \A u \in Task \ {t} : priority'[u] = priority[u]
  BY <1>1 DEF PriorityMap
<1>3. CASE wspec[t] = g
  <2>1. waiting(t)
    BY <1>1, <1>3
  <2>2. wait_queue'[g] = queue_insert_tpri(d, t, priority')
    BY <1>1, <1>3, <2>1 DEF change_task_priority, gcb_change_priority
  <2> HIDE DEF q
  <2>3. d \in Queue(Task) /\ ToSet(d) = ToSet(q) \ {t}
    BY <1>1, <1>3, QueueDelete
  <2>4. SortedBy(d, priority')
    <3>1. ASSUME NEW u, NEW v, before(d, u, v) PROVE priority'[u] <= priority'[v]
      <4>1. before(q, u, v) /\ u # t /\ v # t
        BY <1>1, <1>3, <3>1, DeleteKeepsOrder
      <4>2. u \in Task /\ v \in Task
        BY <1>1, <4>1, BeforeIn, QueueEntries
      <4> QED BY <1>2, <4>1, <4>2 DEF SortedBy, q
    <3> HIDE DEF d
    <3> QED BY <3>1 DEF SortedBy
  <2> HIDE DEF d
  <2>5. /\ ToSet(queue_insert_tpri(d, t, priority')) = ToSet(d) \cup {t}
        /\ SortedBy(queue_insert_tpri(d, t, priority'), priority')
    BY <1>2, <2>3, <2>4, InsertSorted
  <2> QED BY <1>1, <1>3, <2>2, <2>3, <2>5 DEF q
<1>4. CASE wspec[t] # g
  <2>1. wait_queue'[g] = q
    BY <1>1, <1>4 DEF change_task_priority, gcb_change_priority
  <2>2. \A u \in ToSet(q) : priority'[u] = priority[u]
    BY <1>1, <1>2, <1>4, QueueEntries
  <2> QED BY <2>1, <2>2, ThinnedSelf, ThinnedSorted
<1> QED BY <1>3, <1>4

(* Nobody enters the wait queue of an object by a task management call,    *)
(* and such a queue stays sorted; only chg_pri moves a task in it, and     *)
(* only if it is sorted by priority.                                       *)
LEMMA NextThins ==
  ASSUME IInv, [Next]_vars, NEW g \in Gcb
  PROVE  /\ ToSet(wait_queue'[g]) \subseteq ToSet(wait_queue[g])
         /\ g \notin TaTpri => Thinned(wait_queue[g], wait_queue'[g])
         /\ g \in TaTpri /\ SortedBy(wait_queue[g], priority)
              => SortedBy(wait_queue'[g], priority')
<1> DEFINE Kept == /\ Thinned(wait_queue[g], wait_queue'[g])
                   /\ \A t \in ToSet(wait_queue'[g]) : priority'[t] = priority[t]
<1>k. ASSUME Kept
      PROVE  /\ ToSet(wait_queue'[g]) \subseteq ToSet(wait_queue[g])
             /\ Thinned(wait_queue[g], wait_queue'[g])
             /\ SortedBy(wait_queue[g], priority) => SortedBy(wait_queue'[g], priority')
  BY <1>k, ThinnedSorted DEF Thinned
<1>i. /\ ToSet(wait_queue[g]) \subseteq Task
      /\ \A t \in ToSet(wait_queue[g]) : waiting(t)
      /\ priority \in PriorityMap
  BY TaskCoreAssumption DEF IInv, WaitInv, WaitQueues, TypeOK, PriorityMap
<1>e. ASSUME UNCHANGED waitvars, NEW t \in Task, ~waiting(t),
             \A u \in Task \ {t} : priority'[u] = priority[u]
      PROVE  Kept
  BY <1>i, <1>e, ThinnedSelf DEF waitvars
<1>u. ASSUME UNCHANGED waitvars, UNCHANGED priority
      PROVE  Kept
  BY <1>u, ThinnedSelf DEF waitvars
<1>w. ASSUME NEW t \in Task, wait_cancel(t), \A u \in Task \ {t} : priority'[u] = priority[u]
      PROVE  Kept
  <2>1. Thinned(wait_queue[g], wait_queue'[g]) /\ t \notin ToSet(wait_queue'[g])
    BY <1>w, WaitCancelThins
  <2> QED BY <1>i, <1>w, <2>1 DEF Thinned
<1>q. ASSUME UNCHANGED <<wait_queue, priority>>
      PROVE  Kept
  BY <1>q, ThinnedSelf
<1>1. CASE TaskCall
  <2>1. PICK t \in Task, pri \in Priority : CallOn(t, pri)
    BY <1>1, TaskManagementAssumption DEF TaskCall, CallOn
  <2>2. CASE ter_tsk(t)
    <3>1. \A u \in Task \ {t} : priority'[u] = priority[u]
      BY <2>2, <1>i DEF ter_tsk, make_dormant, PriorityMap
    <3>2. CASE waiting(t)
      BY <1>k, <1>w, <2>2, <3>1, <3>2 DEF ter_tsk, _ter_tsk
    <3>3. CASE ~waiting(t)
      BY <1>k, <1>e, <2>2, <3>1, <3>3 DEF ter_tsk, _ter_tsk
    <3> QED BY <3>2, <3>3
  <2>3. CASE rel_wai(t)
    BY <1>k, <1>w, <2>3 DEF rel_wai, wait_release, privars
  <2>4. CASE timer_handler(t)
    BY <1>k, <1>w, <2>4 DEF timer_handler, wait_release, privars
  <2>5. CASE wup_tsk(t)
    BY <1>k, <1>u, <1>w, <2>5 DEF wup_tsk, wait_release, privars
  <2>6. CASE cre_tsk(t, pri)
    <3>1. \A u \in Task \ {t} : priority'[u] = priority[u]
      BY <2>6, <1>i DEF cre_tsk, PriorityMap
    <3>2. ~waiting(t) /\ UNCHANGED waitvars
      BY <2>6 DEF cre_tsk, waiting, TS_WAIT
    <3> QED BY <1>k, <1>e, <3>1, <3>2
  <2>7. CASE chg_pri(t, pri)
    <3>1. change_task_priority(t, pri) /\ UNCHANGED wspec
      BY <2>7 DEF chg_pri
    <3>2. CASE g \in TaTpri
      <4>1. SortedBy(wait_queue[g], priority) =>
              /\ SortedBy(wait_queue'[g], priority')
              /\ ToSet(wait_queue'[g]) = ToSet(wait_queue[g])
        BY <3>1, <3>2, ChangeKeepsSorted
      <4>2. ToSet(wait_queue'[g]) = ToSet(wait_queue[g])
        <5>1. WaitQueues /\ WaitQueues'
          BY <3>1, WaitQueueReordered DEF IInv, WaitInv
        <5> QED BY <3>1, <5>1 DEF WaitQueues
      <4> QED BY <3>2, <4>1, <4>2
    <3>3. CASE g \notin TaTpri
      <4>1. wait_queue'[g] = wait_queue[g]
        BY <3>1, <3>3 DEF change_task_priority, gcb_change_priority, IInv, WaitInv, WaitQueues
      <4> QED BY <3>3, <4>1, ThinnedSelf
    <3> QED BY <3>2, <3>3
  <2>8. CASE del_tsk(t) \/ sta_tsk(t) \/ sus_tsk(t) \/ rsm_tsk(t) \/ frsm_tsk(t) \/ can_wup(t)
    <3>1. UNCHANGED waitvars /\ UNCHANGED priority
      BY <2>8 DEF del_tsk, sta_tsk, sus_tsk, rsm_tsk, frsm_tsk, can_wup, privars
    <3> QED BY <1>k, <1>u, <3>1
  <2> QED BY <2>1, <2>2, <2>3, <2>4, <2>5, <2>6, <2>7, <2>8 DEF CallOn
<1>2. CASE SelfCall
  <2>c. in_task => ctxtsk \in Task /\ ~waiting(ctxtsk)
    BY CallerTask DEF waiting, TS_WAIT
  <2>1. CASE ext_tsk
    <3>1. UNCHANGED waitvars /\ \A u \in Task \ {ctxtsk} : priority'[u] = priority[u]
      BY <1>i, <2>1, <2>c DEF ext_tsk, _ter_tsk, make_dormant, PriorityMap
    <3> QED BY <1>k, <1>e, <2>1, <2>c, <3>1 DEF ext_tsk
  <2>2. CASE exd_tsk
    <3>1. UNCHANGED waitvars /\ UNCHANGED priority
      BY <2>2, <2>c DEF exd_tsk, _ter_tsk, privars
    <3> QED BY <1>k, <1>u, <3>1
  <2>3. CASE dly_tsk \/ rot_rdq_run \/ (\E timed \in BOOLEAN : tslp_tsk(timed))
               \/ \E pri \in Priority : rot_rdq(pri)
    <3>1. UNCHANGED <<wait_queue, priority>>
      BY <2>3 DEF dly_tsk, rot_rdq_run, tslp_tsk, rot_rdq, waitvars, privars
    <3> QED BY <1>k, <1>q, <3>1
  <2> QED BY <1>2, <2>1, <2>2, <2>3 DEF SelfCall
<1>3. CASE CpuStep
  <2>1. UNCHANGED <<wait_queue, priority>>
    BY <1>3, CpuStepTasks DEF taskvars, waitvars, privars
  <2> QED BY <1>k, <1>q, <2>1
<1>4. CASE UNCHANGED vars
  <2>1. UNCHANGED <<wait_queue, priority>>
    BY <1>4 DEF vars, taskvars, waitvars, privars
  <2> QED BY <1>k, <1>q, <2>1
<1> QED BY <1>1, <1>2, <1>3, <1>4 DEF Next

-----------------------------------------------------------------------------
(***************************************************************************)
(* What the task management calls do to the states of the tasks.           *)
(***************************************************************************)
(* At most one task changes its state in a step, and it is created before  *)
(* it is started; the step begins no wait for a message or for the end of  *)
(* a rendezvous.                                                           *)
StateSteps ==
  /\ \E t \in Task : \A u \in Task \ {t} : state'[u] = state[u]
  /\ \A t \in Task : task_alive(t)' => state[t] # "NONEXIST"
  /\ \A t \in Task : wspec'[t] \in {"tmb", "rdv"} => wspec[t] = wspec'[t]

(* This is so if the step sets the state and the wait of one task.         *)
LEMMA OneSet ==
  ASSUME IInv, NEW t \in Task, NEW s, NEW w, w \notin {"tmb", "rdv"},
         state' = [state EXCEPT ![t] = s],
         s \in {"READY"} \cup TS_WAIT \cup TS_SUSPEND => state[t] # "NONEXIST",
         wspec' = wspec \/ wspec' = [wspec EXCEPT ![t] = w]
  PROVE  StateSteps
<1>1. state \in [Task -> TSTAT] /\ wspec \in [Task -> Gcb \cup {"none", "slp", "dly", "tmb", "rdv"}]
  BY DEF IInv, TypeOK
<1>2. \A u \in Task \ {t} : state'[u] = state[u]
  BY <1>1
<1>3. \A u \in Task : task_alive(u)' => state[u] # "NONEXIST"
  BY <1>1 DEF task_alive, TS_WAIT, TS_SUSPEND
<1>4. \A u \in Task : wspec'[u] \in {"tmb", "rdv"} => wspec[u] = wspec'[u]
  BY <1>1
<1> QED BY <1>2, <1>3, <1>4 DEF StateSteps

(* Or changes none of them.                                                *)
LEMMA NoneSet ==
  ASSUME IInv, UNCHANGED <<state, wspec>>
  PROVE  StateSteps
<1>1. \E t \in Task : \A u \in Task \ {t} : state'[u] = state[u]
  BY TaskManagementAssumption
<1>2. \A u \in Task : task_alive(u)' => state[u] # "NONEXIST"
  BY DEF task_alive, TS_WAIT, TS_SUSPEND
<1> QED BY <1>1, <1>2 DEF StateSteps

(* The steps of task management are such steps.                            *)
LEMMA NextStateSteps ==
  ASSUME IInv, [Next]_vars
  PROVE  StateSteps
<1>w. ASSUME NEW t \in Task, waiting(t), wait_release(t) PROVE StateSteps
  <2>1. \E s \in {"READY", "SUSPEND"} : state' = [state EXCEPT ![t] = s]
    BY <1>w DEF wait_release, make_non_wait, make_ready, set_state
  <2>2. wspec' = [wspec EXCEPT ![t] = "none"] /\ state[t] # "NONEXIST"
    BY <1>w DEF wait_release, wait_cancel, waiting, TS_WAIT
  <2>3. "none" \notin {"tmb", "rdv"}
    OBVIOUS
  <2> QED BY <2>1, <2>2, <2>3, OneSet
<1>n. ASSUME NEW t \in Task, NEW s \in {"DORMANT", "NONEXIST"}, _ter_tsk(t, s) PROVE StateSteps
  <2>1. state' = [state EXCEPT ![t] = s]
    BY <1>n DEF _ter_tsk, make_non_ready, set_state
  <2>2. wspec' = wspec \/ wspec' = [wspec EXCEPT ![t] = "none"]
    BY <1>n DEF _ter_tsk, wait_cancel, waitvars
  <2>3. s \notin {"READY"} \cup TS_WAIT \cup TS_SUSPEND
    BY DEF TS_WAIT, TS_SUSPEND
  <2> QED BY <2>1, <2>2, <2>3, OneSet
<1>r. ASSUME NEW t \in Task, state[t] \in TS_SUSPEND, resume(t), UNCHANGED wspec PROVE StateSteps
  <2>1. \E s \in {"READY", "WAIT"} : state' = [state EXCEPT ![t] = s]
    BY <1>r DEF resume, make_ready, set_state
  <2>2. state[t] # "NONEXIST"
    BY <1>r DEF TS_SUSPEND
  <2> QED BY <1>r, <2>1, <2>2, OneSet
<1>m. ASSUME in_task, ~in_ddsp, NEW w \in {"slp", "dly"}, NEW timed, make_wait(w, timed)
      PROVE  StateSteps
  <2>1. ctxtsk \in Task /\ state[ctxtsk] # "NONEXIST"
    BY <1>m, CallerTask
  <2>2. \E s \in TSTAT : state' = [state EXCEPT ![ctxtsk] = s]
    BY <1>m DEF make_wait, make_non_ready, set_state, TSTAT
  <2>3. wspec' = [wspec EXCEPT ![ctxtsk] = w] /\ w \notin {"tmb", "rdv"}
    BY <1>m DEF make_wait
  <2> QED BY <2>1, <2>2, <2>3, OneSet
<1>1. CASE TaskCall
  <2>1. PICK t \in Task, pri \in Priority : CallOn(t, pri)
    BY <1>1, TaskManagementAssumption DEF TaskCall, CallOn
  <2>2. CASE del_tsk(t)
    BY <2>2, OneSet DEF del_tsk, set_state, waitvars, TS_WAIT, TS_SUSPEND
  <2>3. CASE sta_tsk(t)
    BY <2>3, OneSet DEF sta_tsk, make_ready, waitvars
  <2>4. CASE ter_tsk(t)
    BY <1>n, <2>4 DEF ter_tsk
  <2>5. CASE rel_wai(t)
    BY <1>w, <2>5 DEF rel_wai
  <2>6. CASE sus_tsk(t)
    <3>1. UNCHANGED wspec /\ state[t] # "NONEXIST"
      BY <2>6 DEF sus_tsk, waitvars, task_alive, TS_WAIT, TS_SUSPEND
    <3>2. state' = state \/ \E s \in TSTAT : state' = [state EXCEPT ![t] = s]
      BY <2>6 DEF sus_tsk, make_non_ready, set_state, TSTAT
    <3> QED BY <3>1, <3>2, OneSet, NoneSet
  <2>7. CASE rsm_tsk(t)
    <3>1. UNCHANGED wspec /\ state[t] \in TS_SUSPEND /\ (resume(t) \/ UNCHANGED state)
      BY <2>7 DEF rsm_tsk, waitvars
    <3> QED BY <1>r, <3>1, NoneSet
  <2>8. CASE frsm_tsk(t)
    BY <1>r, <2>8 DEF frsm_tsk, waitvars
  <2>9. CASE wup_tsk(t)
    <3>1. (waiting(t) /\ wait_release(t)) \/ UNCHANGED <<state, wspec>>
      BY <2>9 DEF wup_tsk, waitvars
    <3> QED BY <1>w, <3>1, NoneSet
  <2>10. CASE can_wup(t)
    BY <2>10, NoneSet DEF can_wup, waitvars
  <2>11. CASE timer_handler(t)
    <3>1. waiting(t)
      BY <2>11 DEF timer_handler, IInv, WaitInv, TimeoutOnlyWhileWaiting
    <3> QED BY <1>w, <2>11, <3>1 DEF timer_handler
  <2>12. CASE cre_tsk(t, pri)
    BY <2>12, OneSet DEF cre_tsk, set_state, waitvars, TS_WAIT, TS_SUSPEND
  <2>13. CASE chg_pri(t, pri)
    BY <2>13, NoneSet DEF chg_pri
  <2> QED BY <2>1, <2>2, <2>3, <2>4, <2>5, <2>6, <2>7, <2>8, <2>9, <2>10, <2>11, <2>12, <2>13
          DEF CallOn
<1>2. CASE SelfCall
  <2>1. CASE ext_tsk
    <3>1. ctxtsk \in Task
      BY <2>1, CallerTask DEF ext_tsk
    <3> QED BY <1>n, <2>1, <3>1 DEF ext_tsk
  <2>2. CASE exd_tsk
    <3>1. ctxtsk \in Task
      BY <2>2, CallerTask DEF exd_tsk
    <3> QED BY <1>n, <2>2, <3>1 DEF exd_tsk
  <2>3. CASE dly_tsk
    BY <1>m, <2>3 DEF dly_tsk
  <2>4. CASE rot_rdq_run \/ \E pri \in Priority : rot_rdq(pri)
    <3>1. UNCHANGED <<state, wspec>>
      BY <2>4 DEF rot_rdq_run, rot_rdq, waitvars
    <3> QED BY <3>1, NoneSet
  <2>5. CASE \E timed \in BOOLEAN : tslp_tsk(timed)
    <3>1. PICK timed \in BOOLEAN : tslp_tsk(timed)
      BY <2>5
    <3>2. (in_task /\ ~in_ddsp /\ make_wait("slp", timed)) \/ UNCHANGED <<state, wspec>>
      BY <3>1 DEF tslp_tsk, waitvars
    <3> QED BY <1>m, <3>2, NoneSet
  <2> QED BY <1>2, <2>1, <2>2, <2>3, <2>4, <2>5 DEF SelfCall
<1>3. CASE CpuStep \/ UNCHANGED vars
  <2>1. UNCHANGED <<state, wspec>>
    BY <1>3, CpuStepTasks DEF vars, taskvars, waitvars
  <2> QED BY <2>1, NoneSet
<1> QED BY <1>1, <1>2, <1>3 DEF Next

(* A call about a task is a step of the system.                            *)
LEMMA CallIsStep ==
  ASSUME NEW t \in Task, NEW pri \in Priority, CallOn(t, pri)
  PROVE  Next
BY DEF CallOn, Next, TaskCall

(* What the instances of the objects let tasks do is what tasks can do.    *)
LEMMA InstanceSteps ==
  ASSUME AloneStep \/ WaitStep \/ LifeStep \/ TaskStep
  PROVE  Next
<1>1. CASE AloneStep
  <2>1. CASE \E t \in Task : rel_wai(t) \/ timer_handler(t)
    BY <2>1, CallIsStep, TaskManagementAssumption DEF CallOn
  <2> QED BY <1>1, <2>1 DEF AloneStep, Next, CpuStep
<1>2. CASE WaitStep
  <2>1. CASE \E t \in Task : ter_tsk(t) \/ sus_tsk(t) \/ rsm_tsk(t)
    BY <2>1, CallIsStep, TaskManagementAssumption DEF CallOn
  <2>2. CASE ext_tsk
    BY <2>2 DEF Next, SelfCall
  <2> QED BY <1>1, <1>2, <2>1, <2>2 DEF WaitStep
<1>3. CASE LifeStep
  BY <1>3, CallIsStep, TaskManagementAssumption DEF LifeStep, CallOn
<1>4. CASE TaskStep
  <2>1. CASE \E t \in Task : del_tsk(t) \/ \E pri \in Priority : chg_pri(t, pri)
    BY <2>1, CallIsStep, TaskManagementAssumption DEF CallOn
  <2>2. CASE exd_tsk
    BY <2>2 DEF Next, SelfCall
  <2> QED BY <1>2, <1>3, <1>4, <2>1, <2>2 DEF TaskStep
<1> QED BY <1>1, <1>2, <1>3, <1>4

-----------------------------------------------------------------------------
(***************************************************************************)
(* The order of precedence.                                                *)
(***************************************************************************)
(* The pairs of tasks of S of which the first precedes the second.         *)
Ahead(S, rq, pri) ==
  {pair \in S \X S : \/ pri[pair[1]] < pri[pair[2]]
                     \/ before(rq.tskque[pri[pair[1]]], pair[1], pair[2])}

Holds(rq, S, pri) ==
  S \in SUBSET Task /\ pri \in PriorityMap /\ Consistent(rq, S, pri)

Agree(S, pri, pri2) == \A u \in S : pri2[u] = pri[u]

Staying(pairs, t) == {pair \in pairs : t \notin {pair[1], pair[2]}}

(* Of a queue that holds each task of S of a priority once.                *)
LEMMA InOneQueue ==
  ASSUME NEW S, NEW pri, NEW rq, Holds(rq, S, pri),
         NEW k \in Priority, NEW u, NEW v, before(rq.tskque[k], u, v)
  PROVE  u \in S /\ v \in S /\ pri[u] = k /\ pri[v] = k
<1> USE DEF Holds
<1>1. ToSet(rq.tskque[k]) = {t \in S : pri[t] = k}
  BY ConsistentQueues DEF QueueOf
<1> QED BY <1>1, BeforeIn

(* A task that is queued goes behind the tasks of its priority.            *)
LEMMA InsertPlaces ==
  ASSUME NEW S, NEW pri, NEW rq, Holds(rq, S, pri),
         NEW t \in Task \ S
  PROVE  Ahead(S \cup {t}, ready_queue_insert(rq, t, pri[t]), pri)
           = Ahead(S, rq, pri) \cup Order!Place(t, S, pri)
<1> USE DEF Holds
<1> DEFINE p   == pri[t]
           q   == rq.tskque[p]
           new == ready_queue_insert(rq, t, p)
<1>r. \A u \in Task : pri[u] \in Priority
  BY DEF PriorityMap
<1>p. \A u \in Task : pri[u] \in Int
  BY <1>r DEF Priority
<1>1. q \in Queue(Task) /\ ToSet(q) = {u \in S : pri[u] = p}
  <2>1. p \in Priority
    BY <1>r
  <2> QED BY <2>1, ConsistentQueues DEF QueueOf
<1>2. /\ new.tskque[p] = Append(q, t)
      /\ \A k \in Priority \ {p} : new.tskque[k] = rq.tskque[k]
  BY <1>r DEF ready_queue_insert, Consistent, RDYQUE
<1> HIDE DEF q, new
<1>3. ASSUME NEW u \in S \cup {t}, NEW v \in S \cup {t}
      PROVE  before(new.tskque[pri[u]], u, v)
               <=> before(rq.tskque[pri[u]], u, v) \/ (v = t /\ u \in S /\ pri[u] = p)
  <2>1. CASE pri[u] = p
    <3>1. before(Append(q, t), u, v) <=> before(q, u, v) \/ (v = t /\ u \in ToSet(q))
      BY <1>1, AppendKeepsOrder DEF Queue
    <3> QED BY <1>1, <1>2, <2>1, <3>1 DEF q
  <2>2. CASE pri[u] # p
    <3>1. new.tskque[pri[u]] = rq.tskque[pri[u]] /\ ~(u \in S /\ pri[u] = p)
      BY <1>r, <1>2, <2>2
    <3> QED BY <3>1
  <2> QED BY <2>1, <2>2
<1>4. ASSUME NEW u \in S \cup {t}, NEW v \in S \cup {t}
      PROVE  (pri[u] < pri[v] \/ before(new.tskque[pri[u]], u, v))
               <=> \/ u \in S /\ v \in S /\ (pri[u] < pri[v] \/ before(rq.tskque[pri[u]], u, v))
                   \/ v = t /\ u \in S /\ pri[u] <= pri[t]
                   \/ u = t /\ v \in S /\ pri[v] > pri[t]
  <2>1. before(rq.tskque[pri[u]], u, v) => u \in S /\ v \in S
    <3>1. pri[u] \in Priority
      BY <1>r
    <3> QED BY <3>1, InOneQueue
  <2> QED BY <1>p, <1>3, <2>1
<1>5. Order!Place(t, S, pri)
        = {<<u, t>> : u \in {v \in S : pri[v] <= pri[t]}}
            \cup {<<t, u>> : u \in {v \in S : pri[v] > pri[t]}}
  BY DEF Order!Place
<1>6. ASSUME NEW u, NEW v
      PROVE  <<u, v>> \in Ahead(S \cup {t}, new, pri)
               <=> <<u, v>> \in Ahead(S, rq, pri) \cup Order!Place(t, S, pri)
  <2>1. <<u, v>> \in Ahead(S \cup {t}, new, pri)
          <=> /\ u \in S \cup {t} /\ v \in S \cup {t}
              /\ pri[u] < pri[v] \/ before(new.tskque[pri[u]], u, v)
    BY DEF Ahead
  <2>2. <<u, v>> \in Ahead(S, rq, pri)
          <=> u \in S /\ v \in S /\ (pri[u] < pri[v] \/ before(rq.tskque[pri[u]], u, v))
    BY DEF Ahead
  <2>3. <<u, v>> \in Order!Place(t, S, pri)
          <=> \/ v = t /\ u \in S /\ pri[u] <= pri[t]
              \/ u = t /\ v \in S /\ pri[v] > pri[t]
    BY <1>5
  <2> QED BY <1>4, <2>1, <2>2, <2>3
<1>7. /\ Ahead(S \cup {t}, new, pri) \subseteq (S \cup {t}) \X (S \cup {t})
      /\ Ahead(S, rq, pri) \cup Order!Place(t, S, pri) \subseteq (S \cup {t}) \X (S \cup {t})
  BY <1>5 DEF Ahead
<1> HIDE DEF p
<1>8. Ahead(S \cup {t}, new, pri) = Ahead(S, rq, pri) \cup Order!Place(t, S, pri)
  BY <1>6, <1>7
<1> QED BY <1>8 DEF new, p

(* The tasks that stay when one leaves keep their order, whatever the      *)
(* priority of the one that leaves becomes.                                *)
LEMMA DeletePlaces ==
  ASSUME NEW S, NEW pri, NEW rq, Holds(rq, S, pri),
         NEW t \in S, NEW pri2, Agree(S \ {t}, pri, pri2)
  PROVE  Ahead(S \ {t}, ready_queue_delete(rq, t, pri[t]), pri2)
           = Staying(Ahead(S, rq, pri), t)
<1> USE DEF Holds
<1> DEFINE p   == pri[t]
           q   == rq.tskque[p]
           new == ready_queue_delete(rq, t, p)
<1>p. \A u \in Task : pri[u] \in Priority
  BY DEF PriorityMap
<1>1. q \in Queue(Task) /\ ToSet(q) = {u \in S : pri[u] = p}
  <2>1. p \in Priority
    BY <1>p
  <2> QED BY <2>1, ConsistentQueues DEF QueueOf
<1>2. /\ new.tskque[p] = queue_delete(q, t)
      /\ \A k \in Priority \ {p} : new.tskque[k] = rq.tskque[k]
  BY <1>p DEF ready_queue_delete, Consistent, RDYQUE
<1> HIDE DEF q, new
<1>3. ASSUME NEW u \in S \ {t}, NEW v \in S \ {t}
      PROVE  before(new.tskque[pri[u]], u, v) <=> before(rq.tskque[pri[u]], u, v)
  <2>1. CASE pri[u] = p
    <3>1. before(queue_delete(q, t), u, v) <=> before(q, u, v)
      BY <1>1, DeleteKeepsOrder
    <3> QED BY <1>2, <2>1, <3>1 DEF q
  <2>2. CASE pri[u] # p
    BY <1>p, <1>2, <2>2
  <2> QED BY <2>1, <2>2
<1>4. ASSUME NEW u, NEW v
      PROVE  <<u, v>> \in Ahead(S \ {t}, new, pri2)
               <=> <<u, v>> \in Ahead(S, rq, pri) /\ u # t /\ v # t
  BY <1>3 DEF Ahead, Agree
<1>5. Ahead(S \ {t}, new, pri2) \subseteq S \X S /\ Ahead(S, rq, pri) \subseteq S \X S
  BY DEF Ahead
<1>6. Ahead(S \ {t}, new, pri2)
        = Staying(Ahead(S, rq, pri), t)
  <2>1. ASSUME NEW pair \in S \X S
        PROVE  pair \in Ahead(S \ {t}, new, pri2)
                 <=> pair \in Ahead(S, rq, pri) /\ t \notin {pair[1], pair[2]}
    <3>1. PICK u \in S, v \in S : pair = <<u, v>>
      OBVIOUS
    <3>2. <<u, v>> \in Ahead(S \ {t}, new, pri2)
            <=> <<u, v>> \in Ahead(S, rq, pri) /\ u # t /\ v # t
      BY <1>4
    <3> QED BY <3>1, <3>2
  <2> QED BY <1>5, <2>1 DEF Staying
<1> QED BY <1>6 DEF new, p

(* The head of the ready queue is ahead of all others.                     *)
LEMMA TopIsFirst ==
  ASSUME NEW S, NEW pri, NEW rq, Holds(rq, S, pri)
  PROVE  LET top == ready_queue_top(rq) IN
         \/ S = {} /\ top = NoTask
         \/ top \in S /\ \A u \in S \ {top} : <<top, u>> \in Ahead(S, rq, pri)
<1> USE DEF Holds
<1> DEFINE top == ready_queue_top(rq)
           q   == rq.tskque[pri[top]]
<1>1. /\ rq.top_priority = NUM_PRI <=> S = {}
      /\ S = {} => top = NoTask
      /\ S # {} => top \in S /\ pri[top] = rq.top_priority
      /\ \A u \in S : pri[u] >= rq.top_priority
  BY ReadyQueueTop
<1>r. \A u \in Task : pri[u] \in Priority
  BY DEF PriorityMap
<1>p. \A u \in Task : pri[u] \in Int
  BY <1>r DEF Priority
<1>2. ASSUME NEW u \in S \ {top}
      PROVE  <<top, u>> \in Ahead(S, rq, pri)
  <2>1. top \in S /\ top = Head(q) /\ pri[top] <= pri[u]
    BY <1>1, <1>p DEF ready_queue_top
  <2>2. CASE pri[u] = pri[top]
    <3>1. q \in Queue(Task) /\ ToSet(q) = {v \in S : pri[v] = pri[top]}
      <4>1. pri[top] \in Priority
        BY <1>r, <2>1
      <4> QED BY <4>1, ConsistentQueues DEF QueueOf
    <3> HIDE DEF q, top
    <3>2. /\ q \in Seq(Task) /\ Len(q) \in Nat /\ DOMAIN q = 1 .. Len(q)
          /\ ToSet(q) = {q[j] : j \in 1 .. Len(q)}
      BY <3>1, QueueEntries
    <3>3. PICK j \in 1 .. Len(q) : q[j] = u
      BY <2>2, <3>1, <3>2
    <3>4. q[1] = top /\ 1 \in 1 .. Len(q) /\ j # 1
      BY <2>1, <3>2, <3>3
    <3>5. before(q, top, u)
      BY <3>2, <3>3, <3>4 DEF before
    <3> QED BY <2>1, <3>5 DEF Ahead, q
  <2>3. CASE pri[u] # pri[top]
    BY <1>p, <2>1, <2>3 DEF Ahead
  <2> QED BY <2>2, <2>3
<1> QED BY <1>1, <1>2

(* A rotation takes the head out of its queue and queues it again.         *)
LEMMA RotateIsRequeue ==
  ASSUME NEW S, NEW pri, NEW rq, Holds(rq, S, pri),
         NEW p \in Priority, rq.tskque[p] # << >>
  PROVE  LET h == Head(rq.tskque[p]) IN
         /\ h \in S /\ pri[h] = p
         /\ ready_queue_rotate(rq, p).tskque
              = ready_queue_insert(ready_queue_delete(rq, h, p), h, p).tskque
<1> USE DEF Holds
<1> DEFINE q == rq.tskque[p]
           h == Head(q)
<1>1. /\ q \in Queue(Task) /\ ToSet(q) = {u \in S : pri[u] = p}
      /\ h \in ToSet(q)
  BY ConsistentQueues DEF QueueOf
<1>q. /\ rq.tskque \in [Priority -> Seq(Task)]
      /\ rq = [top_priority |-> rq.top_priority, tskque |-> rq.tskque, bitmap |-> rq.bitmap]
  BY DEF Consistent, RDYQUE
<1>2. ready_queue_rotate(rq, p).tskque = [rq.tskque EXCEPT ![p] = Append(Tail(q), h)]
  BY <1>q DEF ready_queue_rotate
<1>3. ready_queue_delete(rq, h, p).tskque = [rq.tskque EXCEPT ![p] = queue_delete(q, h)]
  BY <1>q DEF ready_queue_delete
<1>4. ready_queue_insert(ready_queue_delete(rq, h, p), h, p).tskque
        = [rq.tskque EXCEPT ![p] = Append(queue_delete(q, h), h)]
  BY <1>q, <1>3 DEF ready_queue_insert
<1>5. queue_delete(q, h) = Tail(q)
  <2>1. /\ q \in Seq(Task) /\ Len(q) \in Nat /\ q # << >>
        /\ \A j, k \in 1 .. Len(q) : q[j] = q[k] => j = k
    BY <1>1, QueueEntries
  <2>2. PICK i \in 1 .. Len(q) : q[i] = h /\ queue_delete(q, h) = RemoveAt(q, i)
    BY <1>1, QueueDeleteAt
  <2> HIDE DEF q
  <2>3. i = 1
    BY <2>1, <2>2
  <2>4. /\ RemoveAt(q, 1) \in Seq(Task) /\ Len(RemoveAt(q, 1)) = Len(q) - 1
        /\ \A j \in 1 .. Len(q) - 1 :
             RemoveAt(q, 1)[j] = IF j < 1 THEN q[j] ELSE q[j + 1]
    BY <2>1, <2>3, RemoveAtEntries
  <2>5. /\ Tail(q) \in Seq(Task) /\ Len(Tail(q)) = Len(q) - 1
        /\ \A j \in 1 .. Len(q) - 1 : Tail(q)[j] = q[j + 1]
    BY <2>1
  <2>6. RemoveAt(q, 1) = Tail(q)
    <3> DEFINE r == RemoveAt(q, 1)
               s == Tail(q)
    <3>1. r \in Seq(Task) /\ s \in Seq(Task) /\ Len(r) = Len(s)
      BY <2>4, <2>5
    <3>2. \A j \in 1 .. Len(s) : r[j] = s[j]
      BY <2>1, <2>4, <2>5
    <3> HIDE DEF r, s
    <3>3. r = s
      BY <3>1, <3>2, SeqEqual
    <3> QED BY <3>3 DEF r, s
  <2> QED BY <2>2, <2>3, <2>6
<1> QED BY <1>1, <1>2, <1>4, <1>5

(* A task that is queued again goes behind the tasks of its new priority.  *)
LEMMA RequeuePlaces ==
  ASSUME NEW S, NEW pri, NEW rq, Holds(rq, S, pri), NEW t \in S,
         NEW pri2 \in PriorityMap, Agree(S \ {t}, pri, pri2)
  PROVE  Ahead(S, ready_queue_insert(ready_queue_delete(rq, t, pri[t]), t, pri2[t]), pri2)
           = Staying(Ahead(S, rq, pri), t) \cup Order!Place(t, S \ {t}, pri2)
<1> DEFINE rest == ready_queue_delete(rq, t, pri[t])
           R    == S \ {t}
<1>1. R \in SUBSET Task /\ t \in Task \ R /\ R \cup {t} = S
  BY DEF Holds
<1>2. Consistent(rest, R, pri)
  BY ReadyQueueDelete DEF Holds
<1>3. Ahead(R, rest, pri2) = Staying(Ahead(S, rq, pri), t)
  BY DeletePlaces
<1>4. Agree(R, pri, pri2)
  OBVIOUS
<1> HIDE DEF rest, R
<1>5. Holds(rest, R, pri2)
  BY <1>1, <1>2, <1>4, OtherPriorities DEF Holds, Agree
<1>6. Ahead(R \cup {t}, ready_queue_insert(rest, t, pri2[t]), pri2)
        = Ahead(R, rest, pri2) \cup Order!Place(t, R, pri2)
  BY <1>1, <1>5, InsertPlaces
<1> QED BY <1>1, <1>3, <1>6 DEF rest, R

(* What ahead is in the model, before and after a step.                    *)
LEMMA AheadIs ==
  /\ {pair \in ReadyTasks \X ReadyTasks : Precedes(pair[1], pair[2])}
       = Ahead(ReadyTasks, ready_queue, priority)
  /\ {pair \in ReadyTasks \X ReadyTasks : Precedes(pair[1], pair[2])}'
       = Ahead(ReadyTasks', ready_queue', priority')
BY DEF Ahead, Precedes

(* schedtsk is elected.                                                    *)
LEMMA Elected ==
  ASSUME StateType', SchedInv'
  PROVE  Order!ElectFirst
<1>1. Holds(ready_queue', ReadyTasks', priority') /\ schedtsk' = ready_queue_top(ready_queue')
  BY DEF ReadyTasks, StateType, PriorityMap, SchedInv, SchedtskIsTop, Holds
<1>2. \/ ReadyTasks' = {} /\ schedtsk' = NoTask
      \/ schedtsk' \in ReadyTasks'
         /\ \A u \in ReadyTasks' \ {schedtsk'} :
              <<schedtsk', u>> \in Ahead(ReadyTasks', ready_queue', priority')
  BY <1>1, TopIsFirst
<1> QED BY <1>2, AheadIs DEF Order!ElectFirst, Order!IsFirst

(* What is known of a consistent state.                                    *)
LEMMA QueueHolds ==
  ASSUME StateType, SchedInv
  PROVE  Holds(ready_queue, ReadyTasks, priority)
BY DEF Holds, ReadyTasks, StateType, PriorityMap, SchedInv

(* A task becomes ready.                                                   *)
LEMMA MakeReadyEnters ==
  ASSUME StateType, SchedInv, StateType', SchedInv', NEW t \in Task, state[t] # "READY",
         make_ready(t), priority' = priority
  PROVE  Order!Enter(t)
<1>1. t \in Task \ ReadyTasks /\ ReadyTasks' = ReadyTasks \cup {t}
  BY DEF ReadyTasks, make_ready, StateType
<1>2. Ahead(ReadyTasks \cup {t}, ready_queue', priority)
        = Ahead(ReadyTasks, ready_queue, priority) \cup Order!Place(t, ReadyTasks, priority)
  BY <1>1, QueueHolds, InsertPlaces DEF make_ready
<1> QED BY <1>1, <1>2, AheadIs, Elected DEF Order!Enter

(* A task is no longer ready.                                              *)
LEMMA MakeNonReadyLeaves ==
  ASSUME StateType, SchedInv, StateType', SchedInv', NEW t \in Task, state[t] = "READY",
         NEW s, s # "READY", make_non_ready(t, s),
         NEW p \in Priority, priority' = [priority EXCEPT ![t] = p]
  PROVE  Order!Leave(t, p)
<1>1. t \in ReadyTasks /\ ReadyTasks' = ReadyTasks \ {t}
  BY DEF ReadyTasks, make_non_ready, StateType
<1>2. Agree(ReadyTasks \ {t}, priority, priority')
  BY DEF StateType, ReadyTasks, Agree
<1>3. Ahead(ReadyTasks \ {t}, ready_queue', priority')
        = Staying(Ahead(ReadyTasks, ready_queue, priority), t)
  <2>1. Holds(ready_queue, ReadyTasks, priority)
    BY QueueHolds
  <2>2. Ahead(ReadyTasks \ {t}, ready_queue_delete(ready_queue, t, priority[t]), priority')
          = Staying(Ahead(ReadyTasks, ready_queue, priority), t)
    BY <1>1, <1>2, <2>1, DeletePlaces
  <2> QED BY <2>2 DEF make_non_ready
<1> QED BY <1>1, <1>3, AheadIs, Elected DEF Order!Leave, Order!Without, Staying

(* The priority of a task that is not ready is set.                        *)
LEMMA SetStatePriority ==
  ASSUME StateType, SchedInv, NEW t \in Task, state[t] # "READY",
         NEW s, s # "READY", state' = [state EXCEPT ![t] = s], UNCHANGED schedvars,
         NEW p \in Priority, priority' = [priority EXCEPT ![t] = p]
  PROVE  Order!SetPriority(t, p)
<1>1. t \notin ReadyTasks /\ ReadyTasks' = ReadyTasks
  BY DEF ReadyTasks, StateType
<1>2. \A u \in ReadyTasks : priority'[u] = priority[u]
  BY <1>1, QueueHolds DEF PriorityMap
<1>3. Ahead(ReadyTasks, ready_queue, priority') = Ahead(ReadyTasks, ready_queue, priority)
  BY <1>2 DEF Ahead
<1> QED BY <1>1, <1>3, AheadIs DEF Order!SetPriority, schedvars

(* A task is queued again.                                                 *)
Requeued(t, p) ==
  ready_queue'.tskque
    = ready_queue_insert(ready_queue_delete(ready_queue, t, priority[t]), t, p).tskque

LEMMA RequeuedPlaces ==
  ASSUME StateType, SchedInv, NEW t \in ReadyTasks, NEW pri2 \in PriorityMap,
         Agree(ReadyTasks \ {t}, priority, pri2)
  PROVE  Requeued(t, pri2[t]) =>
           Ahead(ReadyTasks, ready_queue', pri2)
             = Staying(Ahead(ReadyTasks, ready_queue, priority), t)
                 \cup Order!Place(t, ReadyTasks \ {t}, pri2)
<1> DEFINE new == ready_queue_insert(ready_queue_delete(ready_queue, t, priority[t]), t, pri2[t])
<1>1. Holds(ready_queue, ReadyTasks, priority)
  BY QueueHolds
<1>2. Ahead(ReadyTasks, new, pri2)
        = Staying(Ahead(ReadyTasks, ready_queue, priority), t)
            \cup Order!Place(t, ReadyTasks \ {t}, pri2)
  BY <1>1, RequeuePlaces
<1>3. Requeued(t, pri2[t]) => Ahead(ReadyTasks, new, pri2) = Ahead(ReadyTasks, ready_queue', pri2)
  BY DEF Requeued, Ahead
<1> HIDE DEF new
<1> QED BY <1>2, <1>3

LEMMA Requeues ==
  ASSUME StateType, SchedInv, StateType', SchedInv', NEW t \in ReadyTasks,
         UNCHANGED state,
         NEW p \in Priority, priority' = [priority EXCEPT ![t] = p], Requeued(t, p)
  PROVE  Order!Requeue(t, p)
<1>1. ReadyTasks' = ReadyTasks /\ t \in Task
  BY DEF ReadyTasks
<1>2. /\ priority'[t] = p /\ Agree(ReadyTasks \ {t}, priority, priority')
      /\ priority' \in PriorityMap
  BY <1>1 DEF StateType, ReadyTasks, Agree, PriorityMap
<1>3. Ahead(ReadyTasks, ready_queue', priority')
        = Staying(Ahead(ReadyTasks, ready_queue, priority), t)
            \cup Order!Place(t, ReadyTasks \ {t}, priority')
  BY <1>2, RequeuedPlaces
<1> QED BY <1>1, <1>3, AheadIs, Elected DEF Order!Requeue, Order!Without, Staying

(* A change of priority queues a ready task again.                         *)
LEMMA ChangeRequeues ==
  ASSUME StateType, SchedInv, StateType', SchedInv', NEW t \in Task, NEW p \in Priority,
         change_task_priority(t, p), UNCHANGED state
  PROVE  Order!Requeue(t, p) \/ Order!SetPriority(t, p)
<1>1. priority' = [priority EXCEPT ![t] = p]
  BY DEF change_task_priority
<1>2. CASE state[t] = "READY"
  <2>1. t \in ReadyTasks
    BY <1>2 DEF ReadyTasks
  <2>2. Requeued(t, p)
    BY <1>2 DEF change_task_priority, Requeued
  <2> QED BY <1>1, <2>1, <2>2, Requeues
<1>3. CASE state[t] # "READY"
  <2>1. state' = [state EXCEPT ![t] = state[t]] /\ UNCHANGED schedvars
    BY <1>3 DEF change_task_priority, StateType
  <2> QED BY <1>1, <1>3, <2>1, SetStatePriority
<1> QED BY <1>2, <1>3

(* A rotation queues the head of a queue again, or does nothing.           *)
LEMMA RotateRequeues ==
  ASSUME StateType, SchedInv, StateType', SchedInv', NEW p \in Priority,
         rotate_ready_queue(p), UNCHANGED <<state, priority>>
  PROVE  Order!Next \/ UNCHANGED <<ReadyTasks, priority, ready_queue, schedtsk>>
<1>1. CASE ready_queue.tskque[p] = << >>
  <2>1. ready_queue' = ready_queue
    BY <1>1 DEF rotate_ready_queue, ready_queue_rotate
  <2>2. schedtsk' = schedtsk
    BY <2>1 DEF SchedInv, SchedtskIsTop
  <2> QED BY <2>1, <2>2 DEF ReadyTasks
<1>2. CASE ready_queue.tskque[p] # << >>
  <2> DEFINE h == Head(ready_queue.tskque[p])
  <2>1. /\ h \in ReadyTasks /\ priority[h] = p
        /\ ready_queue'.tskque
             = ready_queue_insert(ready_queue_delete(ready_queue, h, p), h, p).tskque
    <3>1. Holds(ready_queue, ReadyTasks, priority)
      BY QueueHolds
    <3> QED BY <1>2, <3>1, RotateIsRequeue DEF rotate_ready_queue
  <2> HIDE DEF h
  <2>2. priority' = [priority EXCEPT ![h] = p]
    BY <2>1 DEF StateType
  <2>3. Order!Requeue(h, p)
    BY <2>1, <2>2, Requeues DEF Requeued
  <2>4. h \in Task
    BY <2>1 DEF ReadyTasks
  <2> QED BY <2>3, <2>4 DEF Order!Next
<1> QED BY <1>1, <1>2

(* A step that is one of Precedence, or changes nothing it looks at.       *)
Orderly == Order!Next \/ UNCHANGED <<ReadyTasks, priority, ready_queue, schedtsk>>

Consistently == IInv /\ StateType' /\ SchedInv'

(* The operations of task.c, when they are called as they may be.          *)
LEMMA ReadyOrderly ==
  ASSUME Consistently, NEW t \in Task, state[t] # "READY", make_ready(t), priority' = priority
  PROVE  Orderly
<1>1. StateType /\ SchedInv
  BY DEF Consistently, IInv, TypeOK, StateType
<1>2. Order!Enter(t)
  BY <1>1, MakeReadyEnters DEF Consistently
<1> QED BY <1>2 DEF Orderly, Order!Next

(* make_non_ready, or set_state of a task that is not ready, with a change *)
(* of priority.                                                            *)
LEMMA EndOrderly ==
  ASSUME Consistently, NEW t \in Task, NEW s, s # "READY",
         IF state[t] = "READY" THEN make_non_ready(t, s) ELSE set_state(t, s),
         NEW p \in Priority, priority' = [priority EXCEPT ![t] = p]
  PROVE  Orderly
<1>1. StateType /\ SchedInv /\ StateType' /\ SchedInv'
  BY DEF Consistently, IInv, TypeOK, StateType
<1>2. CASE state[t] = "READY"
  <2>1. Order!Leave(t, p)
    BY <1>1, <1>2, MakeNonReadyLeaves
  <2> QED BY <2>1 DEF Orderly, Order!Next
<1>3. CASE state[t] # "READY"
  <2>1. Order!SetPriority(t, p)
    BY <1>1, <1>3, SetStatePriority DEF set_state
  <2> QED BY <2>1 DEF Orderly, Order!Next
<1> QED BY <1>2, <1>3

(* The same with the priority left as it is.                               *)
LEMMA StopOrderly ==
  ASSUME Consistently, NEW t \in Task, NEW s, s # "READY",
         IF state[t] = "READY" THEN make_non_ready(t, s) ELSE set_state(t, s),
         priority' = priority
  PROVE  Orderly
<1>1. priority[t] \in Priority /\ priority' = [priority EXCEPT ![t] = priority[t]]
  BY DEF Consistently, IInv, TypeOK
<1> QED BY <1>1, EndOrderly

(* A step that does not touch the ready queue.                             *)
LEMMA IdleOrderly ==
  ASSUME UNCHANGED <<state, priority, schedvars>>
  PROVE  Orderly
  BY DEF Orderly, ReadyTasks, schedvars

(* wait_release and resume.                                                *)
LEMMA ReleaseOrderly ==
  ASSUME Consistently, NEW t \in Task, waiting(t), wait_release(t), priority' = priority
  PROVE  Orderly
<1>1. CASE state[t] = "WAIT"
  BY <1>1, ReadyOrderly DEF wait_release, make_non_wait
<1>2. CASE state[t] # "WAIT"
  <2>1. state[t] # "READY" /\ set_state(t, "SUSPEND")
    BY <1>2 DEF wait_release, make_non_wait, waiting, TS_WAIT
  <2> QED BY <2>1, StopOrderly
<1> QED BY <1>1, <1>2

LEMMA ResumeOrderly ==
  ASSUME Consistently, NEW t \in Task, state[t] \in TS_SUSPEND, resume(t), priority' = priority
  PROVE  Orderly
<1>1. CASE state[t] = "SUSPEND"
  BY <1>1, ReadyOrderly DEF resume
<1>2. CASE state[t] # "SUSPEND"
  <2>1. state[t] # "READY" /\ set_state(t, "WAIT")
    BY <1>2 DEF resume, TS_SUSPEND
  <2> QED BY <2>1, StopOrderly
<1> QED BY <1>1, <1>2

(* Every call about a task.                                                *)
LEMMA TaskCallOrderly ==
  ASSUME Consistently, NEW t \in Task, NEW pri \in Priority, CallOn(t, pri)
  PROVE  Orderly
<1>i. /\ state \in [Task -> TSTAT] /\ priority \in [Task -> Priority]
      /\ ipriority \in [Task -> Priority]
  BY DEF Consistently, IInv, TypeOK
<1>1. CASE del_tsk(t)
  BY <1>1, StopOrderly DEF del_tsk, privars
<1>2. CASE sta_tsk(t)
  BY <1>2, ReadyOrderly DEF sta_tsk, privars
<1>3. CASE ter_tsk(t)
  <2>1. priority' = [priority EXCEPT ![t] = ipriority[t]] /\ ipriority[t] \in Priority
    BY <1>i, <1>3 DEF ter_tsk, make_dormant
  <2>2. IF state[t] = "READY" THEN make_non_ready(t, "DORMANT") ELSE set_state(t, "DORMANT")
    BY <1>3 DEF ter_tsk, _ter_tsk
  <2> QED BY <2>1, <2>2, EndOrderly
<1>4. CASE rel_wai(t)
  BY <1>4, ReleaseOrderly DEF rel_wai, privars
<1>5. CASE sus_tsk(t)
  <2>1. priority' = priority
    BY <1>5 DEF sus_tsk, privars
  <2>2. CASE state[t] = "READY"
    BY <1>5, <2>1, <2>2, StopOrderly DEF sus_tsk
  <2>3. CASE state[t] = "WAIT"
    BY <1>5, <2>1, <2>3, StopOrderly DEF sus_tsk
  <2>4. CASE state[t] \notin {"READY", "WAIT"}
    BY <1>5, <2>1, <2>4, IdleOrderly DEF sus_tsk
  <2> QED BY <2>2, <2>3, <2>4
<1>6. CASE rsm_tsk(t)
  <2>1. priority' = priority /\ state[t] \in TS_SUSPEND
    BY <1>6 DEF rsm_tsk, privars
  <2>2. CASE suscnt[t] = 1
    BY <1>6, <2>1, <2>2, ResumeOrderly DEF rsm_tsk
  <2>3. CASE suscnt[t] # 1
    BY <1>6, <2>1, <2>3, IdleOrderly DEF rsm_tsk
  <2> QED BY <2>2, <2>3
<1>7. CASE frsm_tsk(t)
  BY <1>7, ResumeOrderly DEF frsm_tsk, privars
<1>8. CASE wup_tsk(t)
  <2>1. priority' = priority
    BY <1>8 DEF wup_tsk, privars
  <2>2. CASE waiting(t) /\ wspec[t] = "slp"
    BY <1>8, <2>1, <2>2, ReleaseOrderly DEF wup_tsk
  <2>3. CASE ~(waiting(t) /\ wspec[t] = "slp")
    BY <1>8, <2>1, <2>3, IdleOrderly DEF wup_tsk
  <2> QED BY <2>2, <2>3
<1>9. CASE can_wup(t)
  BY <1>9, IdleOrderly DEF can_wup, privars
<1>10. CASE timer_handler(t)
  <2>1. waiting(t)
    BY <1>10 DEF timer_handler, Consistently, IInv, WaitInv, TimeoutOnlyWhileWaiting
  <2> QED BY <1>10, <2>1, ReleaseOrderly DEF timer_handler, privars
<1>11. CASE cre_tsk(t, pri)
  <2>1. /\ priority' = [priority EXCEPT ![t] = pri]
        /\ IF state[t] = "READY" THEN make_non_ready(t, "DORMANT") ELSE set_state(t, "DORMANT")
    BY <1>11 DEF cre_tsk
  <2> QED BY <2>1, EndOrderly
<1>12. CASE chg_pri(t, pri)
  <2>1. StateType /\ SchedInv
    BY DEF Consistently, IInv, TypeOK, StateType
  <2>2. Order!Requeue(t, pri) \/ Order!SetPriority(t, pri)
    BY <1>12, <2>1, ChangeRequeues DEF chg_pri, Consistently
  <2> QED BY <2>2 DEF Orderly, Order!Next
<1> QED BY <1>1, <1>2, <1>3, <1>4, <1>5, <1>6, <1>7, <1>8, <1>9, <1>10, <1>11, <1>12 DEF CallOn

(* Every call about the running task itself.                               *)
LEMMA SelfCallOrderly ==
  ASSUME Consistently, SelfCall
  PROVE  Orderly
<1>i. /\ IInv /\ StateType /\ SchedInv /\ (in_task => ctxtsk \in Task)
      /\ ipriority \in [Task -> Priority]
  BY CallerTask DEF Consistently, IInv, TypeOK, StateType
<1>w. ASSUME in_task, NEW w, NEW timed, make_wait(w, timed), priority' = priority
      PROVE  Orderly
  <2>1. CASE state[ctxtsk] = "READY"
    BY <1>i, <1>w, <2>1, StopOrderly DEF make_wait
  <2>2. CASE state[ctxtsk] # "READY"
    BY <1>i, <1>w, <2>2, StopOrderly DEF make_wait
  <2> QED BY <2>1, <2>2
<1>r. ASSUME NEW p \in Priority, rotate_ready_queue(p), UNCHANGED <<state, priority>>
      PROVE  Orderly
  BY <1>i, <1>r, RotateRequeues DEF Orderly, Consistently
<1>1. CASE ext_tsk
  <2>1. /\ in_task /\ ipriority[ctxtsk] \in Priority
        /\ priority' = [priority EXCEPT ![ctxtsk] = ipriority[ctxtsk]]
        /\ IF state[ctxtsk] = "READY" THEN make_non_ready(ctxtsk, "DORMANT")
                                       ELSE set_state(ctxtsk, "DORMANT")
    BY <1>i, <1>1 DEF ext_tsk, _ter_tsk, make_dormant
  <2> QED BY <1>i, <2>1, EndOrderly
<1>2. CASE exd_tsk
  <2>1. /\ in_task /\ priority' = priority
        /\ IF state[ctxtsk] = "READY" THEN make_non_ready(ctxtsk, "NONEXIST")
                                       ELSE set_state(ctxtsk, "NONEXIST")
    BY <1>2 DEF exd_tsk, _ter_tsk, privars
  <2> QED BY <1>i, <2>1, StopOrderly
<1>3. CASE dly_tsk
  BY <1>3, <1>w DEF dly_tsk, privars
<1>4. CASE rot_rdq_run
  <2>1. UNCHANGED <<state, priority>>
    BY <1>4 DEF rot_rdq_run, privars
  <2>2. CASE in_indp /\ schedtsk # NoTask /\ rotate_ready_queue(ready_queue.top_priority)
    <3>1. ready_queue.top_priority \in Priority
      <4>1. ReadyTasks \in SUBSET Task /\ priority \in PriorityMap
        BY <1>i DEF ReadyTasks, StateType, PriorityMap
      <4>2. schedtsk \in ReadyTasks /\ priority[schedtsk] = ready_queue.top_priority
        BY <2>2, <1>i, <4>1, ReadyQueueTop DEF SchedInv, SchedtskIsTop
      <4> QED BY <4>1, <4>2 DEF PriorityMap
    <3> QED BY <1>r, <2>1, <2>2, <3>1
  <2>3. CASE in_task /\ rotate_ready_queue(priority[ctxtsk])
    <3>1. priority[ctxtsk] \in Priority
      BY <1>i, <2>3 DEF StateType
    <3> QED BY <1>r, <2>1, <2>3, <3>1
  <2> QED BY <1>4, <2>2, <2>3 DEF rot_rdq_run
<1>5. ASSUME NEW timed \in BOOLEAN, tslp_tsk(timed) PROVE Orderly
  <2>1. priority' = priority /\ in_task
    BY <1>5 DEF tslp_tsk, privars
  <2>2. CASE wupcnt[ctxtsk] > 0
    BY <1>5, <2>1, <2>2, IdleOrderly DEF tslp_tsk
  <2>3. CASE ~(wupcnt[ctxtsk] > 0)
    BY <1>5, <1>w, <2>1, <2>3 DEF tslp_tsk
  <2> QED BY <2>2, <2>3
<1>6. ASSUME NEW pri \in Priority, rot_rdq(pri) PROVE Orderly
  BY <1>6, <1>r DEF rot_rdq, privars
<1> QED BY <1>1, <1>2, <1>3, <1>4, <1>5, <1>6 DEF SelfCall

(* The order in which the ready tasks are served is the one Precedence     *)
(* promises: whatever call or handler touches the ready queue.             *)
THEOREM TasksAreServedInOrder == Spec => ServedInOrder
<1>1. ASSUME Init PROVE Order!Init
  <2>1. IInv
    BY <1>1, InitInv
  <2>2. ReadyTasks = {TSK_INIT} /\ priority[TSK_INIT] = TSK_INIT_PRI /\ schedtsk = TSK_INIT
    BY <1>1, TaskManagementAssumption DEF Init, ReadyTasks
  <2>3. priority \in [Task -> Priority] /\ Holds(ready_queue, ReadyTasks, priority)
    BY <2>1, QueueHolds DEF IInv, TypeOK, StateType
  <2>4. ready_queue.tskque[TSK_INIT_PRI] = << TSK_INIT >>
    BY <1>1, TaskManagementAssumption DEF Init, ready_queue_insert, ready_queue_initialize
  <2>5. ~ before(<< TSK_INIT >>, TSK_INIT, TSK_INIT)
    BY DEF before
  <2>6. Ahead(ReadyTasks, ready_queue, priority) = {}
    <3>1. ~(TSK_INIT_PRI < TSK_INIT_PRI)
      BY TaskManagementAssumption DEF Priority
    <3> QED BY <2>2, <2>4, <2>5, <3>1 DEF Ahead
  <2> QED BY <2>2, <2>3, <2>6, AheadIs DEF Order!Init
<1>2. ASSUME IInv, [Next]_vars PROVE [Order!Next]_Order!precvars
  <2>1. Consistently
    BY <1>2, StepInv DEF Consistently, IInv, TypeOK, StateType
  <2>2. Orderly
    <3>1. CASE TaskCall
      <4>1. PICK t \in Task, pri \in Priority : CallOn(t, pri)
        BY <3>1, TaskManagementAssumption DEF TaskCall, CallOn
      <4> QED BY <2>1, <4>1, TaskCallOrderly
    <3>2. CASE SelfCall
      BY <2>1, <3>2, SelfCallOrderly
    <3>3. CASE CpuStep \/ UNCHANGED vars
      BY <3>3, CpuStepTasks, IdleOrderly DEF vars, taskvars, privars
    <3> QED BY <1>2, <3>1, <3>2, <3>3 DEF Next
  <2>3. UNCHANGED <<ReadyTasks, priority, ready_queue, schedtsk>> => UNCHANGED Order!precvars
    BY AheadIs DEF Order!precvars
  <2> QED BY <2>2, <2>3 DEF Orderly
<1> QED BY <1>1, <1>2, Invariance, PTL DEF Spec, ServedInOrder, Order!Spec

(* The entries of a queue are in a total order.                            *)
LEMMA QueueOrdered ==
  ASSUME NEW S, NEW q \in Queue(S)
  PROVE  /\ \A t, u \in ToSet(q) : t # u => before(q, t, u) \/ before(q, u, t)
         /\ \A t, u : ~(before(q, t, u) /\ before(q, u, t))
         /\ \A t, u, v : before(q, t, u) /\ before(q, u, v) => before(q, t, v)
<1>1. /\ Len(q) \in Nat /\ DOMAIN q = 1 .. Len(q)
      /\ \A j, k \in 1 .. Len(q) : q[j] = q[k] => j = k
      /\ ToSet(q) = {q[j] : j \in 1 .. Len(q)}
  BY QueueEntries
<1>2. ASSUME NEW t \in ToSet(q), NEW u \in ToSet(q), t # u
      PROVE  before(q, t, u) \/ before(q, u, t)
  <2>1. PICK j \in 1 .. Len(q), k \in 1 .. Len(q) : q[j] = t /\ q[k] = u
    BY <1>1
  <2>2. j < k \/ k < j
    BY <1>1, <1>2, <2>1
  <2> QED BY <1>1, <2>1, <2>2 DEF before
<1>3. ASSUME NEW t, NEW u, before(q, t, u), before(q, u, t)
      PROVE  FALSE
  <2>1. PICK i \in 1 .. Len(q), j \in 1 .. Len(q) : i < j /\ q[i] = t /\ q[j] = u
    BY <1>1, <1>3 DEF before
  <2>2. PICK k \in 1 .. Len(q), l \in 1 .. Len(q) : k < l /\ q[k] = u /\ q[l] = t
    BY <1>1, <1>3 DEF before
  <2>3. k = j /\ l = i
    BY <1>1, <2>1, <2>2
  <2> QED BY <1>1, <2>1, <2>2, <2>3
<1>4. ASSUME NEW t, NEW u, NEW v, before(q, t, u), before(q, u, v)
      PROVE  before(q, t, v)
  <2>1. PICK i \in 1 .. Len(q), j \in 1 .. Len(q) : i < j /\ q[i] = t /\ q[j] = u
    BY <1>1, <1>4 DEF before
  <2>2. PICK k \in 1 .. Len(q), l \in 1 .. Len(q) : k < l /\ q[k] = u /\ q[l] = v
    BY <1>1, <1>4 DEF before
  <2>3. k = j
    BY <1>1, <2>1, <2>2
  <2>4. i < l
    BY <1>1, <2>1, <2>2, <2>3
  <2> QED BY <1>1, <2>1, <2>2, <2>4 DEF before
<1> QED BY <1>2, <1>3, <1>4

(* So are the tasks of a consistent ready queue.                           *)
LEMMA AheadOrdered ==
  ASSUME NEW S, NEW pri, NEW rq, Holds(rq, S, pri)
  PROVE  /\ \A t, u \in S : t # u <=> (<<t, u>> \in Ahead(S, rq, pri) \/ <<u, t>> \in Ahead(S, rq, pri))
         /\ \A t, u \in S : ~(<<t, u>> \in Ahead(S, rq, pri) /\ <<u, t>> \in Ahead(S, rq, pri))
         /\ \A t, u, v \in S : <<t, u>> \in Ahead(S, rq, pri) /\ <<u, v>> \in Ahead(S, rq, pri)
                               => <<t, v>> \in Ahead(S, rq, pri)
         /\ \A t, u \in S : <<t, u>> \in Ahead(S, rq, pri) => pri[t] <= pri[u]
<1> DEFINE less(t, u) == before(rq.tskque[pri[t]], t, u)
<1>1. \A t \in S : pri[t] \in Priority /\ pri[t] \in Int
  BY DEF Holds, PriorityMap, Priority
<1>2. ASSUME NEW k \in Priority
      PROVE  rq.tskque[k] \in Queue(Task) /\ ToSet(rq.tskque[k]) = {t \in S : pri[t] = k}
  BY ConsistentQueues DEF QueueOf, Holds
<1>3. ASSUME NEW t \in S, NEW u \in S
      PROVE  <<t, u>> \in Ahead(S, rq, pri) <=> pri[t] < pri[u] \/ (pri[t] = pri[u] /\ less(t, u))
  <2>1. less(t, u) => pri[u] = pri[t]
    BY <1>1, InOneQueue
  <2> QED BY <2>1 DEF Ahead
<1>4. ASSUME NEW t \in S, NEW u \in S, pri[t] = pri[u]
      PROVE  /\ t # u => less(t, u) \/ less(u, t)
             /\ ~(less(t, u) /\ less(u, t))
             /\ ~less(t, t)
             /\ \A v \in S : pri[v] = pri[t] /\ less(t, u) /\ less(u, v) => less(t, v)
  <2> DEFINE q == rq.tskque[pri[t]]
  <2>1. q \in Queue(Task) /\ t \in ToSet(q) /\ u \in ToSet(q)
    BY <1>1, <1>2, <1>4
  <2> HIDE DEF q
  <2>2. /\ t # u => before(q, t, u) \/ before(q, u, t)
        /\ ~(before(q, t, u) /\ before(q, u, t)) /\ ~before(q, t, t)
        /\ \A v \in S : before(q, t, u) /\ before(q, u, v) => before(q, t, v)
    BY <2>1, QueueOrdered
  <2> QED BY <1>4, <2>2 DEF q
<1> HIDE DEF less
<1> QED BY <1>1, <1>3, <1>4

(* It is a total order of the ready tasks, in which no task precedes one   *)
(* of higher priority and schedtsk precedes all others.                    *)
THEOREM PrecedenceIsTotal == Spec => []Order!PrecedenceOrder
<1>1. ASSUME IInv PROVE Order!PrecedenceOrder
  <2>1. Holds(ready_queue, ReadyTasks, priority) /\ schedtsk = ready_queue_top(ready_queue)
    BY <1>1, QueueHolds DEF IInv, TypeOK, StateType, SchedInv, SchedtskIsTop
  <2>2. \/ ReadyTasks = {} /\ schedtsk = NoTask
        \/ schedtsk \in ReadyTasks
           /\ \A u \in ReadyTasks \ {schedtsk} :
                <<schedtsk, u>> \in Ahead(ReadyTasks, ready_queue, priority)
    BY <2>1, TopIsFirst
  <2>3. Ahead(ReadyTasks, ready_queue, priority) \subseteq ReadyTasks \X ReadyTasks
    BY DEF Ahead
  <2> QED BY <2>1, <2>2, <2>3, AheadOrdered, AheadIs DEF Order!PrecedenceOrder, Order!IsFirst
<1> QED BY <1>1, Invariance, PTL
=============================================================================
