------------------------------ MODULE QueueProofs ------------------------------
(***************************************************************************)
(* What the operations on doubly linked queues (kernel/queue.h) do to the  *)
(* queue as a whole: to its entries, to their order and to its head.  A    *)
(* queue is an injective sequence, since an entry has one pair of links.   *)
(***************************************************************************)
EXTENDS Queues, SequenceTheorems, WellFoundedInduction, TLAPS

Queue(S) == {q \in Seq(S) : IsInjective(q)}

-----------------------------------------------------------------------------
(* The least element of a set that has one.                                *)
LEMMA MinIsLeast ==
  ASSUME NEW S \in SUBSET Int, NEW m \in S, \A n \in S : m <= n
  PROVE  Min(S) = m
<1>1. \A x \in S : (\A n \in S : x <= n) => x = m
  <2> TAKE x \in S
  <2>1. x \in Int /\ m \in Int
    OBVIOUS
  <2>2. m <= x
    OBVIOUS
  <2>3. (\A n \in S : x <= n) => x <= m
    OBVIOUS
  <2> QED BY <2>1, <2>2, <2>3
<1>2. Min(S) \in S /\ \A n \in S : Min(S) <= n
  <2>1. \E x \in S : \A n \in S : x <= n
    OBVIOUS
  <2> QED BY <2>1, Zenon DEF Min
<1> QED BY <1>1, <1>2

(* A non-empty set of natural numbers has a least element.                 *)
LEMMA MinOfNaturals ==
  ASSUME NEW S \in SUBSET Nat, S # {}
  PROVE  Min(S) \in S /\ \A n \in S : Min(S) <= n
<1> DEFINE less == OpToRel(<, Nat)
<1>1. PICK m \in S : \A n \in S : <<n, m>> \notin less
  BY NatLessThanWellFounded, WFMin
<1>2. \A n \in S : m <= n
  <2> TAKE n \in S
  <2>1. <<n, m>> \in Nat \X Nat /\ ~(n < m)
    BY <1>1 DEF OpToRel
  <2> QED BY <2>1
<1> QED BY <1>2, Zenon DEF Min

(* RemoveAt skips position i.                                              *)
LEMMA RemoveAtEntries ==
  ASSUME NEW S, NEW q \in Seq(S), NEW i \in 1 .. Len(q)
  PROVE  /\ RemoveAt(q, i) \in Seq(S)
         /\ Len(RemoveAt(q, i)) = Len(q) - 1
         /\ \A j \in 1 .. Len(q) - 1 :
              RemoveAt(q, i)[j] = IF j < i THEN q[j] ELSE q[j + 1]
<1> DEFINE a == SubSeq(q, 1, i - 1)
           b == SubSeq(q, i + 1, Len(q))
<1>1. a \in Seq(S) /\ Len(a) = i - 1 /\ \A j \in 1 .. i - 1 : a[j] = q[j]
  OBVIOUS
<1>2. /\ b \in Seq(S) /\ Len(b) = Len(q) - i
      /\ \A j \in 1 .. Len(q) - i : b[j] = q[i + j]
  OBVIOUS
<1> HIDE DEF a, b
<1>3. /\ a \o b \in Seq(S)
      /\ Len(a \o b) = Len(q) - 1
      /\ \A j \in 1 .. Len(q) - 1 : (a \o b)[j] = IF j < i THEN a[j] ELSE b[j - (i - 1)]
  <2>1. /\ a \o b \in Seq(S)
        /\ Len(a \o b) = Len(a) + Len(b)
        /\ \A j \in 1 .. Len(a) + Len(b) :
             (a \o b)[j] = IF j <= Len(a) THEN a[j] ELSE b[j - Len(a)]
    BY <1>1, <1>2, ConcatProperties, Zenon
  <2>2. Len(a) = i - 1 /\ Len(b) = Len(q) - i /\ Len(q) \in Nat /\ i \in Int
    BY <1>1, <1>2
  <2> QED BY <2>1, <2>2
<1>4. \A j \in 1 .. Len(q) - 1 : (a \o b)[j] = IF j < i THEN q[j] ELSE q[j + 1]
  BY <1>1, <1>2, <1>3
<1> QED BY <1>3, <1>4 DEF a, b, RemoveAt

(* InsertAt makes room at position i.                                      *)
LEMMA InsertAtEntries ==
  ASSUME NEW S, NEW q \in Seq(S), NEW i \in 1 .. Len(q) + 1, NEW t \in S
  PROVE  /\ InsertAt(q, i, t) \in Seq(S)
         /\ Len(InsertAt(q, i, t)) = Len(q) + 1
         /\ \A j \in 1 .. Len(q) + 1 :
              InsertAt(q, i, t)[j] =
                IF j < i THEN q[j] ELSE IF j = i THEN t ELSE q[j - 1]
<1> DEFINE a == SubSeq(q, 1, i - 1)
           b == SubSeq(q, i, Len(q))
<1>1. a \in Seq(S) /\ Len(a) = i - 1 /\ \A j \in 1 .. i - 1 : a[j] = q[j]
  OBVIOUS
<1>2. /\ b \in Seq(S) /\ Len(b) = Len(q) - i + 1
      /\ \A j \in 1 .. Len(q) - i + 1 : b[j] = q[i + j - 1]
  OBVIOUS
<1> HIDE DEF a, b
<1> DEFINE c == a \o <<t>>
<1>3. c \in Seq(S) /\ Len(c) = i /\ c[i] = t /\ \A j \in 1 .. i - 1 : c[j] = q[j]
  BY <1>1
<1> HIDE DEF c
<1>4. /\ c \o b \in Seq(S)
      /\ Len(c \o b) = Len(q) + 1
      /\ \A j \in 1 .. Len(q) + 1 : (c \o b)[j] = IF j <= i THEN c[j] ELSE b[j - i]
  <2>1. /\ c \o b \in Seq(S)
        /\ Len(c \o b) = Len(c) + Len(b)
        /\ \A j \in 1 .. Len(c) + Len(b) :
             (c \o b)[j] = IF j <= Len(c) THEN c[j] ELSE b[j - Len(c)]
    BY <1>2, <1>3, ConcatProperties, Zenon
  <2>2. Len(c) = i /\ Len(b) = Len(q) - i + 1 /\ Len(q) \in Nat /\ i \in Int
    BY <1>2, <1>3
  <2> QED BY <2>1, <2>2
<1>5. \A j \in 1 .. Len(q) + 1 :
        (c \o b)[j] = IF j < i THEN q[j] ELSE IF j = i THEN t ELSE q[j - 1]
  BY <1>2, <1>3, <1>4
<1> QED BY <1>4, <1>5 DEF a, b, c, InsertAt

(* The positions of a queue hold distinct entries.                         *)
LEMMA QueueEntries ==
  ASSUME NEW S, NEW q \in Queue(S)
  PROVE  /\ q \in Seq(S)
         /\ Len(q) \in Nat
         /\ DOMAIN q = 1 .. Len(q)
         /\ \A j, k \in 1 .. Len(q) : q[j] = q[k] => j = k
         /\ ToSet(q) = {q[j] : j \in 1 .. Len(q)}
  BY DEF Queue, IsInjective, ToSet

(* Distinct entries at distinct positions make a sequence a queue.         *)
LEMMA QueueFromEntries ==
  ASSUME NEW S, NEW q \in Seq(S), \A j, k \in 1 .. Len(q) : q[j] = q[k] => j = k
  PROVE  /\ q \in Queue(S)
         /\ ToSet(q) = {q[j] : j \in 1 .. Len(q)}
  BY DEF Queue, IsInjective, ToSet

(* Two queues that have no entry in common are one queue behind the other. *)
LEMMA QueueConcat ==
  ASSUME NEW S, NEW q \in Queue(S), NEW r \in Queue(S), ToSet(q) \cap ToSet(r) = {}
  PROVE  q \o r \in Queue(S) /\ ToSet(q \o r) = ToSet(q) \cup ToSet(r)
<1>q. /\ q \in Seq(S) /\ Len(q) \in Nat /\ ToSet(q) = {q[j] : j \in 1 .. Len(q)}
      /\ \A j, k \in 1 .. Len(q) : q[j] = q[k] => j = k
  BY QueueEntries
<1>r. /\ r \in Seq(S) /\ Len(r) \in Nat /\ ToSet(r) = {r[j] : j \in 1 .. Len(r)}
      /\ \A j, k \in 1 .. Len(r) : r[j] = r[k] => j = k
  BY QueueEntries
<1> DEFINE c == q \o r
<1>1. /\ c \in Seq(S) /\ Len(c) = Len(q) + Len(r)
      /\ \A j \in 1 .. Len(q) + Len(r) : c[j] = IF j <= Len(q) THEN q[j] ELSE r[j - Len(q)]
  BY <1>q, <1>r
<1> HIDE DEF c
<1>2. ASSUME NEW j \in 1 .. Len(q) + Len(r)
      PROVE  \/ j \in 1 .. Len(q) /\ c[j] = q[j] /\ c[j] \in ToSet(q)
             \/ j > Len(q) /\ j - Len(q) \in 1 .. Len(r) /\ c[j] = r[j - Len(q)] /\ c[j] \in ToSet(r)
  BY <1>q, <1>r, <1>1
<1>3. ASSUME NEW j \in 1 .. Len(c), NEW k \in 1 .. Len(c), c[j] = c[k] PROVE j = k
  <2>1. j \in 1 .. Len(q) + Len(r) /\ k \in 1 .. Len(q) + Len(r)
    BY <1>1
  <2>2. CASE j \in 1 .. Len(q) /\ c[j] = q[j] /\ c[j] \in ToSet(q)
    BY <1>q, <1>2, <1>3, <2>1, <2>2
  <2>3. CASE j > Len(q) /\ j - Len(q) \in 1 .. Len(r) /\ c[j] = r[j - Len(q)] /\ c[j] \in ToSet(r)
    <3>1. k > Len(q) /\ k - Len(q) \in 1 .. Len(r) /\ c[k] = r[k - Len(q)]
      BY <1>2, <1>3, <2>1, <2>3
    <3>2. j - Len(q) = k - Len(q)
      BY <1>r, <1>3, <2>3, <3>1
    <3> QED BY <1>q, <2>1, <3>2
  <2> QED BY <1>2, <2>1, <2>2, <2>3
<1>4. c \in Queue(S) /\ ToSet(c) = {c[j] : j \in 1 .. Len(c)}
  BY <1>1, <1>3, QueueFromEntries
<1>5. ASSUME NEW x \in ToSet(q) PROVE x \in ToSet(c)
  <2>1. PICK j \in 1 .. Len(q) : q[j] = x
    BY <1>q
  <2>2. j \in 1 .. Len(c) /\ c[j] = x
    BY <1>q, <1>r, <1>1, <2>1
  <2> QED BY <1>4, <2>2
<1>6. ASSUME NEW x \in ToSet(r) PROVE x \in ToSet(c)
  <2>1. PICK j \in 1 .. Len(r) : r[j] = x
    BY <1>r
  <2>2. j + Len(q) \in 1 .. Len(c) /\ ~(j + Len(q) <= Len(q)) /\ (j + Len(q)) - Len(q) = j
    BY <1>q, <1>r, <1>1, <2>1
  <2>3. c[j + Len(q)] = x
    BY <1>1, <2>1, <2>2
  <2> QED BY <1>4, <2>2, <2>3
<1>7. ToSet(c) = ToSet(q) \cup ToSet(r)
  BY <1>1, <1>2, <1>4, <1>5, <1>6
<1> QED BY <1>4, <1>7 DEF c

(* The entry that queue_delete takes out is at one position.               *)
LEMMA QueueDeleteAt ==
  ASSUME NEW S, NEW q \in Queue(S), NEW t \in ToSet(q)
  PROVE  \E i \in 1 .. Len(q) : q[i] = t /\ queue_delete(q, t) = RemoveAt(q, i)
<1>q. /\ q \in Seq(S) /\ Len(q) \in Nat /\ ToSet(q) = {q[j] : j \in 1 .. Len(q)}
      /\ \A j, k \in 1 .. Len(q) : q[j] = q[k] => j = k
  BY QueueEntries
<1>1. PICK i \in 1 .. Len(q) : q[i] = t
  BY <1>q
<1>2. queue_delete(q, t) = RemoveAt(q, i)
  <2>1. {j \in 1 .. Len(q) : q[j] = t} = {i}
    BY <1>1, <1>q
  <2>2. SelectInSeq(q, LAMBDA v : v = t) = Min({i})
    BY <2>1 DEF SelectInSeq
  <2>3. Min({i}) = i
    BY MinIsLeast
  <2> QED BY <1>1, <2>2, <2>3 DEF queue_delete, RemoveFirst
<1> QED BY <1>1, <1>2

(* queue_delete takes out its entry and no other, and another head stays.  *)
LEMMA QueueDelete ==
  ASSUME NEW S, NEW q \in Queue(S), NEW t \in ToSet(q)
  PROVE  /\ queue_delete(q, t) \in Queue(S)
         /\ ToSet(queue_delete(q, t)) = ToSet(q) \ {t}
         /\ t # Head(q) => queue_delete(q, t) # << >>
                            /\ Head(queue_delete(q, t)) = Head(q)
<1>q. /\ q \in Seq(S) /\ Len(q) \in Nat /\ ToSet(q) = {q[j] : j \in 1 .. Len(q)}
      /\ \A j, k \in 1 .. Len(q) : q[j] = q[k] => j = k
  BY QueueEntries
<1>1. PICK i \in 1 .. Len(q) : q[i] = t /\ queue_delete(q, t) = RemoveAt(q, i)
  BY QueueDeleteAt
<1> DEFINE r == RemoveAt(q, i)
<1>3. /\ r \in Seq(S) /\ Len(r) = Len(q) - 1
      /\ \A j \in 1 .. Len(q) - 1 : r[j] = IF j < i THEN q[j] ELSE q[j + 1]
  BY RemoveAtEntries, <1>q
<1> HIDE DEF r
<1>4. \A j, k \in 1 .. Len(r) : r[j] = r[k] => j = k
  <2> SUFFICES ASSUME NEW j \in 1 .. Len(q) - 1, NEW k \in 1 .. Len(q) - 1, r[j] = r[k]
               PROVE  j = k
    BY <1>3
  <2>1. r[j] = (IF j < i THEN q[j] ELSE q[j + 1]) /\ r[k] = IF k < i THEN q[k] ELSE q[k + 1]
    BY <1>3
  <2>2. {j, j + 1, k, k + 1} \subseteq 1 .. Len(q)
    BY <1>q
  <2>3. CASE j < i /\ k < i
    BY <1>q, <2>1, <2>2, <2>3
  <2>4. CASE ~(j < i) /\ ~(k < i)
    <3>1. q[j + 1] = q[k + 1]
      BY <1>q, <2>1, <2>4
    <3>2. j + 1 = k + 1
      BY <1>q, <2>2, <3>1
    <3> QED BY <3>2
  <2>5. CASE j < i /\ ~(k < i)
    <3>1. q[j] = q[k + 1]
      BY <1>q, <2>1, <2>5
    <3> QED BY <1>q, <2>2, <2>5, <3>1
  <2>6. CASE ~(j < i) /\ k < i
    <3>1. q[j + 1] = q[k]
      BY <1>q, <2>1, <2>6
    <3> QED BY <1>q, <2>2, <2>6, <3>1
  <2> QED BY <2>3, <2>4, <2>5, <2>6
<1>5. r \in Queue(S) /\ ToSet(r) = {r[j] : j \in 1 .. Len(r)}
  BY <1>3, <1>4, QueueFromEntries
<1>6. ToSet(r) = ToSet(q) \ {t}
  <2>1. ASSUME NEW j \in 1 .. Len(q) - 1 PROVE r[j] \in ToSet(q) \ {t}
    <3>1. j \in 1 .. Len(q) /\ j + 1 \in 1 .. Len(q)
      BY <1>q
    <3> QED BY <1>q, <1>1, <1>3, <3>1
  <2>2. ASSUME NEW k \in 1 .. Len(q), q[k] # t PROVE q[k] \in ToSet(r)
    <3>1. CASE k < i
      <4>1. k \in 1 .. Len(r) /\ r[k] = q[k]
        BY <1>3, <1>q, <3>1
      <4> QED BY <1>5, <4>1
    <3>2. CASE k > i
      <4>1. k - 1 \in 1 .. Len(r) /\ r[k - 1] = q[k]
        BY <1>3, <1>q, <3>2
      <4> QED BY <1>5, <4>1
    <3> QED BY <1>1, <1>q, <2>2, <3>1, <3>2
  <2>3. ToSet(r) \subseteq ToSet(q) \ {t}
    BY <1>3, <1>5, <2>1
  <2>4. ToSet(q) \ {t} \subseteq ToSet(r)
    BY <1>q, <2>2
  <2> QED BY <2>3, <2>4
<1>7. ASSUME t # Head(q) PROVE r # << >> /\ Head(r) = Head(q)
  <2>1. q # << >> /\ Head(q) = q[1] /\ i # 1
    BY <1>q, <1>1, <1>7
  <2>2. Len(r) >= 1 /\ r[1] = q[1]
    BY <1>q, <1>3, <2>1
  <2> QED BY <1>3, <2>1, <2>2
<1> QED BY <1>1, <1>5, <1>6, <1>7 DEF r

(* An insertion adds its entry and no other.                               *)
LEMMA QueueInsert ==
  ASSUME NEW S, NEW q \in Queue(S), NEW t \in S \ ToSet(q), NEW i \in 1 .. Len(q) + 1
  PROVE  /\ queue_insert(q, i, t) \in Queue(S)
         /\ ToSet(queue_insert(q, i, t)) = ToSet(q) \cup {t}
<1>q. /\ q \in Seq(S) /\ Len(q) \in Nat /\ ToSet(q) = {q[j] : j \in 1 .. Len(q)}
      /\ \A j, k \in 1 .. Len(q) : q[j] = q[k] => j = k
  BY QueueEntries
<1> DEFINE r == InsertAt(q, i, t)
<1>1. /\ r \in Seq(S) /\ Len(r) = Len(q) + 1
      /\ \A j \in 1 .. Len(q) + 1 :
           r[j] = IF j < i THEN q[j] ELSE IF j = i THEN t ELSE q[j - 1]
  BY InsertAtEntries, <1>q
<1> HIDE DEF r
<1>2. \A j \in 1 .. Len(q) : q[j] # t
  BY <1>q
<1>3. \A j, k \in 1 .. Len(r) : r[j] = r[k] => j = k
  <2> SUFFICES ASSUME NEW j \in 1 .. Len(q) + 1, NEW k \in 1 .. Len(q) + 1, r[j] = r[k]
               PROVE  j = k
    BY <1>1
  <2>1. /\ r[j] = IF j < i THEN q[j] ELSE IF j = i THEN t ELSE q[j - 1]
        /\ r[k] = IF k < i THEN q[k] ELSE IF k = i THEN t ELSE q[k - 1]
    BY <1>1
  <2>2. /\ j < i => j \in 1 .. Len(q)
        /\ j > i => j - 1 \in 1 .. Len(q)
        /\ k < i => k \in 1 .. Len(q)
        /\ k > i => k - 1 \in 1 .. Len(q)
    BY <1>q
  <2>3. CASE j = i \/ k = i
    <3>1. ASSUME NEW m \in 1 .. Len(q) + 1, r[m] = t PROVE m = i
      <4>1. m < i => m \in 1 .. Len(q) /\ r[m] = q[m]
        BY <1>q, <1>1
      <4>2. m > i => m - 1 \in 1 .. Len(q) /\ r[m] = q[m - 1]
        BY <1>q, <1>1
      <4> QED BY <1>q, <1>2, <3>1, <4>1, <4>2
    <3>2. r[i] = t
      BY <1>1
    <3> QED BY <2>3, <3>1, <3>2
  <2>4. CASE j < i /\ k < i
    BY <1>q, <2>1, <2>2, <2>4
  <2>5. CASE ~(j < i) /\ j # i /\ ~(k < i) /\ k # i
    <3>1. q[j - 1] = q[k - 1]
      BY <1>q, <2>1, <2>5
    <3>2. j - 1 = k - 1
      BY <1>q, <2>2, <2>5, <3>1
    <3> QED BY <3>2
  <2>6. CASE j < i /\ ~(k < i) /\ k # i
    <3>1. q[j] = q[k - 1]
      BY <1>q, <2>1, <2>6
    <3> QED BY <1>q, <2>2, <2>6, <3>1
  <2>7. CASE ~(j < i) /\ j # i /\ k < i
    <3>1. q[j - 1] = q[k]
      BY <1>q, <2>1, <2>7
    <3> QED BY <1>q, <2>2, <2>7, <3>1
  <2> QED BY <2>3, <2>4, <2>5, <2>6, <2>7
<1>4. r \in Queue(S) /\ ToSet(r) = {r[j] : j \in 1 .. Len(r)}
  BY <1>1, <1>3, QueueFromEntries
<1>5. ToSet(r) = ToSet(q) \cup {t}
  <2>1. ASSUME NEW j \in 1 .. Len(r) PROVE r[j] \in ToSet(q) \cup {t}
    <3>1. j < i => j \in 1 .. Len(q)
      BY <1>q
    <3>2. j > i => j - 1 \in 1 .. Len(q)
      BY <1>q, <1>1
    <3> QED BY <1>q, <1>1, <3>1, <3>2
  <2>2. i \in 1 .. Len(r) /\ r[i] = t
    BY <1>q, <1>1
  <2>3. ASSUME NEW k \in 1 .. Len(q) PROVE q[k] \in ToSet(r)
    <3>1. CASE k < i
      <4>1. k \in 1 .. Len(r) /\ r[k] = q[k]
        BY <1>1, <1>q, <3>1
      <4> QED BY <1>4, <4>1
    <3>2. CASE k >= i
      <4>1. k + 1 \in 1 .. Len(r) /\ r[k + 1] = q[k]
        BY <1>1, <1>q, <3>2
      <4> QED BY <1>4, <4>1
    <3> QED BY <1>q, <3>1, <3>2
  <2>4. ToSet(r) \subseteq ToSet(q) \cup {t}
    BY <1>4, <2>1
  <2>5. t \in ToSet(r)
    BY <1>4, <2>2
  <2>6. ToSet(q) \subseteq ToSet(r)
    BY <1>q, <2>3
  <2> QED BY <2>4, <2>5, <2>6
<1> QED BY <1>4, <1>5 DEF r, queue_insert

(* Appending is the insertion in front of the queue header.                *)
LEMMA QueueAppend ==
  ASSUME NEW S, NEW q \in Queue(S), NEW t \in S \ ToSet(q)
  PROVE  /\ Append(q, t) \in Queue(S)
         /\ ToSet(Append(q, t)) = ToSet(q) \cup {t}
         /\ Append(q, t) # << >>
         /\ Head(Append(q, t)) = IF q = << >> THEN t ELSE Head(q)
<1>q. /\ q \in Seq(S) /\ Len(q) \in Nat /\ ToSet(q) = {q[j] : j \in 1 .. Len(q)}
      /\ \A j, k \in 1 .. Len(q) : q[j] = q[k] => j = k
  BY QueueEntries
<1> DEFINE r == Append(q, t)
<1>1. /\ r \in Seq(S) /\ Len(r) = Len(q) + 1 /\ r # << >>
      /\ Head(r) = IF q = << >> THEN t ELSE Head(q)
      /\ \A j \in 1 .. Len(q) + 1 : r[j] = IF j <= Len(q) THEN q[j] ELSE t
  BY <1>q
<1> HIDE DEF r
<1>2. \A j \in 1 .. Len(q) : q[j] # t
  BY <1>q
<1>3. \A j, k \in 1 .. Len(r) : r[j] = r[k] => j = k
  BY <1>q, <1>1, <1>2
<1>4. r \in Queue(S) /\ ToSet(r) = {r[j] : j \in 1 .. Len(r)}
  BY <1>1, <1>3, QueueFromEntries
<1>5. ToSet(r) = ToSet(q) \cup {t}
  BY <1>q, <1>1, <1>4
<1> QED BY <1>1, <1>4, <1>5 DEF r

(* Rotating a queue keeps its entries.                                     *)
LEMMA QueueRotate ==
  ASSUME NEW S, NEW q \in Queue(S), q # << >>
  PROVE  /\ Append(Tail(q), Head(q)) \in Queue(S)
         /\ ToSet(Append(Tail(q), Head(q))) = ToSet(q)
         /\ Append(Tail(q), Head(q)) # << >>
<1>q. /\ q \in Seq(S) /\ Len(q) \in Nat \ {0} /\ ToSet(q) = {q[j] : j \in 1 .. Len(q)}
      /\ \A j, k \in 1 .. Len(q) : q[j] = q[k] => j = k
  BY QueueEntries
<1> DEFINE r == Append(Tail(q), Head(q))
<1>1. /\ r \in Seq(S) /\ Len(r) = Len(q) /\ r # << >>
      /\ \A j \in 1 .. Len(q) : r[j] = IF j < Len(q) THEN q[j + 1] ELSE q[1]
  BY <1>q
<1> HIDE DEF r
<1>2. \A j, k \in 1 .. Len(r) : r[j] = r[k] => j = k
  BY <1>q, <1>1
<1>3. r \in Queue(S) /\ ToSet(r) = {r[j] : j \in 1 .. Len(r)}
  BY <1>1, <1>2, QueueFromEntries
<1>4. ToSet(r) = ToSet(q)
  <2>1. ASSUME NEW j \in 1 .. Len(q) PROVE r[j] \in ToSet(q)
    BY <1>q, <1>1
  <2>2. ASSUME NEW k \in 1 .. Len(q) PROVE q[k] \in ToSet(r)
    <3>1. CASE k = 1
      BY <1>q, <1>1, <1>3, <3>1
    <3>2. CASE k > 1
      <4>1. k - 1 \in 1 .. Len(r) /\ r[k - 1] = q[k]
        BY <1>q, <1>1, <3>2
      <4> QED BY <1>3, <4>1
    <3> QED BY <3>1, <3>2
  <2>3. ToSet(r) \subseteq ToSet(q)
    BY <1>1, <1>3, <2>1
  <2>4. ToSet(q) \subseteq ToSet(r)
    BY <1>q, <2>2
  <2> QED BY <2>3, <2>4
<1> QED BY <1>1, <1>3, <1>4 DEF r

(* What is left when the first entry of a queue is taken.                  *)
LEMMA QueueTail ==
  ASSUME NEW S, NEW q \in Queue(S), q # << >>
  PROVE  /\ Tail(q) \in Queue(S) /\ Head(q) \in ToSet(q)
         /\ ToSet(Tail(q)) = ToSet(q) \ {Head(q)}
         /\ Len(Tail(q)) = Len(q) - 1 /\ Len(q) \in Nat \ {0}
<1>q. /\ q \in Seq(S) /\ Len(q) \in Nat \ {0} /\ ToSet(q) = {q[j] : j \in 1 .. Len(q)}
      /\ \A j, k \in 1 .. Len(q) : q[j] = q[k] => j = k
  BY QueueEntries
<1> DEFINE r == Tail(q)
<1>1. /\ r \in Seq(S) /\ Len(r) = Len(q) - 1 /\ Head(q) = q[1]
      /\ \A j \in 1 .. Len(q) - 1 : r[j] = q[j + 1]
  BY <1>q
<1> HIDE DEF r
<1>2. \A j, k \in 1 .. Len(r) : r[j] = r[k] => j = k
  BY <1>q, <1>1
<1>3. r \in Queue(S) /\ ToSet(r) = {r[j] : j \in 1 .. Len(r)}
  BY <1>1, <1>2, QueueFromEntries
<1>4. ASSUME NEW j \in 1 .. Len(r) PROVE r[j] \in ToSet(q) \ {q[1]}
  <2>1. j + 1 \in 1 .. Len(q) /\ r[j] = q[j + 1] /\ j + 1 # 1 /\ 1 \in 1 .. Len(q)
    BY <1>q, <1>1
  <2> QED BY <1>q, <2>1
<1>5. ASSUME NEW k \in 1 .. Len(q), q[k] # q[1] PROVE q[k] \in ToSet(r)
  <2>1. k - 1 \in 1 .. Len(r) /\ r[k - 1] = q[k]
    <3>1. k - 1 \in 1 .. Len(r) /\ k - 1 + 1 = k
      BY <1>q, <1>1, <1>5
    <3> QED BY <1>1, <3>1
  <2> QED BY <1>3, <2>1
<1>6. ToSet(r) = ToSet(q) \ {q[1]}
  <2>1. ToSet(r) \subseteq ToSet(q) \ {q[1]}
    BY <1>3, <1>4
  <2>2. ToSet(q) \ {q[1]} \subseteq ToSet(r)
    BY <1>q, <1>5
  <2> QED BY <2>1, <2>2
<1> QED BY <1>q, <1>1, <1>3, <1>6 DEF r
=============================================================================
