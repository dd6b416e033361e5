---------------------------- MODULE ExchangeProofs ----------------------------
(***************************************************************************)
(* Proofs about variable-length memory pools and message buffers.          *)
(***************************************************************************)
EXTENDS MCExchanges, TaskManagementProofs, FiniteSetTheorems

(***************************************************************************)
(* 1. The areas of a memory pool of size Z.  An area is named by its       *)
(* address, that of its header.                                            *)
(***************************************************************************)
Heads(m) == DOMAIN m.next

Shape(m, Z) ==
  /\ Heads(m) \subseteq Int
  /\ m \in [next : [Heads(m) -> Int], prev : [Heads(m) \cup {Z} -> Int],
            used : SUBSET Int, free : Seq(Int)]

Chained(m, Z) ==
  /\ Heads(m) \subseteq 0 .. Z - 1
  /\ 0 \in Heads(m) /\ m.prev[0] = -1
  /\ \A a \in Heads(m) :
       /\ m.next[a] \in Heads(m) \cup {Z}
       /\ m.next[a] >= a + 2
       /\ m.prev[m.next[a]] = a
       /\ \A b \in Heads(m) : b <= a \/ b >= m.next[a]
  /\ \A x \in Heads(m) \cup {Z} : x # 0 => m.prev[x] \in Heads(m) /\ m.next[m.prev[x]] = x

(* The free queue is exact, and no two free areas lie side by side.        *)
FreeExact(m, Z) ==
  /\ m.used \subseteq Heads(m) \cup {Z} /\ Z \in m.used
  /\ m.free \in Queue(Int)
  /\ ToSet(m.free) = Heads(m) \ m.used
  /\ \A a \in Heads(m) \ m.used : m.next[a] \in m.used

(* The marked areas are those of the blocks of the program.                *)
LentExact(m, L) ==
  /\ \A l \in L :
       /\ l \in [top : Int, size : Nat \ {0}]
       /\ l.top - 1 \in Heads(m) \cap m.used
       /\ l.size <= m.next[l.top - 1] - l.top
  /\ \A l, k \in L : l.top = k.top => l = k
  /\ \A a \in Heads(m) \cap m.used : \E l \in L : l.top = a + 1

PoolSound(m, L, Z) == Shape(m, Z) /\ Chained(m, Z) /\ FreeExact(m, Z) /\ LentExact(m, L)

-----------------------------------------------------------------------------
(* n is m with the end of area a an area of its own.                       *)
IsSplit(m, n, a, new, Z) ==
  /\ Heads(n) = Heads(m) \cup {new}
  /\ \A x \in Heads(n) :
       n.next[x] = IF x = a THEN new ELSE IF x = new THEN m.next[a] ELSE m.next[x]
  /\ \A x \in Heads(n) \cup {Z} :
       n.prev[x] = IF x = new THEN a ELSE IF x = m.next[a] THEN new ELSE m.prev[x]
  /\ n.used = m.used \cup {new}
  /\ n.free = m.free

(* What split does.                                                        *)
LEMMA SplitIs ==
  ASSUME NEW Z \in Nat, Z >= 2, NEW m, Shape(m, Z), NEW a \in Heads(m), NEW new \in Int
  PROVE  Shape(split(m, a, new), Z) /\ IsSplit(m, split(m, a, new), a, new, Z)
<1> DEFINE n  == split(m, a, new)
           nx == [x \in Heads(m) \cup {new} |->
                    IF x = a THEN new ELSE IF x = new THEN m.next[a] ELSE m.next[x]]
           pv == [x \in (Heads(m) \cup {Z}) \cup {new} |->
                    IF x = new THEN a ELSE IF x = m.next[a] THEN new ELSE m.prev[x]]
<1>1. /\ Heads(m) \subseteq Int /\ DOMAIN m.next = Heads(m) /\ DOMAIN m.prev = Heads(m) \cup {Z}
      /\ m.next \in [Heads(m) -> Int] /\ m.prev \in [Heads(m) \cup {Z} -> Int]
      /\ m.used \in SUBSET Int /\ m.free \in Seq(Int)
      /\ m = [next |-> m.next, prev |-> m.prev, used |-> m.used, free |-> m.free]
  BY DEF Shape, Heads
<1>2. n = [next |-> nx, prev |-> pv, used |-> m.used \cup {new}, free |-> m.free]
  <2>1. n = [m EXCEPT !.next = nx, !.prev = pv, !.used = m.used \cup {new}]
    BY <1>1 DEF split
  <2> HIDE DEF n, nx, pv
  <2> QED BY <1>1, <2>1
<1>3. n.next = nx /\ n.prev = pv /\ n.used = m.used \cup {new} /\ n.free = m.free
  BY <1>2
<1>4. DOMAIN nx = Heads(m) \cup {new}
  OBVIOUS
<1>5. Heads(n) = Heads(m) \cup {new}
  BY <1>3, <1>4 DEF Heads
<1>6. nx \in [Heads(n) -> Int] /\ pv \in [Heads(n) \cup {Z} -> Int]
  <2>1. \A x \in Heads(m) : m.next[x] \in Int
    BY <1>1
  <2>2. \A x \in Heads(m) \cup {Z} : m.prev[x] \in Int
    BY <1>1
  <2>3. a \in Int
    BY <1>1
  <2> QED BY <1>5, <2>1, <2>2, <2>3
<1>7. Shape(n, Z)
  BY <1>1, <1>2, <1>3, <1>6 DEF Shape
<1>8. IsSplit(m, n, a, new, Z)
  BY <1>3, <1>5 DEF IsSplit
<1> QED BY <1>7, <1>8

(* n is m with area a and the one behind it one area.                      *)
IsMerged(m, n, a, Z) ==
  /\ Heads(n) = Heads(m) \ {m.next[a]}
  /\ \A x \in Heads(n) : n.next[x] = IF x = a THEN m.next[m.next[a]] ELSE m.next[x]
  /\ \A x \in Heads(n) \cup {Z} :
       n.prev[x] = IF x = m.next[m.next[a]] THEN a ELSE m.prev[x]
  /\ n.used = m.used
  /\ n.free = m.free

(* What merge does.                                                        *)
LEMMA MergeIs ==
  ASSUME NEW Z \in Nat, Z >= 2, NEW m, Shape(m, Z), NEW a \in Heads(m),
         m.next[a] \in Heads(m), m.next[a] # Z, a # m.next[a]
  PROVE  Shape(merge(m, a), Z) /\ IsMerged(m, merge(m, a), a, Z)
<1> DEFINE n  == merge(m, a)
           b  == m.next[a]
           nx == [x \in Heads(m) \ {b} |-> IF x = a THEN m.next[b] ELSE m.next[x]]
           pv == [x \in (Heads(m) \cup {Z}) \ {b} |-> IF x = m.next[b] THEN a ELSE m.prev[x]]
<1>1. /\ Heads(m) \subseteq Int /\ DOMAIN m.next = Heads(m) /\ DOMAIN m.prev = Heads(m) \cup {Z}
      /\ m.next \in [Heads(m) -> Int] /\ m.prev \in [Heads(m) \cup {Z} -> Int]
      /\ m.used \in SUBSET Int /\ m.free \in Seq(Int)
      /\ m = [next |-> m.next, prev |-> m.prev, used |-> m.used, free |-> m.free]
  BY DEF Shape, Heads
<1>2. n = [next |-> nx, prev |-> pv, used |-> m.used, free |-> m.free]
  <2>1. n = [m EXCEPT !.next = nx, !.prev = pv]
    BY <1>1 DEF merge
  <2> HIDE DEF n, nx, pv
  <2> QED BY <1>1, <2>1
<1>3. n.next = nx /\ n.prev = pv /\ n.used = m.used /\ n.free = m.free
  BY <1>2
<1>4. DOMAIN nx = Heads(m) \ {b}
  OBVIOUS
<1>5. Heads(n) = Heads(m) \ {b}
  BY <1>3, <1>4 DEF Heads
<1>6. nx \in [Heads(n) -> Int] /\ pv \in [Heads(n) \cup {Z} -> Int]
  <2>1. (\A x \in Heads(m) : m.next[x] \in Int) /\ a \in Int
    BY <1>1
  <2>2. \A x \in Heads(m) \cup {Z} : m.prev[x] \in Int
    BY <1>1
  <2> QED BY <1>5, <2>1, <2>2
<1>7. Shape(n, Z)
  BY <1>1, <1>2, <1>3, <1>6 DEF Shape
<1>8. IsMerged(m, n, a, Z)
  BY <1>3, <1>5 DEF IsMerged
<1> QED BY <1>7, <1>8

-----------------------------------------------------------------------------
(* An area ends in the pool, and starts where the one before it ends.      *)
LEMMA ChainFacts ==
  ASSUME NEW Z \in Nat, Z >= 2, NEW m, Shape(m, Z), Chained(m, Z), NEW a \in Heads(m)
  PROVE  /\ a \in Nat /\ m.next[a] \in Nat /\ a + 2 <= m.next[a] /\ m.next[a] <= Z
         /\ Z \notin Heads(m)
         /\ \A x \in Heads(m) : m.next[x] = m.next[a] => x = a
         /\ \A x \in Heads(m) : m.prev[a] = x => m.next[x] = a
         /\ m.prev[a] # -1 => m.prev[a] \in Heads(m) /\ m.next[m.prev[a]] = a
<1>1. /\ Heads(m) \subseteq 0 .. Z - 1 /\ a \in 0 .. Z - 1
      /\ m.next[a] \in Heads(m) \cup {Z} /\ m.next[a] >= a + 2
      /\ m.prev[m.next[a]] = a
  BY DEF Chained
<1>2. a \in Nat /\ m.next[a] \in Nat /\ a + 2 <= m.next[a] /\ m.next[a] <= Z /\ Z \notin Heads(m)
  BY <1>1
<1>3. \A x \in Heads(m) : m.prev[m.next[x]] = x
  BY DEF Chained
<1>4. \A x \in Heads(m) : m.next[x] = m.next[a] => x = a
  BY <1>1, <1>3
<1>5. a # 0 => m.prev[a] \in Heads(m) /\ m.next[m.prev[a]] = a
  BY DEF Chained
<1>6. a = 0 => m.prev[a] = -1
  BY DEF Chained
<1>7. -1 \notin Heads(m)
  BY <1>1
<1> QED BY <1>2, <1>4, <1>5, <1>6, <1>7

(* A split leaves a chain.                                                 *)
LEMMA SplitChained ==
  ASSUME NEW Z \in Nat, Z >= 2, NEW m, Shape(m, Z), Chained(m, Z), NEW n,
         Shape(n, Z), NEW a \in Heads(m), NEW new \in Int,
         new >= a + 2, new <= m.next[a] - 2, IsSplit(m, n, a, new, Z)
  PROVE  Chained(n, Z)
<1>1. Z \in Nat
  OBVIOUS
<1>2. /\ a \in Nat /\ m.next[a] \in Nat /\ m.next[a] <= Z /\ Z \notin Heads(m)
      /\ m.next[a] \in Heads(m) \cup {Z}
      /\ new \notin Heads(m) \cup {Z}
  <2>1. a \in Nat /\ m.next[a] \in Nat /\ m.next[a] <= Z /\ Z \notin Heads(m)
    BY ChainFacts
  <2> QED BY <1>1, <2>1 DEF Chained
<1>3. Heads(n) = Heads(m) \cup {new} /\ Heads(n) \subseteq 0 .. Z - 1 /\ 0 \in Heads(n)
  BY <1>1, <1>2 DEF IsSplit, Chained
<1>4. /\ n.next[a] = new /\ n.next[new] = m.next[a]
      /\ \A x \in Heads(m) : x # a => n.next[x] = m.next[x]
      /\ n.prev[new] = a /\ n.prev[m.next[a]] = new
      /\ \A x \in Heads(m) \cup {Z} : x # m.next[a] => n.prev[x] = m.prev[x]
  BY <1>2, <1>3 DEF IsSplit
<1>5. n.prev[0] = -1
  BY <1>2, <1>4 DEF Chained
<1>6. ASSUME NEW x \in Heads(n)
      PROVE  /\ n.next[x] \in Heads(n) \cup {Z} /\ n.next[x] >= x + 2
             /\ n.prev[n.next[x]] = x
             /\ \A b \in Heads(n) : b <= x \/ b >= n.next[x]
  <2>1. CASE x = a
    BY <1>2, <1>3, <1>4, <2>1 DEF Chained
  <2>2. CASE x = new
    BY <1>2, <1>3, <1>4, <2>2 DEF Chained
  <2>3. CASE x # a /\ x # new
    <3>1. /\ x \in Heads(m) /\ m.next[x] \in Heads(m) \cup {Z} /\ m.next[x] >= x + 2
          /\ m.prev[m.next[x]] = x /\ (\A b \in Heads(m) : b <= x \/ b >= m.next[x])
      BY <1>3, <2>3 DEF Chained
    <3>2. m.next[x] # m.next[a]
      BY <2>3, <3>1 DEF Chained
    <3>3. n.next[x] = m.next[x] /\ n.prev[n.next[x]] = x
      BY <1>4, <2>3, <3>1, <3>2
    <3>4. new <= x \/ new >= m.next[x]
      <4>1. (a <= x \/ a >= m.next[x]) /\ (x <= a \/ x >= m.next[a])
        BY <3>1 DEF Chained
      <4> QED BY <1>2, <2>3, <3>1, <4>1 DEF Shape
    <3> QED BY <1>3, <3>1, <3>3, <3>4
  <2> QED BY <2>1, <2>2, <2>3
<1>7. ASSUME NEW x \in Heads(n) \cup {Z}, x # 0
      PROVE  n.prev[x] \in Heads(n) /\ n.next[n.prev[x]] = x
  <2>1. CASE x = new \/ x = m.next[a]
    BY <1>2, <1>3, <1>4, <2>1
  <2>2. CASE x # new /\ x # m.next[a]
    BY <1>2, <1>3, <1>4, <1>7, <2>2 DEF Chained
  <2> QED BY <2>1, <2>2
<1> QED BY <1>3, <1>5, <1>6, <1>7 DEF Chained

(* So does a merger.                                                       *)
LEMMA MergedChained ==
  ASSUME NEW Z \in Nat, Z >= 2, NEW m, Shape(m, Z), Chained(m, Z), NEW n,
         Shape(n, Z), NEW a \in Heads(m), m.next[a] \in Heads(m),
         IsMerged(m, n, a, Z)
  PROVE  Chained(n, Z)
<1> DEFINE b == m.next[a]
           c == m.next[b]
<1>1. /\ Z \in Nat /\ Z \notin Heads(m) /\ a \in Nat /\ b \in Nat /\ c \in Nat
      /\ a + 2 <= b /\ b + 2 <= c /\ c <= Z /\ c \in Heads(m) \cup {Z}
  BY ChainFacts DEF Chained
<1>2. \A x \in Heads(m) : (m.next[x] = b => x = a) /\ (m.next[x] = c => x = b)
  BY ChainFacts
<1>3. /\ Heads(n) = Heads(m) \ {b} /\ Heads(n) \subseteq 0 .. Z - 1 /\ 0 \in Heads(n) /\ a \in Heads(n)
      /\ c \in Heads(n) \cup {Z}
  BY <1>1 DEF IsMerged, Chained
<1>4. /\ n.next[a] = c /\ n.prev[c] = a
      /\ \A x \in Heads(n) : x # a => n.next[x] = m.next[x]
      /\ \A x \in Heads(n) \cup {Z} : x # c => n.prev[x] = m.prev[x]
  BY <1>3 DEF IsMerged
<1>c. /\ m.prev[0] = -1
      /\ \A x \in Heads(m) :
           /\ m.next[x] \in Heads(m) \cup {Z} /\ m.next[x] >= x + 2 /\ m.prev[m.next[x]] = x
           /\ \A y \in Heads(m) : y <= x \/ y >= m.next[x]
      /\ \A x \in Heads(m) \cup {Z} : x # 0 => m.prev[x] \in Heads(m) /\ m.next[m.prev[x]] = x
      /\ Heads(m) \subseteq Int
  BY DEF Chained, Shape
<1> HIDE DEF b, c
<1>b. b = m.next[a] /\ c = m.next[b] /\ b \in Heads(m)
  BY DEF b, c
<1>5. n.prev[0] = -1
  BY <1>1, <1>3, <1>4, <1>c
<1>6. ASSUME NEW x \in Heads(n)
      PROVE  /\ n.next[x] \in Heads(n) \cup {Z} /\ n.next[x] >= x + 2
             /\ n.prev[n.next[x]] = x
             /\ \A y \in Heads(n) : y <= x \/ y >= n.next[x]
  <2>1. CASE x = a
    <3>1. \A y \in Heads(n) : y <= a \/ y >= c
      <4> TAKE y \in Heads(n)
      <4>1. y \in Heads(m) /\ y # b /\ y \in Int
        BY <1>3, <1>c
      <4>2. (y <= a \/ y >= b) /\ (y <= b \/ y >= c)
        BY <1>b, <1>c, <4>1
      <4> QED BY <1>1, <4>1, <4>2
    <3> QED BY <1>1, <1>3, <1>4, <2>1, <3>1
  <2>2. CASE x # a
    <3>1. x \in Heads(m) /\ x # b /\ n.next[x] = m.next[x]
      BY <1>3, <1>4, <2>2
    <3>2. m.next[x] # b /\ m.next[x] # c
      BY <1>2, <2>2, <3>1
    <3>3. n.next[x] \in Heads(n) \cup {Z} /\ n.next[x] >= x + 2
      BY <1>3, <1>c, <3>1, <3>2
    <3>4. n.prev[n.next[x]] = x
      BY <1>4, <1>c, <3>1, <3>2, <3>3
    <3>5. \A y \in Heads(n) : y <= x \/ y >= n.next[x]
      BY <1>3, <1>c, <3>1
    <3> QED BY <3>3, <3>4, <3>5
  <2> QED BY <2>1, <2>2
<1>7. ASSUME NEW x \in Heads(n) \cup {Z}, x # 0
      PROVE  n.prev[x] \in Heads(n) /\ n.next[n.prev[x]] = x
  <2>1. CASE x = c
    BY <1>3, <1>4, <2>1
  <2>2. CASE x # c
    <3>1. x # b /\ n.prev[x] = m.prev[x] /\ m.prev[x] \in Heads(m) /\ m.next[m.prev[x]] = x
      BY <1>1, <1>3, <1>4, <1>7, <1>c, <1>b, <2>2
    <3>2. m.prev[x] # b /\ m.prev[x] # a
      BY <1>b, <2>2, <3>1
    <3> QED BY <1>3, <1>4, <3>1, <3>2
  <2> QED BY <2>1, <2>2
<1> QED BY <1>3, <1>5, <1>6, <1>7 DEF Chained

-----------------------------------------------------------------------------
(* _get_blk finds an area of the free queue that is long enough.           *)
LEMMA FirstFit ==
  ASSUME NEW Z \in Nat, Z >= 2, NEW m, Shape(m, Z), FreeExact(m, Z),
         NEW sz \in Nat \ {0}, fitting(m, sz) # {}
  PROVE  /\ first_fit(m, sz) \in Heads(m) \ m.used
         /\ m.next[first_fit(m, sz)] - (first_fit(m, sz) + 1) >= sz
<1>1. m.free \in Seq(Int) /\ fitting(m, sz) \subseteq DOMAIN m.free /\ DOMAIN m.free \subseteq Nat
  BY DEF Shape, fitting
<1>2. Min(fitting(m, sz)) \in fitting(m, sz)
  BY <1>1, MinOfNaturals
<1>3. first_fit(m, sz) = m.free[Min(fitting(m, sz))]
  BY DEF first_fit, Min, Min
<1>4. first_fit(m, sz) \in ToSet(m.free)
  BY <1>1, <1>2, <1>3 DEF ToSet
<1>5. BLOCKSIZE(m, first_fit(m, sz)) >= sz
  BY <1>2, <1>3 DEF fitting
<1> QED BY <1>4, <1>5 DEF FreeExact, BLOCKSIZE, BLOCKTOP, ROUNDSIZE

(* A block that is given out is that of a new marked area.                 *)
LEMMA GetSound ==
  ASSUME NEW Z \in Nat, Z >= 2, NEW m, NEW L, PoolSound(m, L, Z),
         NEW sz \in Nat \ {0}, fitting(m, sz) # {}
  PROVE  PoolSound(get_areas(m, sz),
                   L \cup {[top |-> get_block(m, sz), size |-> sz]}, Z)
<1> DEFINE a == first_fit(m, sz)
           h == new_area(m, a, sz)
           l == [top |-> h + 1, size |-> sz]
           n == get_areas(m, sz)
<1>1. Shape(m, Z) /\ Chained(m, Z) /\ FreeExact(m, Z) /\ LentExact(m, L)
  BY DEF PoolSound
<1>2. a \in Heads(m) \ m.used /\ m.next[a] - (a + 1) >= sz
  BY <1>1, FirstFit
<1>3. get_block(m, sz) = h + 1
  BY DEF get_block, BLOCKTOP, ROUNDSIZE
<1>4. /\ a \in Nat /\ m.next[a] \in Nat /\ a + 2 <= m.next[a] /\ m.next[a] <= Z
      /\ Z \notin Heads(m) /\ m.next[a] \in Heads(m) \cup {Z}
      /\ Z \in Nat /\ Heads(m) \subseteq Int
  BY <1>1, <1>2, ChainFacts DEF Chained, Shape
<1>5. \A k \in L : k.top \in Int /\ k.top - 1 \in Heads(m) \cap m.used
  BY <1>1 DEF LentExact
<1>6. CASE split_p(m, a, sz)
  <2>1. h = m.next[a] - 1 - sz /\ h >= a + 2 /\ h <= m.next[a] - 2 /\ h \in Int
    BY <1>2, <1>4, <1>6 DEF split_p, new_area, BLOCKSIZE, BLOCKTOP, ROUNDSIZE,
       MINSIZE
  <2>2. n = split(m, a, h)
    BY <1>6 DEF get_areas
  <2> HIDE DEF a, h, n
  <2>3. Shape(n, Z) /\ IsSplit(m, n, a, h, Z)
    BY <1>1, <1>2, <2>1, <2>2, SplitIs
  <2>4. Chained(n, Z)
    BY <1>1, <1>2, <2>1, <2>3, SplitChained
  <2>5. h \notin Heads(m) \cup {Z}
    BY <1>1, <1>2, <1>4, <2>1 DEF Chained
  <2>6. /\ Heads(n) = Heads(m) \cup {h} /\ n.next[a] = h /\ n.next[h] = m.next[a]
        /\ \A x \in Heads(m) : x # a => n.next[x] = m.next[x]
        /\ n.used = m.used \cup {h} /\ n.free = m.free
    BY <1>2, <2>3, <2>5 DEF IsSplit
  <2>7. FreeExact(n, Z)
    BY <1>1, <2>5, <2>6 DEF FreeExact
  <2>8. l.top = h + 1 /\ l.size = sz /\ l \in [top : Int, size : Nat \ {0}]
    BY <2>1
  <2>9. LentExact(n, L \cup {l})
    <3> HIDE DEF l
    <3>1. ASSUME NEW k \in L \cup {l}
          PROVE  /\ k \in [top : Int, size : Nat \ {0}] /\ k.top - 1 \in Heads(n) \cap n.used
                 /\ k.size <= n.next[k.top - 1] - k.top
      <4>1. CASE k \in L
        <5>1. k.top - 1 # a
          BY <1>2, <1>5, <4>1
        <5> QED BY <1>1, <1>5, <2>6, <4>1, <5>1 DEF LentExact
      <4>2. CASE k = l
        BY <1>4, <2>1, <2>6, <2>8, <4>2
      <4> QED BY <4>1, <4>2
    <3>2. ASSUME NEW k \in L \cup {l}, NEW j \in L \cup {l}, k.top = j.top PROVE k = j
      <4>1. \A i \in L : i.top # l.top
        BY <1>5, <2>1, <2>5, <2>8
      <4> QED BY <1>1, <3>2, <4>1 DEF LentExact
    <3>3. ASSUME NEW x \in Heads(n) \cap n.used PROVE \E k \in L \cup {l} : k.top = x + 1
      BY <1>1, <2>6, <2>8 DEF LentExact
    <3> QED BY <3>1, <3>2, <3>3 DEF LentExact
  <2> QED BY <1>3, <2>3, <2>4, <2>7, <2>9 DEF PoolSound, n, h, a
<1>7. CASE ~split_p(m, a, sz)
  <2>1. h = a
    BY <1>7 DEF new_area
  <2>2. n = take(m, a)
    BY <1>7 DEF get_areas
  <2> HIDE DEF a, h, n
  <2>3. /\ n.next = m.next /\ n.prev = m.prev /\ n.used = m.used \cup {a}
        /\ n.free = queue_delete(m.free, a)
        /\ n = [next |-> m.next, prev |-> m.prev, used |-> m.used \cup {a}, free |-> n.free]
    <3>1. n = [m EXCEPT !.free = queue_delete(m.free, a), !.used = m.used \cup {a}]
      BY <2>2 DEF take
    <3> QED BY <1>1, <3>1 DEF Shape
  <2>4. a \in ToSet(m.free) /\ m.free \in Queue(Int)
    BY <1>1, <1>2 DEF FreeExact
  <2>5. n.free \in Queue(Int) /\ ToSet(n.free) = ToSet(m.free) \ {a}
    BY <2>3, <2>4, QueueDelete
  <2>6. Heads(n) = Heads(m)
    BY <2>3 DEF Heads
  <2>7. Shape(n, Z)
    BY <1>1, <1>4, <2>3, <2>5, <2>6, <1>2 DEF Shape, Queue
  <2>8. Chained(n, Z)
    BY <1>1, <2>3, <2>6 DEF Chained
  <2>9. FreeExact(n, Z)
    BY <1>1, <1>2, <2>3, <2>5, <2>6 DEF FreeExact
  <2>10. l.top = a + 1 /\ l.size = sz /\ l \in [top : Int, size : Nat \ {0}]
    BY <1>4, <2>1
  <2>11. LentExact(n, L \cup {l})
    <3> HIDE DEF l
    <3>1. ASSUME NEW k \in L \cup {l}
          PROVE  /\ k \in [top : Int, size : Nat \ {0}] /\ k.top - 1 \in Heads(n) \cap n.used
                 /\ k.size <= n.next[k.top - 1] - k.top
      <4>1. CASE k \in L
        BY <1>1, <2>3, <2>6, <4>1 DEF LentExact
      <4>2. CASE k = l
        BY <1>2, <1>4, <2>3, <2>6, <2>10, <4>2
      <4> QED BY <4>1, <4>2
    <3>2. ASSUME NEW k \in L \cup {l}, NEW j \in L \cup {l}, k.top = j.top PROVE k = j
      <4>1. \A i \in L : i.top # l.top
        BY <1>2, <1>4, <1>5, <2>10
      <4> QED BY <1>1, <3>2, <4>1 DEF LentExact
    <3>3. ASSUME NEW x \in Heads(n) \cap n.used PROVE \E k \in L \cup {l} : k.top = x + 1
      BY <1>1, <2>3, <2>6, <2>10 DEF LentExact
    <3> QED BY <3>1, <3>2, <3>3 DEF LentExact
  <2> QED BY <1>3, <2>1, <2>7, <2>8, <2>9, <2>11 DEF PoolSound, n, h, a
<1> QED BY <1>6, <1>7

-----------------------------------------------------------------------------
(* An area becomes the head of the free queue.                             *)
LEMMA QueuePush ==
  ASSUME NEW S, NEW q \in Queue(S), NEW x \in S \ ToSet(q)
  PROVE  <<x>> \o q \in Queue(S) /\ ToSet(<<x>> \o q) = ToSet(q) \cup {x}
<1> DEFINE r == <<x>> \o q
<1>1. /\ q \in Seq(S) /\ Len(q) \in Nat /\ ToSet(q) = {q[j] : j \in 1 .. Len(q)}
      /\ \A j, k \in 1 .. Len(q) : q[j] = q[k] => j = k
  BY QueueEntries
<1>2. /\ r \in Seq(S) /\ Len(r) = Len(q) + 1 /\ r[1] = x
      /\ \A j \in 1 .. Len(q) : r[j + 1] = q[j]
  BY <1>1
<1> HIDE DEF r
<1>3. ASSUME NEW j \in 2 .. Len(q) + 1 PROVE j - 1 \in 1 .. Len(q) /\ r[j] = q[j - 1]
  <2>1. j - 1 \in 1 .. Len(q) /\ (j - 1) + 1 = j
    BY <1>1
  <2> QED BY <1>2, <2>1
<1>4. \A j \in 1 .. Len(q) : q[j] # x
  BY <1>1
<1>5. ASSUME NEW j \in 1 .. Len(r), NEW k \in 1 .. Len(r), r[j] = r[k] PROVE j = k
  <2>1. (j = 1 \/ j \in 2 .. Len(q) + 1) /\ (k = 1 \/ k \in 2 .. Len(q) + 1)
    BY <1>1, <1>2
  <2>2. CASE j = 1 \/ k = 1
    BY <1>2, <1>3, <1>4, <1>5, <2>1, <2>2
  <2>3. CASE j # 1 /\ k # 1
    <3>1. j - 1 = k - 1
      BY <1>1, <1>3, <1>5, <2>1, <2>3
    <3> QED BY <2>1, <2>3, <3>1
  <2> QED BY <2>2, <2>3
<1>6. r \in Queue(S) /\ ToSet(r) = {r[j] : j \in 1 .. Len(r)}
  BY <1>2, <1>5, QueueFromEntries
<1>7. ASSUME NEW y PROVE y \in ToSet(r) <=> y \in ToSet(q) \cup {x}
  <2>1. ASSUME NEW j \in 1 .. Len(r) PROVE r[j] \in ToSet(q) \cup {x}
    <3>1. j = 1 \/ j \in 2 .. Len(q) + 1
      BY <1>1, <1>2
    <3> QED BY <1>1, <1>2, <1>3, <3>1
  <2>2. ASSUME NEW j \in 1 .. Len(q) PROVE q[j] \in ToSet(r)
    <3>1. j + 1 \in 1 .. Len(r)
      BY <1>1, <1>2
    <3> QED BY <1>2, <1>6, <3>1
  <2>3. x \in ToSet(r)
    <3>1. 1 \in 1 .. Len(r)
      BY <1>1, <1>2
    <3> QED BY <1>2, <1>6, <3>1
  <2> QED BY <1>1, <1>6, <2>1, <2>2, <2>3
<1> QED BY <1>6, <1>7 DEF r

(* What a release leaves of the areas that stay marked: where they end.    *)
(* And an area that is free now, alone or with its neighbours.             *)
Released(m, n, a, Z) ==
  /\ Shape(n, Z) /\ Chained(n, Z) /\ FreeExact(n, Z)
  /\ Heads(n) \cap n.used = (Heads(m) \cap m.used) \ {a}
  /\ \A x \in (Heads(m) \cap m.used) \ {a} : n.next[x] = m.next[x]

(* Another free queue, and the same areas.                                 *)
LEMMA RequeueAreas ==
  ASSUME NEW Z \in Nat, Z >= 2, NEW m, Shape(m, Z), Chained(m, Z), NEW q \in Seq(Int)
  PROVE  LET n == [m EXCEPT !.free = q]
         IN  /\ Shape(n, Z) /\ Chained(n, Z) /\ Heads(n) = Heads(m)
             /\ n.next = m.next /\ n.prev = m.prev /\ n.used = m.used /\ n.free = q
<1> DEFINE n == [m EXCEPT !.free = q]
<1>1. /\ n.next = m.next /\ n.prev = m.prev /\ n.used = m.used /\ n.free = q
      /\ n = [next |-> m.next, prev |-> m.prev, used |-> m.used, free |-> q]
  <2>1. m = [next |-> m.next, prev |-> m.prev, used |-> m.used, free |-> m.free]
    BY DEF Shape
  <2>2. n = [next |-> m.next, prev |-> m.prev, used |-> m.used, free |-> q]
    BY <2>1
  <2> HIDE DEF n
  <2> QED BY <2>2
<1> HIDE DEF n
<1>2. Heads(n) = Heads(m)
  BY <1>1 DEF Heads
<1>3. Shape(n, Z)
  BY <1>1, <1>2 DEF Shape
<1>4. Chained(n, Z)
  BY <1>1, <1>2 DEF Chained
<1> QED BY <1>1, <1>2, <1>3, <1>4 DEF n

(* The mark of an area that is given back.                                 *)
LEMMA UnmarkAreas ==
  ASSUME NEW Z \in Nat, Z >= 2, NEW m, Shape(m, Z), Chained(m, Z), NEW a
  PROVE  LET n == release(m, a)
         IN  /\ Shape(n, Z) /\ Chained(n, Z) /\ Heads(n) = Heads(m)
             /\ n.next = m.next /\ n.prev = m.prev /\ n.used = m.used \ {a} /\ n.free = m.free
<1> DEFINE n == release(m, a)
<1>1. /\ n.next = m.next /\ n.prev = m.prev /\ n.used = m.used \ {a} /\ n.free = m.free
      /\ n = [next |-> m.next, prev |-> m.prev, used |-> m.used \ {a}, free |-> m.free]
  <2>1. m = [next |-> m.next, prev |-> m.prev, used |-> m.used, free |-> m.free]
    BY DEF Shape
  <2>2. n = [next |-> m.next, prev |-> m.prev, used |-> m.used \ {a}, free |-> m.free]
    BY <2>1 DEF release
  <2> HIDE DEF n
  <2> QED BY <2>2
<1> HIDE DEF n
<1>2. Heads(n) = Heads(m)
  BY <1>1 DEF Heads
<1>3. Shape(n, Z)
  BY <1>1, <1>2 DEF Shape
<1>4. Chained(n, Z)
  BY <1>1, <1>2 DEF Chained
<1> QED BY <1>1, <1>2, <1>3, <1>4 DEF n

(* An area that is given back is free, merged with its free neighbours.    *)
LEMMA ReleaseAreas ==
  ASSUME NEW Z \in Nat, Z >= 2, NEW m, Shape(m, Z), Chained(m, Z),
         FreeExact(m, Z), NEW a \in Heads(m) \cap m.used
  PROVE  Released(m, rel_areas(m, a + 1), a, Z)
<1> DEFINE r == release(m, a)
           p == m.prev[a]
           b == m.next[a]
           n == rel_areas(m, a + 1)
<1>1. /\ Z \notin Heads(m) /\ -1 \notin Heads(m) /\ Heads(m) \subseteq Int /\ a \in Nat
      /\ \A x \in Heads(m) : m.next[x] = b => x = a
      /\ \A x \in Heads(m) : m.next[x] = a => x = p
      /\ p # -1 => p \in Heads(m) /\ m.next[p] = a
      /\ b \in Heads(m) \cup {Z} /\ b # a
      /\ \A x \in Heads(m) : m.next[x] # x
  <2>1. Z \notin Heads(m) /\ a \in Nat /\ (p # -1 => p \in Heads(m) /\ m.next[p] = a)
    BY ChainFacts
  <2>2. \A x \in Heads(m) : m.next[x] = b => x = a
    BY ChainFacts
  <2>3. ASSUME NEW x \in Heads(m) PROVE (m.next[x] = a => x = p) /\ m.next[x] # x
    <3>1. x \in Nat /\ m.next[x] \in Nat /\ x + 2 <= m.next[x]
      BY <2>3, ChainFacts
    <3>2. m.next[x] = a => p = x
      BY <2>3 DEF Chained
    <3> QED BY <3>1, <3>2
  <2>4. b \in Heads(m) \cup {Z} /\ b # a
    BY <2>3 DEF Chained
  <2>5. -1 \notin Heads(m)
    BY DEF Chained
  <2> QED BY <2>1, <2>2, <2>3, <2>4, <2>5 DEF Shape
<1>2. /\ m.used \subseteq Heads(m) \cup {Z} /\ Z \in m.used /\ m.free \in Queue(Int)
      /\ ToSet(m.free) = Heads(m) \ m.used /\ a \notin ToSet(m.free)
      /\ \A x \in Heads(m) \ m.used : m.next[x] \in m.used
  BY DEF FreeExact
<1>3. /\ Shape(r, Z) /\ Chained(r, Z) /\ Heads(r) = Heads(m)
      /\ r.next = m.next /\ r.prev = m.prev /\ r.used = m.used \ {a} /\ r.free = m.free
  BY UnmarkAreas
<1>4. /\ AREATOP(a + 1) = a
      /\ FIRST_AREA(m, a) <=> p = -1
      /\ \A x : USED_AREA(m, x) <=> x \in m.used
  BY <1>1 DEF AREATOP, ROUNDSIZE, FIRST_AREA, USED_AREA, NULLAREA
<1>5. n = IF p = -1 \/ p \in m.used
          THEN IF b \in m.used THEN [r EXCEPT !.free = <<a>> \o r.free]
               ELSE [merge(r, a) EXCEPT !.free = <<a>> \o queue_delete(merge(r, a).free, b)]
          ELSE IF b \in m.used THEN merge(r, p)
               ELSE [merge(merge(r, a), p) EXCEPT
                      !.free = queue_delete(merge(merge(r, a), p).free, b)]
  BY <1>4 DEF rel_areas
<1> HIDE DEF r, p, b, n
<1>b. b = m.next[a]
  BY DEF b
<1>6. CASE (p = -1 \/ p \in m.used) /\ b \in m.used
  <2> DEFINE q == <<a>> \o m.free
  <2>1. q \in Queue(Int) /\ ToSet(q) = ToSet(m.free) \cup {a} /\ q \in Seq(Int)
    BY <1>1, <1>2, QueuePush DEF Queue
  <2>2. n = [r EXCEPT !.free = q]
    BY <1>3, <1>5, <1>6
  <2> HIDE DEF q
  <2>3. /\ Shape(n, Z) /\ Chained(n, Z) /\ Heads(n) = Heads(m)
        /\ n.next = m.next /\ n.used = m.used \ {a} /\ n.free = q
    BY <1>3, <2>1, <2>2, RequeueAreas
  <2>4. \A x \in Heads(m) \ n.used : m.next[x] \in n.used
    BY <1>1, <1>2, <1>6, <1>b, <2>3
  <2>5. FreeExact(n, Z)
    BY <1>1, <1>2, <2>1, <2>3, <2>4 DEF FreeExact
  <2> QED BY <2>3, <2>5 DEF Released, n
<1>7. CASE (p = -1 \/ p \in m.used) /\ b \notin m.used
  <2> DEFINE g == merge(r, a)
             q == <<a>> \o queue_delete(m.free, b)
  <2>1. b \in Heads(m) /\ b # Z /\ b \in ToSet(m.free)
    BY <1>1, <1>2, <1>7
  <2>2. Shape(g, Z) /\ IsMerged(r, g, a, Z)
    BY <1>1, <1>3, <1>b, <2>1, MergeIs
  <2>3. Chained(g, Z)
    BY <1>3, <1>b, <2>1, <2>2, MergedChained
  <2>4. queue_delete(m.free, b) \in Queue(Int) /\ ToSet(queue_delete(m.free, b)) = ToSet(m.free) \ {b}
    BY <1>2, <2>1, QueueDelete
  <2>5. q \in Queue(Int) /\ ToSet(q) = (ToSet(m.free) \ {b}) \cup {a} /\ q \in Seq(Int)
    BY <1>1, <1>2, <2>4, QueuePush DEF Queue
  <2>6. n = [g EXCEPT !.free = q]
    BY <1>3, <1>5, <1>7, <2>2 DEF IsMerged
  <2> HIDE DEF q, g
  <2>7. /\ Shape(n, Z) /\ Chained(n, Z) /\ Heads(n) = Heads(g) /\ n.next = g.next /\ n.used = g.used /\ n.free = q
    BY <2>2, <2>3, <2>5, <2>6, RequeueAreas
  <2>8. /\ Heads(n) = Heads(m) \ {b} /\ n.used = m.used \ {a}
        /\ \A x \in Heads(n) : n.next[x] = IF x = a THEN m.next[b] ELSE m.next[x]
    BY <1>3, <1>b, <2>2, <2>7 DEF IsMerged
  <2>9. m.next[b] \in n.used
    BY <1>1, <1>2, <1>7, <1>b, <2>1, <2>8
  <2>10. \A x \in Heads(n) \ n.used : n.next[x] \in n.used
    BY <1>1, <1>2, <1>7, <2>8, <2>9
  <2>11. FreeExact(n, Z)
    BY <1>1, <1>2, <1>7, <2>1, <2>5, <2>7, <2>8, <2>10 DEF FreeExact
  <2>12. \A x \in (Heads(m) \cap m.used) \ {a} : n.next[x] = m.next[x]
    BY <1>7, <2>8
  <2>13. Heads(n) \cap n.used = (Heads(m) \cap m.used) \ {a}
    BY <1>7, <2>8
  <2> QED BY <2>7, <2>11, <2>12, <2>13 DEF Released, n
<1>8. CASE ~(p = -1 \/ p \in m.used) /\ b \in m.used
  <2>1. p \in Heads(m) /\ m.next[p] = a /\ p # a /\ p \in ToSet(m.free)
    BY <1>1, <1>2, <1>8
  <2>2. n = merge(r, p)
    BY <1>5, <1>8
  <2>3. Shape(n, Z) /\ IsMerged(r, n, p, Z)
    BY <1>1, <1>3, <2>1, <2>2, MergeIs
  <2>4. Chained(n, Z)
    BY <1>3, <2>1, <2>3, MergedChained
  <2>5. /\ Heads(n) = Heads(m) \ {a} /\ n.used = m.used \ {a} /\ n.free = m.free
        /\ \A x \in Heads(n) : n.next[x] = IF x = p THEN b ELSE m.next[x]
    BY <1>3, <1>b, <2>1, <2>3 DEF IsMerged
  <2>6. \A x \in Heads(n) \ n.used : n.next[x] \in n.used
    BY <1>1, <1>2, <1>8, <2>5
  <2>7. FreeExact(n, Z)
    BY <1>1, <1>2, <2>5, <2>6 DEF FreeExact
  <2>8. /\ \A x \in (Heads(m) \cap m.used) \ {a} : n.next[x] = m.next[x]
        /\ Heads(n) \cap n.used = (Heads(m) \cap m.used) \ {a}
    BY <1>8, <2>5
  <2> QED BY <2>3, <2>4, <2>7, <2>8 DEF Released, n
<1>9. CASE ~(p = -1 \/ p \in m.used) /\ b \notin m.used
  <2> DEFINE f == merge(r, a)
             g == merge(f, p)
             q == queue_delete(m.free, b)
  <2>1. /\ p \in Heads(m) /\ m.next[p] = a /\ p # a /\ p \in ToSet(m.free)
        /\ b \in Heads(m) /\ b # Z /\ b \in ToSet(m.free) /\ p # b
    <3>1. p \in Heads(m) /\ m.next[p] = a /\ b \in Heads(m) /\ b # Z
      BY <1>1, <1>2, <1>9
    <3>2. p + 2 <= a /\ a + 2 <= b
      BY <1>b, <3>1 DEF Chained
    <3> QED BY <1>1, <1>2, <1>9, <3>1, <3>2
  <2>2. Shape(f, Z) /\ IsMerged(r, f, a, Z)
    BY <1>1, <1>3, <1>b, <2>1, MergeIs
  <2>3. Chained(f, Z)
    BY <1>3, <1>b, <2>1, <2>2, MergedChained
  <2>4. /\ Heads(f) = Heads(m) \ {b} /\ f.used = m.used \ {a} /\ f.free = m.free
        /\ \A x \in Heads(f) : f.next[x] = IF x = a THEN m.next[b] ELSE m.next[x]
    BY <1>3, <1>b, <2>2 DEF IsMerged
  <2>5. p \in Heads(f) /\ a \in Heads(f) /\ f.next[p] = a /\ f.next[a] = m.next[b]
    BY <1>1, <2>1, <2>4
  <2>6. Shape(g, Z) /\ IsMerged(f, g, p, Z)
    BY <1>1, <2>1, <2>2, <2>5, MergeIs
  <2>7. Chained(g, Z)
    BY <2>2, <2>3, <2>5, <2>6, MergedChained
  <2>8. q \in Queue(Int) /\ ToSet(q) = ToSet(m.free) \ {b} /\ q \in Seq(Int)
    BY <1>2, <2>1, QueueDelete DEF Queue
  <2>9. n = [g EXCEPT !.free = q]
    BY <1>5, <1>9, <2>4, <2>6 DEF IsMerged
  <2>10. /\ Heads(g) = Heads(m) \ {a, b} /\ g.used = m.used \ {a}
         /\ \A x \in Heads(g) : g.next[x] = IF x = p THEN m.next[b] ELSE m.next[x]
    BY <2>1, <2>4, <2>5, <2>6 DEF IsMerged
  <2> HIDE DEF q, f, g
  <2>11. /\ Shape(n, Z) /\ Chained(n, Z) /\ Heads(n) = Heads(g) /\ n.next = g.next /\ n.used = g.used /\ n.free = q
    BY <2>6, <2>7, <2>8, <2>9, RequeueAreas
  <2>12. m.next[b] \in n.used
    BY <1>1, <1>2, <1>9, <1>b, <2>1, <2>10, <2>11
  <2>13. \A x \in Heads(n) \ n.used : n.next[x] \in n.used
    BY <1>1, <1>2, <1>9, <2>10, <2>11, <2>12
  <2>14. FreeExact(n, Z)
    BY <1>1, <1>2, <1>9, <2>1, <2>8, <2>10, <2>11, <2>13 DEF FreeExact
  <2>15. /\ \A x \in (Heads(m) \cap m.used) \ {a} : n.next[x] = m.next[x]
         /\ Heads(n) \cap n.used = (Heads(m) \cap m.used) \ {a}
    BY <1>9, <2>10, <2>11
  <2> QED BY <2>11, <2>14, <2>15 DEF Released, n
<1> QED BY <1>6, <1>7, <1>8, <1>9 DEF n

(* The other blocks keep their areas.                                      *)
LEMMA RelSound ==
  ASSUME NEW Z \in Nat, Z >= 2, NEW m, NEW L, PoolSound(m, L, Z), NEW l \in L
  PROVE  PoolSound(rel_areas(m, l.top), L \ {l}, Z)
<1> DEFINE a == l.top - 1
           n == rel_areas(m, l.top)
<1>1. Shape(m, Z) /\ Chained(m, Z) /\ FreeExact(m, Z) /\ LentExact(m, L)
  BY DEF PoolSound
<1>2. l.top \in Int /\ a \in Heads(m) \cap m.used /\ a + 1 = l.top
  BY <1>1 DEF LentExact
<1>3. Released(m, n, a, Z)
  BY <1>1, <1>2, ReleaseAreas
<1> HIDE DEF n
<1>4. LentExact(n, L \ {l})
  <2>1. ASSUME NEW k \in L \ {l}
        PROVE  /\ k \in [top : Int, size : Nat \ {0}] /\ k.top - 1 \in Heads(n) \cap n.used
               /\ k.size <= n.next[k.top - 1] - k.top
    <3>1. /\ k \in [top : Int, size : Nat \ {0}] /\ k.top - 1 \in Heads(m) \cap m.used
          /\ k.size <= m.next[k.top - 1] - k.top /\ k.top # l.top
      BY <1>1, <2>1 DEF LentExact
    <3>2. k.top - 1 # a
      BY <1>2, <3>1
    <3> QED BY <1>3, <3>1, <3>2 DEF Released
  <2>2. ASSUME NEW x \in Heads(n) \cap n.used PROVE \E k \in L \ {l} : k.top = x + 1
    <3>1. x \in Heads(m) \cap m.used /\ x # a /\ x \in Int
      BY <1>1, <1>3, <2>2 DEF Released, Shape
    <3>2. PICK k \in L : k.top = x + 1
      BY <1>1, <3>1 DEF LentExact
    <3> QED BY <1>2, <3>1, <3>2
  <2> QED BY <1>1, <2>1, <2>2 DEF LentExact
<1> QED BY <1>3, <1>4 DEF PoolSound, Released, n

-----------------------------------------------------------------------------
(* The greatest element of a set of natural numbers that has a bound.      *)
LEMMA MaxOfBounded ==
  ASSUME NEW S \in SUBSET Nat, S # {}, NEW n \in Nat, \A x \in S : x <= n
  PROVE  Max(S) \in S /\ \A x \in S : x <= Max(S)
<1> DEFINE D == {n - x : x \in S}
<1>1. D \in SUBSET Nat /\ D # {}
  <2>1. ASSUME NEW x \in S PROVE n - x \in Nat
    <3>1. x \in Nat /\ x <= n
      OBVIOUS
    <3> QED BY <3>1
  <2>2. PICK x \in S : TRUE
    OBVIOUS
  <2>3. n - x \in D
    OBVIOUS
  <2>4. \A d \in D : d \in Nat
    BY <2>1
  <2> HIDE DEF D
  <2> QED BY <2>3, <2>4
<1>2. Min(D) \in D /\ \A d \in D : Min(D) <= d
  BY <1>1, MinOfNaturals
<1>3. PICK m \in S : Min(D) = n - m
  BY <1>2
<1>4. ASSUME NEW x \in S PROVE x <= m
  <2>1. n - x \in D
    OBVIOUS
  <2>2. n - m <= n - x
    BY <1>2, <1>3, <2>1
  <2> QED BY <2>2
<1>5. \E x \in S : \A y \in S : x >= y
  BY <1>4
<1> QED BY <1>5 DEF Max

(* What the module promises follows.                                       *)
LEMMA PoolIsSound ==
  ASSUME NEW Z \in Nat, Z >= 2, NEW m, NEW L, PoolSound(m, L, Z)
  PROVE  /\ AreasChained(m, Z) /\ FreeQueueExact(m) /\ BlocksDisjoint(m, L, Z)
         /\ RefMplTrue(m, Z) /\ WholeAgain(m, L, Z)
<1>1. Shape(m, Z) /\ Chained(m, Z) /\ FreeExact(m, Z) /\ LentExact(m, L)
  BY DEF PoolSound
<1>2. DOMAIN m.next = Heads(m)
  BY DEF Heads
<1>3. /\ Z \in Nat /\ Z \notin Heads(m)
      /\ \A a \in Heads(m) : /\ a \in Nat /\ m.next[a] \in Nat
                                /\ a + 2 <= m.next[a] /\ m.next[a] <= Z
                                /\ \A b \in Heads(m) : b <= a \/ b >= m.next[a]
  BY <1>1, ChainFacts DEF Chained
<1>4. AreasChained(m, Z)
  <2>1. DOMAIN m.prev = Heads(m) \cup {Z}
    BY <1>1 DEF Shape
  <2> QED BY <1>1, <1>2, <2>1 DEF Chained, AreasChained, FIRST_AREA, NULLAREA, MINSIZE
<1>5. FreeQueueExact(m)
  BY <1>1, <1>2 DEF FreeExact, Queue, FreeQueueExact
<1>6. ASSUME NEW l \in L
      PROVE  /\ l.top \in Int /\ l.size \in Nat \ {0} /\ l.top - 1 \in Heads(m) \cap m.used
             /\ l.top + l.size <= m.next[l.top - 1]
             /\ block_bytes(l) = l.top .. l.top + l.size - 1
  <2>1. l.top \in Int /\ l.size \in Nat \ {0} /\ l.top - 1 \in Heads(m) \cap m.used
        /\ l.size <= m.next[l.top - 1] - l.top
    BY <1>1 DEF LentExact
  <2>2. m.next[l.top - 1] \in Nat
    BY <1>3, <2>1
  <2> QED BY <2>1, <2>2 DEF block_bytes
<1>7. ASSUME NEW l \in L
      PROVE  /\ AREATOP(l.top) \in Heads(m) \cap m.used
             /\ l.size <= BLOCKSIZE(m, AREATOP(l.top))
             /\ block_bytes(l) \cap (Heads(m) \cup {Z}) = {}
             /\ block_bytes(l) \subseteq 0 .. Z - 1
  <2>1. AREATOP(l.top) = l.top - 1
    BY DEF AREATOP, ROUNDSIZE
  <2>2. BLOCKSIZE(m, l.top - 1) = m.next[l.top - 1] - l.top
    BY <1>6 DEF BLOCKSIZE, BLOCKTOP, ROUNDSIZE
  <2>3. m.next[l.top - 1] \in Nat /\ m.next[l.top - 1] <= Z /\ l.top - 1 \in Nat
    BY <1>3, <1>6
  <2>4. ASSUME NEW x \in block_bytes(l) PROVE x \notin Heads(m) \cup {Z} /\ x \in 0 .. Z - 1
    <3>1. x \in Int /\ x > l.top - 1 /\ x < m.next[l.top - 1]
      <4>1. x \in l.top .. l.top + l.size - 1 /\ l.top \in Int /\ l.size \in Nat
            /\ l.top + l.size <= m.next[l.top - 1]
        BY <1>6, <2>4
      <4> QED BY <2>3, <4>1
    <3>2. ASSUME NEW b \in Heads(m) PROVE b \in Nat /\ (b <= l.top - 1 \/ b >= m.next[l.top - 1])
      BY <1>3, <1>6
    <3>3. x \notin Heads(m)
      BY <2>3, <3>1, <3>2
    <3>4. x # Z /\ x \in 0 .. Z - 1
      BY <1>3, <2>3, <3>1
    <3> QED BY <3>3, <3>4
  <2> QED BY <1>2, <1>6, <2>1, <2>2, <2>3, <2>4
<1>8. ASSUME NEW l \in L, NEW k \in L, l # k PROVE block_bytes(l) \cap block_bytes(k) = {}
  <2>1. l.top # k.top
    BY <1>1, <1>8 DEF LentExact
  <2>2. \/ l.top - 1 >= m.next[k.top - 1]
        \/ k.top - 1 >= m.next[l.top - 1]
    <3>1. /\ l.top - 1 <= k.top - 1 \/ l.top - 1 >= m.next[k.top - 1]
          /\ k.top - 1 <= l.top - 1 \/ k.top - 1 >= m.next[l.top - 1]
      BY <1>3, <1>6
    <3> QED BY <1>6, <2>1, <3>1
  <2>3. /\ m.next[l.top - 1] \in Nat /\ l.top + l.size <= m.next[l.top - 1]
        /\ m.next[k.top - 1] \in Nat /\ k.top + k.size <= m.next[k.top - 1]
        /\ l.top \in Int /\ l.size \in Nat /\ k.top \in Int /\ k.size \in Nat
    BY <1>3, <1>6
  <2>4. \/ k.top + k.size <= l.top - 1
        \/ l.top + l.size <= k.top - 1
    BY <2>2, <2>3
  <2>5. (l.top .. l.top + l.size - 1) \cap (k.top .. k.top + k.size - 1) = {}
    BY <2>3, <2>4
  <2> QED BY <1>6, <2>5
<1>9. BlocksDisjoint(m, L, Z)
  BY <1>2, <1>7, <1>8 DEF BlocksDisjoint
<1>10. RefMplTrue(m, Z)
  <2> DEFINE S == free_sizes(m)
             M == Max(S \cup {0})
  <2>1. ASSUME NEW a \in Heads(m)
        PROVE  BLOCKSIZE(m, a) = m.next[a] - (a + 1) /\ BLOCKSIZE(m, a) \in 0 .. Z
    BY <1>3, <2>1 DEF BLOCKSIZE, BLOCKTOP, ROUNDSIZE
  <2>2. \A s : s \in S <=> \E a \in Heads(m) \ m.used : s = BLOCKSIZE(m, a)
    BY DEF free_sizes, USED_AREA, Heads
  <2>3. S \cup {0} \in SUBSET Nat /\ S \cup {0} # {} /\ \A x \in S \cup {0} : x <= Z
    BY <1>3, <2>1, <2>2
  <2>4. M \in S \cup {0} /\ \A x \in S \cup {0} : x <= M
    <3> HIDE DEF S
    <3> QED BY <1>3, <2>3, MaxOfBounded
  <2>5. ref_maxsz(m) = M
    BY DEF ref_maxsz
  <2> HIDE DEF S, M
  <2>6. ASSUME NEW sz \in 1 .. Z
        PROVE  fitting(m, sz) # {} <=> sz <= ref_maxsz(m)
    <3>1. ASSUME NEW i \in fitting(m, sz) PROVE sz <= M
      <4>1. i \in DOMAIN m.free /\ BLOCKSIZE(m, m.free[i]) >= sz
        BY DEF fitting
      <4>2. m.free[i] \in ToSet(m.free)
        BY <4>1, <1>1 DEF ToSet, Shape
      <4>3. m.free[i] \in Heads(m) \ m.used
        BY <1>1, <4>2 DEF FreeExact
      <4>4. BLOCKSIZE(m, m.free[i]) \in S
        BY <2>2, <4>3
      <4>5. BLOCKSIZE(m, m.free[i]) <= M
        BY <2>4, <4>4
      <4> QED BY <2>1, <2>3, <2>4, <4>1, <4>3, <4>5
    <3>2. ASSUME sz <= M PROVE fitting(m, sz) # {}
      <4>1. M # 0
        BY <3>2
      <4>2. PICK a \in Heads(m) \ m.used : M = BLOCKSIZE(m, a)
        BY <2>2, <2>4, <4>1
      <4>3. a \in ToSet(m.free)
        BY <1>1, <4>2 DEF FreeExact
      <4>4. PICK i \in DOMAIN m.free : m.free[i] = a
        BY <1>1, <4>3 DEF ToSet, Shape
      <4> QED BY <3>2, <4>2, <4>4, <2>1 DEF fitting
    <3> QED BY <2>5, <3>1, <3>2
  <2> QED BY <2>6 DEF RefMplTrue
<1>11. WholeAgain(m, L, Z)
  <2> SUFFICES ASSUME L = {} PROVE m = init_mpl(Z)
    BY DEF WholeAgain
  <2>1. Heads(m) \cap m.used = {} /\ m.used = {Z}
    BY <1>1, <1>3 DEF LentExact, FreeExact
  <2>2. 0 \in Heads(m) /\ m.next[0] = Z
    BY <1>1, <2>1 DEF Chained, FreeExact
  <2>3. Heads(m) = {0}
    BY <1>1, <1>3, <2>2 DEF Chained
  <2>4. /\ m.next \in [{0} -> Int] /\ m.prev \in [{0, Z} -> Int]
        /\ m = [next |-> m.next, prev |-> m.prev, used |-> m.used, free |-> m.free]
    BY <1>1, <2>3 DEF Shape
  <2>5. m.next = [a \in {0} |-> Z]
    BY <2>2, <2>4
  <2>6. m.prev = [a \in {0, Z} |-> IF a = 0 THEN -1 ELSE 0]
    <3>1. m.prev[0] = -1 /\ m.prev[Z] = 0
      BY <1>1, <2>2 DEF Chained
    <3> QED BY <2>4, <3>1
  <2>7. m.free = <<0>>
    <3>1. m.free \in Queue(Int) /\ ToSet(m.free) = {0}
      BY <1>1, <1>3, <2>1, <2>3 DEF FreeExact
    <3>2. /\ m.free \in Seq(Int) /\ Len(m.free) \in Nat
          /\ ToSet(m.free) = {m.free[j] : j \in 1 .. Len(m.free)}
          /\ \A j, k \in 1 .. Len(m.free) : m.free[j] = m.free[k] => j = k
      BY <3>1, QueueEntries
    <3>3. PICK i \in 1 .. Len(m.free) : m.free[i] = 0
      BY <3>1, <3>2
    <3>4. \A j \in 1 .. Len(m.free) : m.free[j] = 0 /\ j = i
      BY <3>1, <3>2, <3>3
    <3>5. 1 \in 1 .. Len(m.free) /\ Len(m.free) \in 1 .. Len(m.free)
      BY <3>2, <3>3
    <3>6. Len(m.free) = 1 /\ m.free[1] = 0
      BY <3>4, <3>5
    <3> QED BY <3>2, <3>6
  <2> QED BY <2>1, <2>4, <2>5, <2>6, <2>7 DEF init_mpl, NULLAREA
<1> QED BY <1>4, <1>5, <1>9, <1>10, <1>11

(* A pool starts as one free area.                                         *)
LEMMA PoolStart ==
  ASSUME NEW Z \in Nat, Z >= 2
  PROVE  PoolSound(init_mpl(Z), {}, Z)
<1> DEFINE m == init_mpl(Z)
<1>2. /\ m.next = [a \in {0} |-> Z]
      /\ m.prev = [a \in {0, Z} |-> IF a = 0 THEN -1 ELSE 0]
      /\ m.used = {Z} /\ m.free = <<0>>
      /\ m = [next |-> m.next, prev |-> m.prev, used |-> m.used, free |-> m.free]
  BY DEF init_mpl, NULLAREA
<1> HIDE DEF m
<1>3. Heads(m) = {0}
  BY <1>2 DEF Heads
<1>4. <<0>> \in Queue(Int) /\ ToSet(<<0>>) = {0} /\ <<0>> \in Seq(Int)
  BY DEF Queue, IsInjective, ToSet
<1>5. Shape(m, Z)
  <2>1. m.next \in [{0} -> Int] /\ m.prev \in [{0} \cup {Z} -> Int]
    BY <1>2
  <2>2. m.free \in Seq(Int) /\ m.used \in SUBSET Int
    BY <1>2, <1>4
  <2>3. m = [next |-> m.next, prev |-> m.prev, used |-> m.used, free |-> m.free]
    BY <1>2
  <2>4. Heads(m) \subseteq Int
    BY <1>3
  <2> QED BY <1>3, <2>1, <2>2, <2>3, <2>4 DEF Shape
<1>6. Chained(m, Z)
  BY <1>2, <1>3 DEF Chained
<1>7. FreeExact(m, Z)
  BY <1>2, <1>3, <1>4 DEF FreeExact
<1>8. LentExact(m, {})
  BY <1>2, <1>3 DEF LentExact
<1> QED BY <1>5, <1>6, <1>7, <1>8 DEF PoolSound, m

(* A set of steps that goes on from each step to the next holds them all.  *)
LEMMA UpTo ==
  ASSUME NEW N \in Nat, NEW S, 0 \in S, \A n \in 1 .. N : n - 1 \in S => n \in S
  PROVE  \A n \in 0 .. N : n \in S
<1> DEFINE Bad == {n \in 0 .. N : n \notin S}
<1> SUFFICES ASSUME Bad # {} PROVE FALSE
  OBVIOUS
<1>1. Bad \in SUBSET Nat
  OBVIOUS
<1>a. \A n \in 0 .. N : n \in Bad <=> n \notin S
  OBVIOUS
<1>b. Bad \subseteq 0 .. N
  OBVIOUS
<1> HIDE DEF Bad
<1>2. PICK n \in Bad : \A k \in Bad : n <= k
  BY <1>1, MinOfNaturals
<1>3. n \in 1 .. N
  BY <1>a, <1>b, <1>2
<1>4. n - 1 \in 0 .. N /\ n - 1 \notin Bad
  BY <1>2, <1>3
<1>5. n - 1 \in S
  BY <1>a, <1>4
<1>6. n \in S
  BY <1>3, <1>5
<1>7. n \in 0 .. N
  BY <1>3
<1> QED BY <1>a, <1>2, <1>6, <1>7

(* f is defined by recursion on the number of steps.                       *)
Recurs(f, N, start, step) ==
  f = [n \in 0 .. N |-> IF n = 0 THEN start ELSE step[n][f[n - 1]]]

(* There is such a function.                                               *)
LEMMA Recursive ==
  ASSUME NEW N \in Nat, NEW S, NEW start \in S, NEW step \in [1 .. N -> [S -> S]]
  PROVE  \E f \in [0 .. N -> S] : Recurs(f, N, start, step)
<1>1. PICK f \in [0 .. N -> S] : Walks(f, N, start, step)
  BY Walk
<1>2. ASSUME NEW n \in 0 .. N
      PROVE  f[n] = IF n = 0 THEN start ELSE step[n][f[n - 1]]
  <2>1. n = 0 \/ n \in 1 .. N
    OBVIOUS
  <2> QED BY <1>1, <2>1 DEF Walks
<1>3. Recurs(f, N, start, step)
  BY <1>2 DEF Recurs
<1> QED BY <1>3

-----------------------------------------------------------------------------
(***************************************************************************)
(* 2. Memory pools.                                                        *)
(***************************************************************************)
(* The tasks that a walk has made ready are in its ready queue in their    *)
(* order in the sequence.                                                  *)
InTurn(after, tasks, W, n) ==
  \A i, j \in 1 .. n :
    /\ i < j /\ tasks[i] \in W /\ tasks[j] \in W
    /\ state[tasks[i]] = "WAIT" /\ state[tasks[j]] = "WAIT"
    /\ priority[tasks[i]] = priority[tasks[j]]
    => before(after.sched.rq.tskque[priority[tasks[i]]], tasks[i], tasks[j])

(* One step of the walk appends one task to the queue of its priority.     *)
LEMMA MadeReadyAppends ==
  ASSUME NEW S \in SUBSET Task, NEW pri \in PriorityMap, NEW rq, Consistent(rq, S, pri),
         NEW t \in Task
  PROVE  /\ \A k \in Priority : \A u, v : before(rq.tskque[k], u, v) =>
              before(ready_queue_insert(rq, t, pri[t]).tskque[k], u, v)
         /\ \A u \in S : pri[u] = pri[t] =>
              before(ready_queue_insert(rq, t, pri[t]).tskque[pri[t]], u, t)
<1> DEFINE p == pri[t]
           q == rq.tskque
           q2 == ready_queue_insert(rq, t, p).tskque
<1>1. p \in Priority /\ q \in [Priority -> Seq(Task)]
  BY DEF PriorityMap, Consistent, RDYQUE
<1>2. q2 = [q EXCEPT ![p] = Append(q[p], t)]
  BY DEF ready_queue_insert
<1>3. q[p] \in Seq(Task) /\ ToSet(q[p]) = {u \in S : pri[u] = p}
  BY <1>1, ConsistentQueues DEF QueueOf
<1> HIDE DEF q, q2, p
<1>4. q2[p] = Append(q[p], t) /\ \A k \in Priority \ {p} : q2[k] = q[k]
  BY <1>1, <1>2
<1>5. \A u, v : before(q2[p], u, v) <=> before(q[p], u, v) \/ (v = t /\ u \in ToSet(q[p]))
  BY <1>3, <1>4, AppendKeepsOrder
<1>6. \A k \in Priority : \A u, v : before(q[k], u, v) => before(q2[k], u, v)
  BY <1>4, <1>5
<1>7. \A u \in S : pri[u] = p => before(q2[p], u, t)
  BY <1>3, <1>5
<1> QED BY <1>6, <1>7 DEF q, q2, p

(* The tasks that one call releases stand in the ready queue as they stood *)
(* in the wait queue.                                                      *)
LEMMA ReleasedInTurn ==
  ASSUME IInv, NEW tasks \in Queue(Task), NEW W \in SUBSET ToSet(tasks),
         \A t \in W : waiting(t) /\ wspec[t] \in Gcb, wait_release_those(tasks, W),
         NEW t \in W, NEW u \in W, before(tasks, t, u), state'[t] = "READY", state'[u] = "READY",
         priority[t] = priority[u]
  PROVE  before(ready_queue'.tskque[priority[t]], t, u)
<1> DEFINE N == Len(tasks)
<1>q. /\ N \in Nat /\ ToSet(tasks) = {tasks[j] : j \in 1 .. N} /\ DOMAIN tasks = 1 .. N
      /\ \A j, k \in 1 .. N : tasks[j] = tasks[k] => j = k
      /\ \A j \in 1 .. N : tasks[j] \in Task
  BY QueueEntries DEF Queue
<1>i. StateType /\ SchedInv /\ schedtsk \in Task \cup {NoTask} /\ WaitQueues
  BY DEF IInv, TypeOK, StateType, WaitInv
<1>1. PICK after : /\ release_walk(tasks, W) = after[N]
                   /\ \A n \in 1 .. N :
                        after[n] = IF tasks[n] \in W THEN wait_ended(after[n - 1], tasks[n])
                                                     ELSE after[n - 1]
                   /\ \A n \in 0 .. N : ReleasedSoFar(after[n], FirstOf(tasks, W, n))
  BY <1>i, ReleaseWalks
<1> DEFINE Good == {n \in 0 .. N : InTurn(after[n], tasks, W, n)}
<1>2. 0 \in Good
  BY <1>q DEF InTurn
<1>3. ASSUME NEW n \in 1 .. N, n - 1 \in Good PROVE n \in Good
  <2> DEFINE rq == after[n - 1].sched.rq
             S  == ReadyTasks \cup {v \in FirstOf(tasks, W, n - 1) : state[v] = "WAIT"}
             x  == tasks[n]
  <2>1. n - 1 \in 0 .. N /\ n \in 0 .. N /\ x \in Task
    BY <1>q
  <2>2. Consistent(rq, S, priority)
    BY <1>1, <2>1 DEF ReleasedSoFar
  <2>3. S \in SUBSET Task /\ priority \in PriorityMap
    BY <1>i, <1>q DEF ReadyTasks, FirstOf, StateType, PriorityMap
  <2> DEFINE rq2 == ready_queue_insert(rq, x, priority[x])
  <2>4. /\ \A k \in Priority : \A v, w : before(rq.tskque[k], v, w) => before(rq2.tskque[k], v, w)
        /\ \A v \in S : priority[v] = priority[x] => before(rq2.tskque[priority[x]], v, x)
    <3> HIDE DEF S, rq
    <3> QED BY <2>1, <2>2, <2>3, MadeReadyAppends
  <2>5. after[n].sched.rq = IF x \in W /\ state[x] = "WAIT" THEN rq2 ELSE rq
    <3>1. after[n] = IF x \in W THEN wait_ended(after[n - 1], x) ELSE after[n - 1]
      BY <1>1
    <3>2. wait_ended(after[n - 1], x).sched.rq = IF state[x] = "WAIT" THEN rq2 ELSE rq
      BY DEF wait_ended, made_ready
    <3> QED BY <3>1, <3>2
  <2> SUFFICES ASSUME NEW i \in 1 .. n, NEW j \in 1 .. n, i < j,
                      tasks[i] \in W, tasks[j] \in W,
                      state[tasks[i]] = "WAIT", state[tasks[j]] = "WAIT",
                      priority[tasks[i]] = priority[tasks[j]]
               PROVE  before(after[n].sched.rq.tskque[priority[tasks[i]]], tasks[i], tasks[j])
    BY <2>1 DEF InTurn
  <2>6. priority[tasks[i]] \in Priority
    BY <1>q, <2>3 DEF PriorityMap
  <2>7. CASE j = n
    <3>1. i \in 1 .. n - 1 /\ tasks[i] \in S
      BY <1>q, <2>7 DEF FirstOf
    <3> HIDE DEF S, rq, rq2
    <3> QED BY <2>4, <2>5, <2>7, <3>1
  <2>8. CASE j # n
    <3>1. i \in 1 .. n - 1 /\ j \in 1 .. n - 1
      BY <2>8
    <3>2. before(rq.tskque[priority[tasks[i]]], tasks[i], tasks[j])
      BY <1>3, <3>1 DEF InTurn
    <3> HIDE DEF S, rq, rq2
    <3> QED BY <2>4, <2>5, <2>6, <3>2
  <2> QED BY <2>7, <2>8
<1>4. N \in Good
  <2> HIDE DEF Good
  <2>1. \A n \in 0 .. N : n \in Good
    BY <1>2, <1>3, <1>q, UpTo
  <2> QED BY <1>q, <2>1
<1>5. ready_queue' = after[N].sched.rq
  BY <1>1 DEF wait_release_those
<1>6. \A v \in W : v \in Task /\ (state'[v] = "READY" => state[v] = "WAIT")
  BY <1>q DEF wait_release_those, waiting, TS_WAIT
<1>7. PICK i \in 1 .. N, j \in 1 .. N : i < j /\ tasks[i] = t /\ tasks[j] = u
  BY <1>q DEF before
<1> QED BY <1>4, <1>5, <1>6, <1>7 DEF InTurn

(* No free area is long enough for a block of this size.                   *)
NoRoom(m, sz) == \A a \in Heads(m) \ m.used : m.next[a] - (a + 1) < sz

(* Then the free queue has no place for it.                                *)
LEMMA FittingIs ==
  ASSUME NEW Z \in Nat, NEW m, Shape(m, Z), FreeExact(m, Z), NEW sz \in Nat
  PROVE  fitting(m, sz) = {} <=> NoRoom(m, sz)
<1>1. m.free \in Seq(Int) /\ ToSet(m.free) = Heads(m) \ m.used
  BY DEF Shape, FreeExact
<1>2. ToSet(m.free) = {m.free[i] : i \in DOMAIN m.free}
  BY DEF ToSet
<1>3. \A a \in Heads(m) : m.next[a] \in Int /\ a \in Int
  BY DEF Shape
<1>4. \A i \in DOMAIN m.free : m.free[i] \in Heads(m) \ m.used
  BY <1>1, <1>2
<1>5. fitting(m, sz) = {i \in DOMAIN m.free : m.next[m.free[i]] - (m.free[i] + 1) >= sz}
  BY DEF fitting, BLOCKSIZE, BLOCKTOP, ROUNDSIZE
<1>6. ASSUME fitting(m, sz) = {} PROVE NoRoom(m, sz)
  <2> SUFFICES ASSUME NEW a \in Heads(m) \ m.used PROVE m.next[a] - (a + 1) < sz
    BY DEF NoRoom
  <2>1. PICK i \in DOMAIN m.free : m.free[i] = a
    BY <1>1, <1>2
  <2> QED BY <1>3, <1>5, <1>6, <2>1
<1>7. ASSUME NoRoom(m, sz) PROVE fitting(m, sz) = {}
  <2> SUFFICES ASSUME NEW i \in fitting(m, sz) PROVE FALSE
    OBVIOUS
  <2>1. i \in DOMAIN m.free /\ m.next[m.free[i]] - (m.free[i] + 1) >= sz
    BY <1>5
  <2>2. m.next[m.free[i]] - (m.free[i] + 1) < sz
    BY <1>4, <1>7, <2>1 DEF NoRoom
  <2> QED BY <1>3, <1>4, <2>1, <2>2
<1> QED BY <1>6, <1>7

(* A block that is taken leaves no more room than there was.               *)
LEMMA GetShrinks ==
  ASSUME NEW Z \in Nat, Z >= 2, NEW m, NEW L, PoolSound(m, L, Z), NEW sz \in Nat \ {0},
         fitting(m, sz) # {}, NEW s2 \in Nat, NoRoom(m, s2)
  PROVE  NoRoom(get_areas(m, sz), s2)
<1> DEFINE a == first_fit(m, sz)
           n == get_areas(m, sz)
<1>1. Shape(m, Z) /\ Chained(m, Z) /\ FreeExact(m, Z)
  BY DEF PoolSound
<1>2. a \in Heads(m) \ m.used /\ m.next[a] - (a + 1) >= sz
  BY <1>1, FirstFit
<1>3. \A x \in Heads(m) : m.next[x] \in Int /\ x \in Int
  BY <1>1 DEF Shape
<1>4. CASE split_p(m, a, sz)
  <2> DEFINE new == new_area(m, a, sz)
  <2>1. n = split(m, a, new)
    BY <1>4 DEF get_areas
  <2>2. new = m.next[a] - sz - 1
    BY <1>2, <1>3, <1>4 DEF new_area, BLOCKSIZE, BLOCKTOP, ROUNDSIZE
  <2>3. IsSplit(m, n, a, new, Z)
    BY <1>1, <1>2, <1>3, <2>1, <2>2, SplitIs
  <2> HIDE DEF n, new, a
  <2>4. ASSUME NEW x \in Heads(n) \ n.used PROVE n.next[x] - (x + 1) < s2
    <3>1. x \in Heads(m) \ m.used /\ x # new
      BY <2>3, <2>4 DEF IsSplit
    <3>2. n.next[x] = IF x = a THEN new ELSE m.next[x]
      BY <2>3, <2>4, <3>1 DEF IsSplit
    <3>3. m.next[x] - (x + 1) < s2
      BY <3>1 DEF NoRoom
    <3> QED BY <1>2, <1>3, <2>2, <3>1, <3>2, <3>3
  <2> QED BY <2>4 DEF NoRoom, n
<1>5. CASE ~split_p(m, a, sz)
  <2>1. n = take(m, a)
    BY <1>5 DEF get_areas
  <2>2. n.next = m.next /\ n.used = m.used \cup {a}
    <3>1. m = [next |-> m.next, prev |-> m.prev, used |-> m.used, free |-> m.free]
      BY <1>1 DEF Shape
    <3> QED BY <2>1, <3>1 DEF take
  <2> HIDE DEF n, a
  <2>3. NoRoom(n, s2)
    BY <2>2 DEF NoRoom, Heads
  <2> QED BY <2>3 DEF n
<1> QED BY <1>4, <1>5

-----------------------------------------------------------------------------
(* The walk of wakeup_mpl in a pool of size Z of which the program has the *)
(* blocks L.                                                               *)
AreaSet(Z) ==
  UNION {[next : [D -> Int], prev : [D \cup {Z} -> Int], used : SUBSET Int, free : Seq(Int)] :
         D \in SUBSET Int}

ServeState(L, Z) ==
  {w \in [areas : AreaSet(Z), granted : SUBSET [top : Int, size : BlockSizes],
          released : SUBSET Task, maxsz : Int] : PoolSound(w.areas, L \cup w.granted, Z)}

(* Areas of a pool are in this set.                                        *)
LEMMA InAreaSet ==
  ASSUME NEW Z \in Nat, NEW m, Shape(m, Z)
  PROVE  m \in AreaSet(Z)
BY DEF Shape, AreaSet

(* What a step of the walk does for t.                                     *)
Serves(w, new, t) ==
  \/ blksz[t] > w.maxsz /\ new = w
  \/ /\ fitting(w.areas, blksz[t]) # {}
     /\ new.areas = get_areas(w.areas, blksz[t]) /\ new.maxsz = w.maxsz
     /\ new.released = w.released \cup {t}
  \/ /\ fitting(w.areas, blksz[t]) = {}
     /\ new.areas = w.areas /\ new.maxsz = blksz[t] /\ new.released = w.released

(* It gives out a block in addition, or none.                              *)
LEMMA ServeType ==
  ASSUME NEW Z \in Nat, Z >= 2, NEW L, blksz \in [Task -> BlockSizes],
         NEW w \in ServeState(L, Z), NEW t \in Task
  PROVE  /\ serve(w, t) \in ServeState(L, Z)
         /\ Serves(w, serve(w, t), t)
<1> DEFINE sz == blksz[t]
           l  == block(get_block(w.areas, sz), sz)
           n  == get_areas(w.areas, sz)
<1>1. sz \in BlockSizes /\ sz \in Nat \ {0}
  BY MemoryPoolAssumption
<1>2. /\ w = [areas |-> w.areas, granted |-> w.granted, released |-> w.released, maxsz |-> w.maxsz]
      /\ w.granted \in SUBSET [top : Int, size : BlockSizes] /\ w.released \in SUBSET Task
      /\ w.maxsz \in Int /\ w.areas \in AreaSet(Z) /\ PoolSound(w.areas, L \cup w.granted, Z)
  BY DEF ServeState
<1>3. CASE sz > w.maxsz
  BY <1>3 DEF serve, Serves
<1>4. CASE ~(sz > w.maxsz) /\ fitting(w.areas, sz) # {}
  <2>1. PoolSound(n, (L \cup w.granted) \cup {l}, Z)
    BY <1>1, <1>2, <1>4, GetSound DEF block
  <2>2. n \in AreaSet(Z)
    BY <2>1, InAreaSet DEF PoolSound
  <2>3. l.top \in Int /\ l \in [top : Int, size : BlockSizes]
    <3>1. l.top \in Int
      BY <2>1 DEF PoolSound, LentExact
    <3> QED BY <1>1, <3>1 DEF block
  <2>4. serve(w, t) = [areas |-> n, granted |-> w.granted \cup {l},
                       released |-> w.released \cup {t}, maxsz |-> w.maxsz]
    BY <1>2, <1>4 DEF serve
  <2>5. (L \cup w.granted) \cup {l} = L \cup (w.granted \cup {l})
    OBVIOUS
  <2> HIDE DEF n, l
  <2>6. serve(w, t) \in ServeState(L, Z)
    BY <1>2, <2>1, <2>2, <2>3, <2>4, <2>5 DEF ServeState
  <2> QED BY <1>4, <2>4, <2>6 DEF n, Serves
<1>5. CASE ~(sz > w.maxsz) /\ ~(fitting(w.areas, sz) # {})
  <2>1. serve(w, t) = [areas |-> w.areas, granted |-> w.granted,
                       released |-> w.released, maxsz |-> sz]
    BY <1>2, <1>5 DEF serve
  <2>2. serve(w, t) \in ServeState(L, Z)
    BY <1>1, <1>2, <2>1 DEF ServeState
  <2> QED BY <1>5, <2>1, <2>2 DEF Serves
<1> QED BY <1>3, <1>4, <1>5

(* wakeup_mpl leaves nobody waiting for a block that the pool could give.  *)
LEMMA WakeupServes ==
  ASSUME NEW p \in Mpl, wait_queue[p] \in Queue(Task), blksz \in [Task -> BlockSizes],
         mplsz[p] \in Nat, mplsz[p] >= 2, NEW L, NEW freed, PoolSound(freed, L, mplsz[p])
  PROVE  LET served == wakeup_mpl(p, freed) IN
         /\ PoolSound(served.areas, L \cup served.granted, mplsz[p])
         /\ served.granted \in SUBSET [top : Int, size : BlockSizes]
         /\ served.released \subseteq ToSet(wait_queue[p])
         /\ \A t \in ToSet(wait_queue[p]) \ served.released :
              fitting(served.areas, blksz[t]) = {}
<1> DEFINE Z == mplsz[p]
           q == wait_queue[p]
           N == Len(q)
           S == ServeState(L, Z)
           start == [areas |-> freed, granted |-> {}, released |-> {}, maxsz |-> Z]
           F(g) == [i \in 0 .. N |-> IF i = 0 THEN start ELSE serve(g[i - 1], q[i])]
           after == CHOOSE g : g = F(g)
<1>q. /\ N \in Nat /\ ToSet(q) = {q[j] : j \in 1 .. N}
      /\ \A j, k \in 1 .. N : q[j] = q[k] => j = k
      /\ \A j \in 1 .. N : q[j] \in Task
  BY QueueEntries
<1>z. Z \in Nat /\ Z >= 2 /\ PoolSound(freed, L, Z) /\ \A t \in Task : blksz[t] \in Nat \ {0}
  BY MemoryPoolAssumption
<1>1. wakeup_mpl(p, freed) = after[N]
  BY DEF wakeup_mpl
<1>2. start \in S
  <2>1. L \cup {} = L /\ freed \in AreaSet(Z)
    BY <1>z, InAreaSet DEF PoolSound
  <2> QED BY <1>z, <2>1 DEF ServeState
<1> DEFINE step == [i \in 1 .. N |-> [w \in S |-> serve(w, q[i])]]
<1>3. step \in [1 .. N -> [S -> S]]
  <2>1. ASSUME NEW i \in 1 .. N, NEW w \in S PROVE serve(w, q[i]) \in S
    <3>1. q[i] \in Task
      BY <1>q
    <3> HIDE DEF Z, q
    <3> QED BY <1>z, <3>1, ServeType
  <2> HIDE DEF S, q, N
  <2> QED BY <2>1
<1>4. \E g \in [0 .. N -> S] : g = F(g)
  <2> HIDE DEF start, S
  <2>1. PICK g \in [0 .. N -> S] :
          g = [n \in 0 .. N |-> IF n = 0 THEN start ELSE step[n][g[n - 1]]]
    <3> HIDE DEF step, N
    <3>1. N \in Nat
      BY <1>q
    <3>2. \E g \in [0 .. N -> S] : Recurs(g, N, start, step)
      BY <1>2, <1>3, <3>1, Recursive, Zenon
    <3> QED BY <3>2 DEF Recurs
  <2>2. ASSUME NEW n \in 0 .. N, n # 0 PROVE step[n][g[n - 1]] = serve(g[n - 1], q[n])
    <3>1. n \in 1 .. N /\ n - 1 \in 0 .. N
      BY <2>2
    <3>2. g[n - 1] \in S
      BY <3>1
    <3> QED BY <3>1, <3>2
  <2>3. g = F(g)
    <3> HIDE DEF step
    <3> QED BY <2>1, <2>2
  <2> QED BY <2>3
<1>5. after = F(after)
  <2> HIDE DEF F
  <2> QED BY <1>4, Zenon
<1> HIDE DEF after
<1>7. after[0] = start
  BY <1>5, <1>q
<1>8. ASSUME NEW n \in 1 .. N PROVE after[n] = serve(after[n - 1], q[n])
  <2>1. n \in 0 .. N /\ n # 0
    OBVIOUS
  <2> QED BY <1>5, <2>1
<1> DEFINE Good == {n \in 0 .. N :
             /\ after[n] \in S
             /\ after[n].released \subseteq {q[j] : j \in 1 .. n}
             /\ \A j \in 1 .. n : q[j] \notin after[n].released => NoRoom(after[n].areas, blksz[q[j]])
             /\ \A s \in Nat : s > after[n].maxsz => NoRoom(after[n].areas, s)}
<1> HIDE DEF step, F
<1>9. 0 \in Good
  <2>1. ASSUME NEW s \in Nat, s > Z PROVE NoRoom(freed, s)
    <3>1. \A a \in Heads(freed) : /\ a \in Nat /\ freed.next[a] \in Nat /\ freed.next[a] <= Z
      BY <1>z, ChainFacts DEF PoolSound
    <3> QED BY <1>z, <2>1, <3>1 DEF NoRoom
  <2> QED BY <1>2, <1>7, <1>q, <2>1
<1>10. ASSUME NEW n \in 1 .. N, n - 1 \in Good PROVE n \in Good
  <2> DEFINE w == after[n - 1]
             t == q[n]
             new == serve(w, t)
  <2>1. /\ w \in S /\ w.released \subseteq {q[j] : j \in 1 .. n - 1}
        /\ \A j \in 1 .. n - 1 : q[j] \notin w.released => NoRoom(w.areas, blksz[q[j]])
        /\ \A s \in Nat : s > w.maxsz => NoRoom(w.areas, s)
    BY <1>10
  <2>2. t \in Task /\ blksz[t] \in Nat \ {0} /\ after[n] = new /\ w.maxsz \in Int
    BY <1>8, <1>q, <1>z, <2>1 DEF ServeState
  <2>3. new \in S /\ Serves(w, new, t)
    <3> HIDE DEF Z, w, t, q
    <3> QED BY <1>z, <2>1, <2>2, ServeType, Zenon
  <2>4. PoolSound(w.areas, L \cup w.granted, Z)
    BY <2>1 DEF ServeState
  <2> HIDE DEF w, new, Z
  <2>5. \A s \in Nat : NoRoom(w.areas, s) => NoRoom(new.areas, s)
    <3>1. CASE fitting(w.areas, blksz[t]) # {} /\ new.areas = get_areas(w.areas, blksz[t])
      BY <1>z, <2>2, <2>4, <3>1, GetShrinks
    <3>2. CASE new.areas = w.areas
      BY <3>2
    <3> QED BY <2>3, <3>1, <3>2 DEF Serves
  <2>6. \A s \in Nat : s > new.maxsz => NoRoom(new.areas, s)
    <3>1. CASE new.maxsz = w.maxsz
      BY <2>1, <2>5, <3>1
    <3>2. CASE fitting(w.areas, blksz[t]) = {} /\ new.areas = w.areas /\ new.maxsz = blksz[t]
      <4>1. NoRoom(w.areas, blksz[t])
        BY <1>z, <2>2, <2>4, <3>2, FittingIs DEF PoolSound
      <4>2. \A a \in Heads(w.areas) : a \in Int /\ w.areas.next[a] \in Int
        BY <2>4 DEF PoolSound, Shape
      <4> QED BY <2>2, <3>2, <4>1, <4>2 DEF NoRoom
    <3> QED BY <2>3, <3>1, <3>2 DEF Serves
  <2>7. t \notin new.released => NoRoom(new.areas, blksz[t])
    <3>1. CASE blksz[t] > w.maxsz
      BY <2>1, <2>2, <2>5, <3>1
    <3>2. CASE fitting(w.areas, blksz[t]) = {} /\ new.areas = w.areas
      BY <1>z, <2>2, <2>4, <3>2, FittingIs DEF PoolSound
    <3> QED BY <2>3, <3>1, <3>2 DEF Serves
  <2>8. w.released \subseteq new.released /\ new.released \subseteq w.released \cup {t}
    BY <2>3 DEF Serves
  <2>9. \A j \in 1 .. n : j = n \/ j \in 1 .. n - 1
    OBVIOUS
  <2>10. \A j \in 1 .. n : q[j] \notin new.released => NoRoom(new.areas, blksz[q[j]])
    <3> SUFFICES ASSUME NEW j \in 1 .. n, q[j] \notin new.released
                 PROVE  NoRoom(new.areas, blksz[q[j]])
      OBVIOUS
    <3>1. CASE j = n
      BY <2>7, <3>1
    <3>2. CASE j \in 1 .. n - 1
      <4>1. NoRoom(w.areas, blksz[q[j]])
        BY <2>1, <2>8, <3>2
      <4>2. blksz[q[j]] \in Nat
        BY <1>q, <1>z
      <4> QED BY <2>5, <4>1, <4>2
    <3> QED BY <2>9, <3>1, <3>2
  <2>11. new.released \subseteq {q[j] : j \in 1 .. n}
    <3>1. 1 .. n - 1 \subseteq 1 .. n /\ n \in 1 .. n
      OBVIOUS
    <3> QED BY <2>1, <2>8, <3>1
  <2> HIDE DEF S
  <2> QED BY <2>2, <2>3, <2>6, <2>10, <2>11
<1>11. N \in Good
  <2> HIDE DEF Good
  <2>1. \A n \in 0 .. N : n \in Good
    BY <1>9, <1>10, <1>q, UpTo
  <2> QED BY <1>q, <2>1
<1>12. /\ after[N] \in S /\ after[N].released \subseteq ToSet(q)
       /\ \A j \in 1 .. N : q[j] \notin after[N].released => NoRoom(after[N].areas, blksz[q[j]])
  BY <1>11, <1>q
<1>13. /\ PoolSound(after[N].areas, L \cup after[N].granted, Z)
       /\ after[N].granted \in SUBSET [top : Int, size : BlockSizes]
  BY <1>12 DEF ServeState
<1>14. ASSUME NEW t \in ToSet(q) \ after[N].released PROVE fitting(after[N].areas, blksz[t]) = {}
  <2>1. NoRoom(after[N].areas, blksz[t]) /\ blksz[t] \in Nat
    BY <1>12, <1>q, <1>z
  <2> HIDE DEF N, Z, q
  <2> QED BY <1>13, <1>z, <2>1, FittingIs DEF PoolSound
<1> QED BY <1>1, <1>12, <1>13, <1>14

(***************************************************************************)
(* The pools and their waiting tasks.                                      *)
(***************************************************************************)
PoolTypes ==
  /\ mpls \in SUBSET Mpl
  /\ mplsz \in [Mpl -> Nat]
  /\ areas = [p \in Mpl |-> areas[p]] /\ lent = [p \in Mpl |-> lent[p]]
  /\ blksz \in [Task -> BlockSizes]

PoolHolds(p) ==
  /\ mplsz[p] \in {MINSZ(size) : size \in PoolSizes}
  /\ PoolSound(areas[p], lent[p], mplsz[p])
  /\ \A blk \in lent[p] : blk.size \in BlockSizes

PoolInv == PoolTypes /\ (\A p \in mpls : PoolHolds(p)) /\ NoBlockForAWaiter

(* What ReleasedInOrder says of a step.                                    *)
ReleasesInOrder ==
  \A p \in Mpl : \A t, u \in ToSet(wait_queue[p]) :
    /\ before(wait_queue[p], t, u)
    /\ state'[t] = "READY" /\ state'[u] = "READY"
    /\ priority'[t] = priority'[u]
    => before(ready_queue'.tskque[priority'[t]], t, u)

OneChanges == \E t \in Task : \A u \in Task \ {t} : state'[u] = state[u]

(* No task begins to wait for one of these objects.                        *)
NobodyComes(S) == \A g \in S : ToSet(wait_queue'[g]) \subseteq ToSet(wait_queue[g])

(* Pool sizes are long enough for an area.                                 *)
LEMMA PoolLength ==
  ASSUME NEW size \in Nat \ {0}
  PROVE  MINSZ(size) \in Nat /\ MINSZ(size) >= 2
BY DEF MINSZ, MINSIZE

(* The tasks in a wait queue wait.                                         *)
LEMMA WaitersWait ==
  ASSUME IInv, NEW g \in Gcb
  PROVE  /\ wait_queue[g] \in Queue(Task)
         /\ \A t \in Task : t \in ToSet(wait_queue[g]) <=> wspec[t] = g
         /\ \A t \in ToSet(wait_queue[g]) : t \in Task /\ waiting(t) /\ wspec[t] \in Gcb
         /\ \A t, u : before(wait_queue[g], t, u) => t # u
<1>1. wait_queue[g] \in Queue(Task) /\ \A t \in Task : t \in ToSet(wait_queue[g]) <=> wspec[t] = g
  BY InWaitQueue DEF IInv, WaitInv
<1>2. \A t \in ToSet(wait_queue[g]) : t \in Task
  BY <1>1, QueueEntries
<1>3. \A t \in ToSet(wait_queue[g]) : waiting(t) /\ wspec[t] \in Gcb
  BY <1>1, <1>2, TaskCoreAssumption DEF IInv, WaitInv
<1>4. \A t, u : before(wait_queue[g], t, u) => t # u
  <2>1. \A j, k \in 1 .. Len(wait_queue[g]) : wait_queue[g][j] = wait_queue[g][k] => j = k
    BY <1>1, QueueEntries
  <2>2. DOMAIN wait_queue[g] = 1 .. Len(wait_queue[g])
    BY <1>1 DEF Queue
  <2> QED BY <2>1, <2>2 DEF before
<1> QED BY <1>1, <1>2, <1>3, <1>4

(* A step that changes the state of one task cannot release two.           *)
LEMMA OneInOrder ==
  ASSUME IInv, OneChanges
  PROVE  ReleasesInOrder
<1> SUFFICES ASSUME NEW p \in Mpl, NEW t \in ToSet(wait_queue[p]), NEW u \in ToSet(wait_queue[p]),
                    before(wait_queue[p], t, u), state'[t] = "READY", state'[u] = "READY"
             PROVE  FALSE
  BY DEF ReleasesInOrder
<1>1. t \in Task /\ u \in Task /\ waiting(t) /\ waiting(u) /\ t # u
  BY WaitersWait, MemoryPoolAssumption
<1> QED BY <1>1 DEF OneChanges, waiting, TS_WAIT

(* The end of several waits keeps the order of those in each queue.        *)
LEMMA ReleaseInOrder ==
  ASSUME IInv, NEW g \in Gcb, NEW W \in SUBSET ToSet(wait_queue[g]),
         wait_release_those(wait_queue[g], W), UNCHANGEDcalls
  PROVE  ReleasesInOrder
<1> SUFFICES ASSUME NEW p \in Mpl, NEW t \in ToSet(wait_queue[p]), NEW u \in ToSet(wait_queue[p]),
                    before(wait_queue[p], t, u), state'[t] = "READY", state'[u] = "READY",
                    priority'[t] = priority'[u]
             PROVE  before(ready_queue'.tskque[priority'[t]], t, u)
  BY DEF ReleasesInOrder
<1>1. /\ t \in Task /\ u \in Task /\ waiting(t) /\ waiting(u) /\ wspec[t] = p /\ wspec[u] = p
      /\ p \in Gcb
  BY WaitersWait, MemoryPoolAssumption
<1>2. wait_queue[g] \in Queue(Task) /\ \A v \in W : waiting(v) /\ wspec[v] \in Gcb /\ wspec[v] = g
  BY WaitersWait
<1>3. t \in W /\ u \in W
  BY <1>1 DEF wait_release_those, waiting, TS_WAIT
<1>4. before(wait_queue[g], t, u) /\ priority' = priority
  BY <1>1, <1>2, <1>3 DEF UNCHANGEDcalls, privars
<1> QED BY <1>2, <1>3, <1>4, ReleasedInTurn

(* What the end of several waits does to those that are not concerned.     *)
LEMMA PoolWaitersKept ==
  ASSUME IInv, IInv', PoolInv, NobodyComes(Mpl),
         UNCHANGED blksz, \A p \in Mpl : p \in mpls /\ ToSet(wait_queue'[p]) # {} =>
             p \in mpls' /\ areas'[p] = areas[p]
  PROVE  NoBlockForAWaiter'
BY DEF NoBlockForAWaiter, NobodyComes, PoolInv

(* What task management and the other objects do.                          *)
LEMMA PoolOthers ==
  ASSUME IInv, IInv', PoolInv, NobodyComes(Mpl), UNCHANGED mplvars
  PROVE  PoolInv'
<1>1. NoBlockForAWaiter'
  BY PoolWaitersKept DEF mplvars, PoolInv, NoBlockForAWaiter, NobodyComes
<1> QED BY <1>1 DEF PoolInv, PoolTypes, PoolHolds, mplvars

(* What a call leaves for the other calls and properties.                  *)
PoolKept == IInv' /\ PoolInv' /\ ReleasesInOrder /\ NobodyComes(Gcb \ Mpl)

(* A step of a call that leaves the tasks alone.                           *)
LEMMA TasksAlone ==
  ASSUME IInv, UNCHANGED vars
  PROVE  IInv' /\ ReleasesInOrder /\ NobodyComes(Gcb)
<1>1. IInv'
  BY StepInv DEF vars
<1>2. OneChanges
  BY TaskManagementAssumption DEF OneChanges, vars, taskvars
<1>3. NobodyComes(Gcb)
  BY DEF NobodyComes, vars, taskvars, waitvars
<1> QED BY <1>1, <1>2, <1>3, OneInOrder

(* cre_mpl makes a pool of one free area.                                  *)
LEMMA CreMplKeeps ==
  ASSUME IInv, PoolInv, NEW p \in Mpl, NEW size \in PoolSizes, cre_mpl(p, size)
  PROVE  PoolKept
<1> DEFINE Z == MINSZ(size)
<1>1. /\ p \notin mpls /\ mpls' = mpls \cup {p} /\ blksz' = blksz
      /\ mplsz' = [mplsz EXCEPT ![p] = Z] /\ areas' = [areas EXCEPT ![p] = init_mpl(Z)]
      /\ lent' = [lent EXCEPT ![p] = {}] /\ UNCHANGED vars
  BY DEF cre_mpl
<1>2. Z \in Nat /\ Z >= 2
  BY PoolLength, MemoryPoolAssumption
<1>3. IInv' /\ ReleasesInOrder /\ NobodyComes(Gcb) /\ UNCHANGED wait_queue
  BY <1>1, TasksAlone DEF vars, taskvars, waitvars
<1> HIDE DEF Z
<1>4. /\ mplsz' \in [Mpl -> Nat] /\ areas' = [r \in Mpl |-> areas'[r]] /\ lent' = [r \in Mpl |-> lent'[r]]
      /\ mplsz'[p] = Z /\ areas'[p] = init_mpl(Z) /\ lent'[p] = {}
      /\ \A r \in Mpl \ {p} : mplsz'[r] = mplsz[r] /\ areas'[r] = areas[r] /\ lent'[r] = lent[r]
  BY <1>1, <1>2 DEF PoolInv, PoolTypes
<1>5. PoolTypes'
  BY <1>1, <1>4 DEF PoolInv, PoolTypes
<1>6. ASSUME NEW r \in mpls' PROVE PoolHolds(r)'
  <2>1. CASE r = p
    <3>1. PoolSound(init_mpl(Z), {}, Z)
      BY <1>2, PoolStart
    <3> QED BY <1>4, <2>1, <3>1 DEF PoolHolds, Z
  <2>2. CASE r # p
    <3>1. r \in mpls /\ PoolHolds(r) /\ r \in Mpl \ {p}
      BY <1>1, <2>2 DEF PoolInv, PoolTypes
    <3> QED BY <1>4, <3>1 DEF PoolHolds
  <2> QED BY <2>1, <2>2
<1>7. NoBlockForAWaiter'
  <2>1. \A r \in Mpl : r \in mpls /\ ToSet(wait_queue'[r]) # {} => r \in mpls' /\ areas'[r] = areas[r]
    BY <1>1, <1>4
  <2>2. NobodyComes(Mpl)
    BY <1>3, MemoryPoolAssumption DEF NobodyComes
  <2> QED BY <1>1, <1>3, <2>1, <2>2, PoolWaitersKept
<1> QED BY <1>3, <1>5, <1>6, <1>7 DEF PoolInv, PoolKept, NobodyComes

(* del_mpl releases all who wait.                                          *)
LEMMA DelMplKeeps ==
  ASSUME IInv, PoolInv, NEW p \in Mpl, del_mpl(p)
  PROVE  PoolKept
<1>1. /\ wait_delete(p) /\ mpls' = mpls \ {p} /\ UNCHANGED <<mplsz, areas, lent, blksz>>
      /\ UNCHANGEDcalls /\ p \in Gcb
  BY MemoryPoolAssumption DEF del_mpl, UNCHANGEDcalls
<1>2. /\ IInv' /\ ToSet(wait_queue'[p]) = {}
      /\ \A h \in Gcb : Thinned(wait_queue[h], wait_queue'[h])
  BY <1>1, WaitDelete DEF UNCHANGEDcalls
<1>3. NobodyComes(Gcb)
  BY <1>2 DEF NobodyComes, Thinned
<1>4. ReleasesInOrder
  <2>1. wait_release_those(wait_queue[p], ToSet(wait_queue[p]))
    BY <1>1 DEF wait_delete, wait_release_all
  <2> QED BY <1>1, <2>1, ReleaseInOrder
<1>5. NoBlockForAWaiter'
  <2>1. NobodyComes(Mpl)
    BY <1>3, MemoryPoolAssumption DEF NobodyComes
  <2>2. \A r \in Mpl : r \in mpls /\ ToSet(wait_queue'[r]) # {} => r \in mpls' /\ areas'[r] = areas[r]
    BY <1>1, <1>2
  <2> QED BY <1>1, <1>2, <2>1, <2>2, PoolWaitersKept
<1>6. PoolTypes' /\ \A r \in mpls' : PoolHolds(r)'
  BY <1>1 DEF PoolInv, PoolTypes, PoolHolds
<1> QED BY <1>2, <1>3, <1>4, <1>5, <1>6 DEF PoolInv, PoolKept, NobodyComes

(* What is known of a pool that exists.                                    *)
LEMMA PoolIs ==
  ASSUME IInv, PoolInv, NEW p \in mpls
  PROVE  /\ p \in Mpl /\ p \in Gcb /\ mplsz[p] \in Nat /\ mplsz[p] >= 2
         /\ PoolSound(areas[p], lent[p], mplsz[p])
         /\ \A size \in BlockSizes : size \in Nat \ {0}
<1>1. p \in Mpl /\ p \in Gcb /\ PoolHolds(p)
  BY MemoryPoolAssumption DEF PoolInv, PoolTypes
<1>2. mplsz[p] \in Nat /\ mplsz[p] >= 2
  BY <1>1, PoolLength, MemoryPoolAssumption DEF PoolHolds
<1> QED BY <1>1, <1>2, MemoryPoolAssumption DEF PoolHolds

(* A call changes the memory and the blocks of one pool.                   *)
LEMMA OnePoolChanges ==
  ASSUME PoolInv, NEW p \in mpls, NEW m, NEW L, UNCHANGED <<mpls, mplsz>>,
         areas' = [areas EXCEPT ![p] = m], lent' = [lent EXCEPT ![p] = L],
         blksz' \in [Task -> BlockSizes], PoolSound(m, L, mplsz[p]),
         \A blk \in L : blk.size \in BlockSizes
  PROVE  /\ PoolTypes' /\ \A r \in mpls' : PoolHolds(r)'
         /\ areas'[p] = m /\ \A r \in Mpl \ {p} : areas'[r] = areas[r]
<1>1. p \in Mpl /\ mpls \in SUBSET Mpl
  BY DEF PoolInv, PoolTypes
<1>2. /\ areas' = [r \in Mpl |-> areas'[r]] /\ lent' = [r \in Mpl |-> lent'[r]]
      /\ areas'[p] = m /\ lent'[p] = L
      /\ \A r \in Mpl \ {p} : areas'[r] = areas[r] /\ lent'[r] = lent[r]
  BY <1>1 DEF PoolInv, PoolTypes
<1>3. PoolTypes'
  BY <1>2 DEF PoolInv, PoolTypes
<1>4. ASSUME NEW r \in mpls' PROVE PoolHolds(r)'
  <2>1. r \in mpls /\ PoolHolds(r) /\ r \in Mpl
    BY <1>1 DEF PoolInv
  <2>2. CASE r = p
    BY <1>2, <2>1, <2>2 DEF PoolHolds
  <2>3. CASE r # p
    BY <1>2, <2>1, <2>3 DEF PoolHolds
  <2> QED BY <2>2, <2>3
<1> QED BY <1>2, <1>3, <1>4

(* A block that is taken at once was too short for all who wait.           *)
LEMMA PgetBlkKeeps ==
  ASSUME IInv, PoolInv, NEW p \in Mpl, NEW size \in BlockSizes, pget_blk(p, size)
  PROVE  PoolKept
<1> DEFINE m == get_areas(areas[p], size)
           L == lent[p] \cup {block(get_block(areas[p], size), size)}
<1>1. /\ p \in mpls /\ fitting(areas[p], size) # {} /\ UNCHANGED <<mpls, mplsz, blksz, vars>>
      /\ areas' = [areas EXCEPT ![p] = m] /\ lent' = [lent EXCEPT ![p] = L]
  BY DEF pget_blk
<1>2. /\ p \in Mpl /\ p \in Gcb /\ mplsz[p] \in Nat /\ mplsz[p] >= 2 /\ size \in Nat \ {0}
      /\ PoolSound(areas[p], lent[p], mplsz[p]) /\ \A sz \in BlockSizes : sz \in Nat \ {0}
  BY <1>1, PoolIs
<1>3. PoolSound(m, L, mplsz[p])
  BY <1>1, <1>2, GetSound DEF block
<1>4. \A blk \in L : blk.size \in BlockSizes
  BY <1>1 DEF PoolInv, PoolHolds, block
<1>5. IInv' /\ ReleasesInOrder /\ NobodyComes(Gcb) /\ UNCHANGED wait_queue
  BY <1>1, TasksAlone DEF vars, taskvars, waitvars
<1>6. blksz' \in [Task -> BlockSizes]
  BY <1>1 DEF PoolInv, PoolTypes
<1>10. ASSUME NEW t \in ToSet(wait_queue[p]) PROVE fitting(m, blksz[t]) = {}
  <2>1. fitting(areas[p], blksz[t]) = {} /\ blksz[t] \in BlockSizes
    <3>1. t \in Task
      BY <1>2, WaitersWait
    <3> QED BY <3>1 DEF PoolInv, NoBlockForAWaiter, PoolTypes
  <2>2. NoRoom(areas[p], blksz[t])
    BY <1>2, <2>1, FittingIs DEF PoolSound
  <2>3. NoRoom(m, blksz[t])
    BY <1>1, <1>2, <2>1, <2>2, GetShrinks
  <2> QED BY <1>2, <1>3, <2>1, <2>3, FittingIs DEF PoolSound
<1> HIDE DEF m, L
<1>7. /\ PoolTypes' /\ \A r \in mpls' : PoolHolds(r)'
      /\ areas'[p] = m /\ \A r \in Mpl \ {p} : areas'[r] = areas[r]
  BY <1>1, <1>3, <1>4, <1>6, OnePoolChanges
<1>8. NoBlockForAWaiter'
  BY <1>1, <1>5, <1>7, <1>10 DEF PoolInv, NoBlockForAWaiter
<1> QED BY <1>5, <1>7, <1>8 DEF PoolInv, PoolKept, NobodyComes

(* A task that begins to wait is the only one whose state changes; it was  *)
(* in no wait queue before.                                                *)
LEMMA WaitChangesOne ==
  ASSUME IInv, in_task, ~in_ddsp, NEW g, NEW timed, gcb_make_wait(g, timed)
  PROVE  /\ OneChanges /\ ctxtsk \in Task
         /\ \A h \in Gcb : ctxtsk \notin ToSet(wait_queue[h])
<1>1. ctxtsk \in Task /\ state[ctxtsk] \in {"READY", "SUSPEND"}
  BY CallerTask
<1>2. state \in [Task -> TSTAT]
  BY DEF IInv, TypeOK
<1>3. \E s : state' = [state EXCEPT ![ctxtsk] = s]
  BY DEF gcb_make_wait, make_wait, make_non_ready, set_state
<1>4. OneChanges
  BY <1>1, <1>2, <1>3 DEF OneChanges
<1>5. ~waiting(ctxtsk)
  BY <1>1 DEF waiting, TS_WAIT
<1> QED BY <1>1, <1>4, <1>5, WaitersWait

(* A task waits for a block that is longer than all that are free.         *)
LEMMA TgetBlkKeeps ==
  ASSUME IInv, PoolInv, NEW p \in Mpl, NEW size \in BlockSizes, NEW timed,
         tget_blk(p, size, timed)
  PROVE  PoolKept
<1>1. /\ in_task /\ ~in_ddsp /\ p \in mpls /\ fitting(areas[p], size) = {} /\ gcb_make_wait(p, timed)
      /\ blksz' = [blksz EXCEPT ![ctxtsk] = size] /\ UNCHANGED <<mpls, mplsz, areas, lent>>
      /\ UNCHANGEDcalls /\ p \in Gcb
  BY MemoryPoolAssumption DEF tget_blk, UNCHANGEDcalls
<1>2. /\ IInv' /\ \A h \in Gcb \ {p} : wait_queue'[h] = wait_queue[h]
      /\ ToSet(wait_queue'[p]) = ToSet(wait_queue[p]) \cup {ctxtsk}
  BY <1>1, GcbMakeWait DEF UNCHANGEDcalls
<1>3. /\ OneChanges /\ ctxtsk \in Task
      /\ \A h \in Gcb : ctxtsk \notin ToSet(wait_queue[h])
  BY <1>1, WaitChangesOne
<1>4. /\ blksz' \in [Task -> BlockSizes] /\ blksz'[ctxtsk] = size
      /\ \A t \in Task \ {ctxtsk} : blksz'[t] = blksz[t]
  BY <1>1, <1>3 DEF PoolInv, PoolTypes
<1>5. PoolTypes' /\ \A r \in mpls' : PoolHolds(r)'
  BY <1>1, <1>4 DEF PoolInv, PoolTypes, PoolHolds
<1>6. ASSUME NEW r \in Mpl, NEW t \in ToSet(wait_queue'[r])
      PROVE  r \in mpls' /\ fitting(areas'[r], blksz'[t]) = {}
  <2>1. r \in Gcb
    BY MemoryPoolAssumption
  <2>2. CASE r = p /\ t = ctxtsk
    BY <1>1, <1>4, <2>2
  <2>3. CASE t \in ToSet(wait_queue[r])
    <3>1. t \in Task /\ t # ctxtsk
      BY <1>3, <2>1, <2>3, WaitersWait
    <3> QED BY <1>1, <1>4, <2>3, <3>1 DEF PoolInv, NoBlockForAWaiter
  <2> QED BY <1>2, <2>1, <2>2, <2>3
<1>7. NoBlockForAWaiter'
  BY <1>6 DEF NoBlockForAWaiter
<1>8. NobodyComes(Gcb \ Mpl)
  BY <1>2 DEF NobodyComes
<1> QED BY <1>2, <1>3, <1>5, <1>7, <1>8, OneInOrder DEF PoolInv, PoolKept

(* A block that is given back goes to those who wait.                      *)
LEMMA RelBlkKeeps ==
  ASSUME IInv, PoolInv, NEW p \in Mpl, NEW blk \in lent[p], rel_blk(p, blk)
  PROVE  PoolKept
<1> DEFINE freed  == rel_areas(areas[p], blk.top)
           rest   == lent[p] \ {blk}
           served == wakeup_mpl(p, freed)
           L      == rest \cup served.granted
           Z      == mplsz[p]
<1>1. /\ p \in mpls /\ UNCHANGED <<mpls, mplsz, blksz>> /\ UNCHANGEDcalls
      /\ areas' = [areas EXCEPT ![p] = served.areas] /\ lent' = [lent EXCEPT ![p] = L]
      /\ wait_release_those(wait_queue[p], served.released)
  BY DEF rel_blk, UNCHANGEDcalls
<1>2. /\ p \in Mpl /\ p \in Gcb /\ Z \in Nat /\ Z >= 2 /\ PoolSound(areas[p], lent[p], Z)
      /\ wait_queue[p] \in Queue(Task) /\ blksz \in [Task -> BlockSizes]
  BY <1>1, PoolIs, WaitersWait DEF PoolInv, PoolTypes
<1>3. PoolSound(freed, rest, Z)
  BY <1>2, RelSound
<1>4. /\ PoolSound(served.areas, L, Z)
      /\ served.granted \in SUBSET [top : Int, size : BlockSizes]
      /\ served.released \subseteq ToSet(wait_queue[p])
      /\ \A t \in ToSet(wait_queue[p]) \ served.released : fitting(served.areas, blksz[t]) = {}
  <2> HIDE DEF freed, rest
  <2> QED BY <1>2, <1>3, WakeupServes
<1>5. \A b \in L : b.size \in BlockSizes
  BY <1>1, <1>4 DEF PoolInv, PoolHolds
<1>6. \A t \in served.released : waiting(t) /\ wspec[t] \in Gcb
  BY <1>2, <1>4, WaitersWait
<1> HIDE DEF served, L, freed, rest
<1>7. /\ IInv' /\ \A g \in Gcb : ToSet(wait_queue'[g]) = ToSet(wait_queue[g]) \ served.released
  BY <1>1, <1>2, <1>4, <1>6, WaitReleaseThose DEF UNCHANGEDcalls
<1>8. NobodyComes(Gcb)
  BY <1>7 DEF NobodyComes
<1>9. ReleasesInOrder
  BY <1>1, <1>2, <1>4, ReleaseInOrder
<1>10. /\ PoolTypes' /\ \A r \in mpls' : PoolHolds(r)'
       /\ areas'[p] = served.areas /\ \A r \in Mpl \ {p} : areas'[r] = areas[r]
  <2>1. UNCHANGED <<mpls, mplsz>> /\ blksz' \in [Task -> BlockSizes]
    BY <1>1, <1>2
  <2> QED BY <1>1, <1>4, <1>5, <2>1, OnePoolChanges
<1>11. ASSUME NEW r \in Mpl, NEW t \in ToSet(wait_queue'[r])
       PROVE  r \in mpls' /\ fitting(areas'[r], blksz'[t]) = {}
  <2>1. r \in Gcb /\ t \in ToSet(wait_queue[r]) /\ t \notin served.released
    BY <1>7, MemoryPoolAssumption
  <2>2. r \in mpls /\ fitting(areas[r], blksz[t]) = {}
    BY <2>1 DEF PoolInv, NoBlockForAWaiter
  <2>3. CASE r = p
    BY <1>1, <1>4, <1>10, <2>1, <2>3
  <2>4. CASE r # p
    BY <1>1, <1>10, <2>2, <2>4
  <2> QED BY <2>3, <2>4
<1>12. NoBlockForAWaiter'
  BY <1>11 DEF NoBlockForAWaiter
<1> QED BY <1>7, <1>8, <1>9, <1>10, <1>12 DEF PoolInv, PoolKept, NobodyComes

(* Each call on a pool keeps all this.                                     *)
LEMMA MplCallKeeps ==
  ASSUME IInv, PoolInv, MplCall
  PROVE  PoolKept
BY CreMplKeeps, DelMplKeeps, PgetBlkKeeps, TgetBlkKeeps, RelBlkKeeps DEF MplCall

(* What the runs check follows.                                            *)
LEMMA PoolsSay ==
  ASSUME IInv, PoolInv
  PROVE  MplTypeOK /\ PoolsInOrder /\ EveryBlockHasItsArea
<1>1. ASSUME NEW p \in mpls
      PROVE  /\ mplsz[p] \in Nat /\ mplsz[p] >= 2
             /\ Shape(areas[p], mplsz[p]) /\ Chained(areas[p], mplsz[p])
             /\ FreeExact(areas[p], mplsz[p]) /\ LentExact(areas[p], lent[p])
             /\ PoolSound(areas[p], lent[p], mplsz[p]) /\ PoolHolds(p)
  BY PoolIs DEF PoolSound, PoolInv
<1>2. ASSUME NEW p \in mpls
      PROVE  /\ DOMAIN areas[p].next \subseteq 0 .. mplsz[p] - 1
             /\ \A blk \in lent[p] : blk.top \in 1 .. mplsz[p] - 1 /\ blk.size \in BlockSizes
  <2>1. DOMAIN areas[p].next \subseteq 0 .. mplsz[p] - 1
    BY <1>1 DEF Chained, Heads
  <2>2. ASSUME NEW blk \in lent[p] PROVE blk.top \in 1 .. mplsz[p] - 1
    <3>1. /\ blk.top \in Int /\ blk.size \in Nat \ {0} /\ blk.top - 1 \in Heads(areas[p])
          /\ blk.size <= areas[p].next[blk.top - 1] - blk.top
      BY <1>1, <2>2 DEF LentExact
    <3>2. /\ blk.top - 1 \in Nat /\ areas[p].next[blk.top - 1] \in Nat
          /\ areas[p].next[blk.top - 1] <= mplsz[p]
      BY <1>1, <3>1, ChainFacts
    <3> QED BY <1>1, <3>1, <3>2
  <2> QED BY <1>1, <2>1, <2>2 DEF PoolHolds
<1>3. MplTypeOK
  BY <1>1, <1>2 DEF MplTypeOK, PoolInv, PoolTypes, PoolHolds, IInv
<1>4. PoolsInOrder
  <2>1. ASSUME NEW p \in mpls
        PROVE  LET m == areas[p] L == lent[p] Z == mplsz[p] IN
               /\ AreasChained(m, Z) /\ FreeQueueExact(m) /\ BlocksDisjoint(m, L, Z)
               /\ RefMplTrue(m, Z) /\ WholeAgain(m, L, Z)
    BY <1>1, <2>1, PoolIsSound
  <2> QED BY <2>1 DEF PoolsInOrder
<1>5. ASSUME NEW p \in mpls
      PROVE  /\ {AREATOP(blk.top) : blk \in lent[p]} = areas[p].used \ {mplsz[p]}
             /\ \A blk \in lent[p] : blk.size <= BLOCKSIZE(areas[p], AREATOP(blk.top))
             /\ \A blk1, blk2 \in lent[p] : blk1.top = blk2.top => blk1 = blk2
  <2> DEFINE m == areas[p]
             L == lent[p]
             Z == mplsz[p]
  <2>1. /\ m.used \subseteq Heads(m) \cup {Z} /\ Heads(m) \subseteq 0 .. Z - 1 /\ Z \in Nat
        /\ LentExact(m, L) /\ \A a \in Heads(m) : m.next[a] \in Int
    <3>1. Z \in Nat /\ Shape(m, Z) /\ Chained(m, Z) /\ FreeExact(m, Z) /\ LentExact(m, L)
      BY <1>1
    <3> HIDE DEF m, L, Z
    <3>2. \A a \in Heads(m) : m.next[a] \in Int
      BY <3>1 DEF Shape
    <3> QED BY <3>1, <3>2 DEF FreeExact, Chained
  <2> HIDE DEF m, L, Z
  <2>2. \A l \in L : /\ l.top \in Int /\ l.top - 1 \in Heads(m) \cap m.used
                     /\ l.size <= m.next[l.top - 1] - l.top /\ l.size \in Nat
    BY <2>1 DEF LentExact
  <2>3. ASSUME NEW a \in m.used \ {Z} PROVE \E l \in L : a = l.top - 1
    <3>1. a \in Heads(m) \cap m.used /\ a \in Int
      BY <2>1
    <3>2. PICK l \in L : l.top = a + 1
      BY <2>1, <3>1 DEF LentExact
    <3> QED BY <3>1, <3>2
  <2>4. Z \notin Heads(m)
    BY <2>1
  <2>5. {AREATOP(l.top) : l \in L} = m.used \ {Z}
    BY <2>2, <2>3, <2>4 DEF AREATOP, ROUNDSIZE
  <2>6. \A l \in L : l.size <= BLOCKSIZE(m, AREATOP(l.top))
    BY <2>1, <2>2 DEF AREATOP, ROUNDSIZE, BLOCKSIZE, BLOCKTOP
  <2>7. \A l, k \in L : l.top = k.top => l = k
    BY <2>1 DEF LentExact
  <2> QED BY <2>5, <2>6, <2>7 DEF m, L, Z
<1>6. EveryBlockHasItsArea
  BY <1>5 DEF EveryBlockHasItsArea
<1> QED BY <1>3, <1>4, <1>6

-----------------------------------------------------------------------------
(***************************************************************************)
(* 3. The ring of a message buffer.                                        *)
(***************************************************************************)
(* A multiple of the rounding size.                                        *)
Aligned(x) == \E k \in Int : x = HEADERSZ * k

(* Sums and differences of multiples, and how close two of them can be.    *)
LEMMA AlignedSums ==
  ASSUME NEW x \in Int, NEW y \in Int, Aligned(x), Aligned(y)
  PROVE  Aligned(x + y) /\ Aligned(x - y) /\ (x < y => x + HEADERSZ <= y)
<1>1. PICK k \in Int : x = HEADERSZ * k
  BY DEF Aligned
<1>2. PICK l \in Int : y = HEADERSZ * l
  BY DEF Aligned
<1>h. HEADERSZ \in Nat \ {0}
  BY HeaderAssumption
<1>3. x + y = HEADERSZ * (k + l) /\ k + l \in Int
  BY <1>1, <1>2, <1>h
<1>4. x - y = HEADERSZ * (k - l) /\ k - l \in Int
  BY <1>1, <1>2, <1>h
<1>5. ASSUME x < y PROVE x + HEADERSZ <= y
  <2>1. k < l
    BY <1>1, <1>2, <1>5, <1>h
  <2>2. HEADERSZ * (k + 1) <= HEADERSZ * l
    BY <1>h, <2>1
  <2>3. HEADERSZ * (k + 1) = HEADERSZ * k + HEADERSZ
    BY <1>h
  <2> QED BY <1>1, <1>2, <2>2, <2>3
<1> QED BY <1>3, <1>4, <1>5 DEF Aligned

(* Zero and the length of a header are multiples.                          *)
LEMMA AlignedUnits == Aligned(0) /\ Aligned(HEADERSZ)
<1>1. 0 = HEADERSZ * 0 /\ HEADERSZ = HEADERSZ * 1
  BY HeaderAssumption
<1> QED BY <1>1 DEF Aligned

(* A length is rounded up to the next multiple.                            *)
LEMMA Rounded ==
  ASSUME NEW sz \in Nat
  PROVE  /\ ROUNDSZ(sz) \in Nat /\ Aligned(ROUNDSZ(sz))
         /\ sz <= ROUNDSZ(sz) /\ ROUNDSZ(sz) < sz + HEADERSZ
         /\ \E k \in Nat : ROUNDSZ(sz) = k * HEADERSZ /\ k <= sz
<1> DEFINE x == sz + HEADERSZ - 1
           k == x \div HEADERSZ
<1>h. HEADERSZ \in Nat \ {0} /\ x \in Nat
  BY HeaderAssumption
<1>1. k \in Int /\ HEADERSZ * k <= x /\ x < HEADERSZ * k + HEADERSZ
  <2> HIDE DEF x
  <2>1. HEADERSZ \in Int /\ HEADERSZ > 0 /\ x \in Int
    BY <1>h
  <2> QED BY <2>1, Z3
<1>2. ROUNDSZ(sz) = k * HEADERSZ
  BY DEF ROUNDSZ
<1> DEFINE p == HEADERSZ * k
<1>3. p \in Int /\ p = k * HEADERSZ
  <2> HIDE DEF k
  <2> QED BY <1>h, <1>1
<1>4. sz <= p /\ p < sz + HEADERSZ
  <2>1. p <= x /\ x < p + HEADERSZ
    BY <1>1
  <2> HIDE DEF p
  <2> QED BY <1>h, <1>3, <2>1
<1>5. k \in Nat
  <2> HIDE DEF k
  <2>1. k < 0 => HEADERSZ * k < 0
    BY <1>h, <1>1
  <2>2. p < 0 => ~(sz <= p)
    BY <1>3
  <2> QED BY <1>1, <1>4, <2>1, <2>2
<1>6. k <= sz
  <2> HIDE DEF k
  <2>1. k > sz => HEADERSZ * k >= HEADERSZ * (sz + 1)
    BY <1>h, <1>5
  <2>2. HEADERSZ * (sz + 1) = HEADERSZ * sz + HEADERSZ /\ HEADERSZ * sz >= sz
    BY <1>h
  <2> QED BY <1>h, <1>3, <1>4, <1>5, <2>1, <2>2
<1> HIDE DEF k
<1> QED BY <1>1, <1>2, <1>3, <1>4, <1>5, <1>6 DEF Aligned

(* Room that is a multiple and suffices for a length suffices when the     *)
(* length is rounded up; and what of it is beyond a multiple is rounded up *)
(* as the whole is.                                                        *)
LEMMA RoundedFits ==
  ASSUME NEW x \in Int, Aligned(x), NEW sz \in Nat
  PROVE  /\ x >= sz => x >= ROUNDSZ(sz)
         /\ 0 <= x /\ x <= sz => ROUNDSZ(sz - x) = ROUNDSZ(sz) - x
<1>1. HEADERSZ \in Nat \ {0}
  BY HeaderAssumption
<1>2. /\ ROUNDSZ(sz) \in Nat /\ Aligned(ROUNDSZ(sz))
      /\ sz <= ROUNDSZ(sz) /\ ROUNDSZ(sz) < sz + HEADERSZ
  BY Rounded
<1>3. x < ROUNDSZ(sz) => x + HEADERSZ <= ROUNDSZ(sz)
  BY <1>2, AlignedSums
<1>4. ASSUME 0 <= x, x <= sz PROVE ROUNDSZ(sz - x) = ROUNDSZ(sz) - x
  <2> DEFINE y == ROUNDSZ(sz - x)
             z == ROUNDSZ(sz) - x
  <2>1. sz - x \in Nat
    BY <1>4
  <2>2. y \in Nat /\ Aligned(y) /\ sz - x <= y /\ y < sz - x + HEADERSZ
    BY <2>1, Rounded
  <2>3. z \in Int /\ Aligned(z) /\ sz - x <= z /\ z < sz - x + HEADERSZ
    <3>1. Aligned(z)
      BY <1>2, AlignedSums
    <3> QED BY <1>1, <1>2, <3>1
  <2> HIDE DEF y, z
  <2>4. (y < z => y + HEADERSZ <= z) /\ (z < y => z + HEADERSZ <= y)
    BY <2>2, <2>3, AlignedSums
  <2> QED BY <1>1, <2>2, <2>3, <2>4 DEF y, z
<1> QED BY <1>1, <1>2, <1>3, <1>4

(* A multiple is its own rounding, and only a multiple is.                 *)
LEMMA RoundedSelf ==
  ASSUME NEW x \in Nat
  PROVE  ROUNDSZ(x) = x <=> Aligned(x)
<1>1. ROUNDSZ(x) \in Nat /\ Aligned(ROUNDSZ(x)) /\ x <= ROUNDSZ(x)
  BY Rounded
<1>2. Aligned(x) => x >= ROUNDSZ(x)
  BY RoundedFits
<1> QED BY <1>1, <1>2

-----------------------------------------------------------------------------
(* The place of the byte number o of a ring of B bytes that begins at h.   *)
place(h, B, o) == IF h + o >= B THEN h + o - B ELSE h + o

(* A ring of B bytes can begin at h.                                       *)
Begins(h, B) ==
  /\ B \in Nat /\ Aligned(B) /\ h \in Nat /\ Aligned(h)
  /\ h < B \/ (B = 0 /\ h = 0)

(* Places are in the buffer, are all different, and can be counted from    *)
(* any of them.                                                            *)
LEMMA Places ==
  ASSUME NEW B, NEW h, Begins(h, B), NEW o \in Nat, o <= B
  PROVE  /\ Aligned(o) => Begins(place(h, B, o), B)
         /\ place(h, B, o) \in Nat /\ (place(h, B, o) < B \/ B = 0)
         /\ \A d \in Nat : o + d <= B => place(h, B, o + d) = place(place(h, B, o), B, d)
         /\ \A d \in Nat : o # d /\ o < B /\ d < B => place(h, B, o) # place(h, B, d)
<1>1. B \in Nat /\ h \in Nat /\ (h < B \/ (B = 0 /\ h = 0))
  BY DEF Begins
<1>2. /\ place(h, B, o) \in Nat /\ (place(h, B, o) < B \/ (B = 0 /\ place(h, B, o) = 0))
      /\ \A d \in Nat : o + d <= B => place(h, B, o + d) = place(place(h, B, o), B, d)
      /\ \A d \in Nat : o # d /\ o < B /\ d < B => place(h, B, o) # place(h, B, d)
  BY <1>1 DEF place
<1>3. ASSUME Aligned(o) PROVE Aligned(place(h, B, o))
  <2>1. Aligned(h + o)
    BY <1>1, <1>3, AlignedSums DEF Begins
  <2>2. Aligned(h + o - B)
    BY <1>1, <2>1, AlignedSums DEF Begins
  <2> QED BY <2>1, <2>2 DEF place
<1> QED BY <1>1, <1>2, <1>3 DEF Begins

(* A header at the byte number o is not split, and the place behind it.    *)
LEMMA BehindHeader ==
  ASSUME NEW r, NEW h, Begins(h, r.bufsz), NEW o \in Nat, Aligned(o),
         o + HEADERSZ <= r.bufsz
  PROVE  /\ place(h, r.bufsz, o) + HEADERSZ <= r.bufsz
         /\ wrap(r, place(h, r.bufsz, o) + HEADERSZ) = place(h, r.bufsz, o + HEADERSZ)
<1> DEFINE B == r.bufsz
           p == place(h, B, o)
<1>1. HEADERSZ \in Nat \ {0}
  BY HeaderAssumption
<1>2. B \in Nat /\ h \in Nat /\ h < B
  BY <1>1 DEF Begins
<1>3. p \in Nat /\ Begins(p, B) /\ p < B
  BY <1>1, <1>2, Places
<1>o. o + HEADERSZ <= B
  OBVIOUS
<1> HIDE DEF B
<1>4. p + HEADERSZ <= B
  <2>1. Aligned(p) /\ Aligned(B)
    BY <1>3 DEF Begins
  <2> HIDE DEF p
  <2> QED BY <1>2, <1>3, <2>1, AlignedSums
<1>5. (IF p + HEADERSZ >= B THEN 0 ELSE p + HEADERSZ) = place(h, B, o + HEADERSZ)
  BY <1>1, <1>2, <1>4, <1>o DEF place
<1> QED BY <1>4, <1>5 DEF B, wrap

(* The place behind a message whose header is at the byte number o.        *)
LEMMA BehindMessage ==
  ASSUME NEW r, NEW h, Begins(h, r.bufsz), NEW o \in Nat, Aligned(o), NEW len \in Nat,
         o + HEADERSZ + ROUNDSZ(len) <= r.bufsz
  PROVE  LET start == wrap(r, place(h, r.bufsz, o) + HEADERSZ)
             remsz == r.bufsz - start
         IN  wrap(r, IF remsz < len THEN ROUNDSZ(len - remsz) ELSE start + ROUNDSZ(len))
               = place(h, r.bufsz, o + HEADERSZ + ROUNDSZ(len))
<1> DEFINE B == r.bufsz
           u == o + HEADERSZ
           start == place(h, B, u)
           R == ROUNDSZ(len)
<1>1. HEADERSZ \in Nat \ {0} /\ R \in Nat /\ Aligned(R) /\ len <= R
  BY HeaderAssumption, Rounded
<1>2. B \in Nat /\ h \in Nat /\ h < B
  BY <1>1 DEF Begins
<1>3. wrap(r, place(h, B, o) + HEADERSZ) = start
  <2>1. o + HEADERSZ <= r.bufsz
    BY <1>1, <1>2
  <2> QED BY <2>1, BehindHeader
<1>4. Aligned(u) /\ u \in Nat /\ u + R <= B
  BY <1>1, AlignedUnits, AlignedSums
<1> HIDE DEF R, u
<1>5. Begins(start, B) /\ start \in Nat /\ start < B /\ place(h, B, u + R) = place(start, B, R)
  BY <1>1, <1>2, <1>4, Places
<1> DEFINE rem == B - start
<1>6. Aligned(rem) /\ rem \in Nat
  <2>1. Aligned(start) /\ Aligned(B)
    BY <1>5 DEF Begins
  <2> HIDE DEF start, B
  <2>2. Aligned(rem)
    BY <1>2, <1>5, <2>1, AlignedSums
  <2> QED BY <1>2, <1>5, <2>2
<1> HIDE DEF B, start
<1>7. CASE rem < len
  <2>1. ROUNDSZ(len - rem) = R - rem
    BY <1>6, <1>7, RoundedFits DEF R
  <2>2. R - rem < B
    BY <1>1, <1>2, <1>4, <1>5
  <2>3. place(start, B, R) = R - rem
    BY <1>1, <1>2, <1>5, <1>7 DEF place
  <2> QED BY <1>1, <1>2, <1>3, <1>5, <1>7, <2>1, <2>2, <2>3 DEF wrap, B, u, R
<1>8. CASE ~(rem < len)
  <2>1. rem >= R
    BY <1>2, <1>5, <1>6, <1>8, RoundedFits DEF R
  <2>2. place(start, B, R) = IF start + R >= B THEN 0 ELSE start + R
    BY <1>1, <1>2, <1>5, <2>1 DEF place
  <2> QED BY <1>1, <1>2, <1>3, <1>5, <1>8, <2>2 DEF wrap, B, u, R
<1> QED BY <1>7, <1>8

-----------------------------------------------------------------------------
(* A ring is a record of its fields and begins on a boundary.              *)
RingFields(r) ==
  /\ r = [bufsz |-> r.bufsz, frbufsz |-> r.frbufsz, head |-> r.head, tail |-> r.tail,
          buffer |-> r.buffer]
  /\ r.buffer = [i \in 0 .. r.bufsz - 1 |-> r.buffer[i]]
  /\ Begins(r.head, r.bufsz)

Byte(r, o) == r.buffer[place(r.head, r.bufsz, o)]

(* What a message occupies, and how it stands in the ring from the byte    *)
(* number o on.                                                            *)
Room(msg) == HEADERSZ + ROUNDSZ(Len(msg))

Written(r, msg, o) ==
  /\ Byte(r, o) = header(Len(msg))
  /\ \A j \in 1 .. Len(msg) : Byte(r, o + HEADERSZ + j - 1) = msg[j]

(* Sequences with the same entries are the same.                           *)
LEMMA SameEntries ==
  ASSUME NEW S, NEW s \in Seq(S), NEW z \in Seq(S), Len(z) = Len(s),
         \A i \in 1 .. Len(s) : z[i] = s[i]
  PROVE  z = s
OBVIOUS

(* Two sequences one behind the other are a third one.                     *)
LEMMA Joined ==
  ASSUME NEW S, NEW s \in Seq(S), NEW n \in 0 .. Len(s),
         NEW x, NEW y, x = [i \in 1 .. n |-> s[i]], y = [i \in 1 .. Len(s) - n |-> s[i + n]]
  PROVE  x \o y = s
<1>1. Len(s) \in Nat /\ s \in [1 .. Len(s) -> S] /\ n \in Nat
  OBVIOUS
<1>2. x \in [1 .. n -> S] /\ y \in [1 .. Len(s) - n -> S]
  BY <1>1
<1>3. x \in Seq(S) /\ Len(x) = n /\ y \in Seq(S) /\ Len(y) = Len(s) - n
  <2>1. Len(s) - n \in Nat
    BY <1>1
  <2>2. \A k \in Nat : \A z : z \in [1 .. k -> S] => z \in Seq(S) /\ Len(z) = k
    OBVIOUS
  <2> QED BY <1>1, <1>2, <2>1, <2>2
<1>4. /\ x \o y \in Seq(S) /\ Len(x \o y) = Len(s)
      /\ \A i \in 1 .. Len(s) : (x \o y)[i] = IF i <= n THEN x[i] ELSE y[i - n]
  BY <1>1, <1>3
<1>5. \A i \in 1 .. Len(s) : (x \o y)[i] = s[i]
  BY <1>1, <1>4
<1> QED BY <1>4, <1>5, SameEntries

(* What is written is what is read.                                        *)
LEMMA ReadMessage ==
  ASSUME NEW r, RingFields(r), NEW S, NEW msg \in Seq(S), NEW o \in Nat, Aligned(o),
         o + Room(msg) <= r.bufsz, Written(r, msg, o)
  PROVE  LET at == place(r.head, r.bufsz, o) IN
         /\ msgsz(r, at) = Len(msg)
         /\ msg_at(r, at) = msg
         /\ behind_msg(r, at) = place(r.head, r.bufsz, o + Room(msg))
<1> DEFINE h == r.head
           B == r.bufsz
           at == place(h, B, o)
           len == Len(msg)
           R == ROUNDSZ(len)
           start == place(h, B, o + HEADERSZ)
           remsz == B - start
<1>1. /\ HEADERSZ \in Nat \ {0} /\ len \in Nat /\ R \in Nat /\ len <= R
      /\ Begins(h, B) /\ B \in Nat /\ h \in Nat /\ o + HEADERSZ + R <= B
  <2>1. len \in Nat
    OBVIOUS
  <2>2. HEADERSZ \in Nat \ {0} /\ R \in Nat /\ len <= R
    BY <2>1, HeaderAssumption, Rounded
  <2> HIDE DEF R
  <2> QED BY <2>1, <2>2 DEF RingFields, Begins, Room, R
<1>2. msgsz(r, at) = len
  BY DEF Written, Byte, msgsz, header
<1>3. wrap(r, at + HEADERSZ) = start
  <2>1. o + HEADERSZ <= r.bufsz
    BY <1>1
  <2> QED BY <1>1, <2>1, BehindHeader
<1>4. behind_msg(r, at) = place(h, B, o + Room(msg))
  <2>1. wrap(r, IF remsz < len THEN ROUNDSZ(len - remsz) ELSE start + ROUNDSZ(len))
          = place(h, B, o + HEADERSZ + R)
    <3>1. o + HEADERSZ + ROUNDSZ(len) <= r.bufsz /\ Begins(h, r.bufsz)
      BY <1>1
    <3>2. len \in Nat
      BY <1>1
    <3> HIDE DEF len, h, start, R, B
    <3>3. LET st == wrap(r, place(h, r.bufsz, o) + HEADERSZ)
              re == r.bufsz - st
          IN  wrap(r, IF re < len THEN ROUNDSZ(len - re) ELSE st + ROUNDSZ(len))
                = place(h, r.bufsz, o + HEADERSZ + ROUNDSZ(len))
      BY <3>1, <3>2, BehindMessage
    <3> QED BY <1>3, <3>3 DEF B, R
  <2>2. o + HEADERSZ + R = o + Room(msg)
    BY <1>1 DEF Room
  <2> HIDE DEF start, at
  <2> QED BY <1>2, <1>3, <2>1, <2>2 DEF behind_msg
<1>5. start \in Nat /\ start < B
  BY <1>1 DEF place, Begins
<1>6. ASSUME NEW i \in 1 .. len
      PROVE  msg[i] = r.buffer[IF start + i - 1 >= B THEN start + i - 1 - B ELSE start + i - 1]
  <2>1. msg[i] = r.buffer[place(h, B, o + HEADERSZ + i - 1)]
    BY DEF Written, Byte
  <2>2. place(h, B, o + HEADERSZ + i - 1)
          = IF start + i - 1 >= B THEN start + i - 1 - B ELSE start + i - 1
    <3> HIDE DEF B, h, len, R
    <3> QED BY <1>1 DEF place, Begins
  <2> QED BY <2>1, <2>2
<1> HIDE DEF start
<1>7. msg_at(r, at) = msg
  <2>1. CASE remsz < len
    <3> DEFINE x == bytes(r, start, remsz)
               y == bytes(r, 0, len - remsz)
    <3>1. x = [i \in 1 .. remsz |-> msg[i]]
      <4>1. \A i \in 1 .. remsz : i \in 1 .. len /\ ~(start + i - 1 >= B)
        BY <1>1, <1>5, <2>1
      <4>2. \A i \in 1 .. remsz : r.buffer[start + i - 1] = msg[i]
        BY <1>6, <4>1
      <4> HIDE DEF remsz
      <4> QED BY <4>2 DEF bytes
    <3>2. y = [i \in 1 .. len - remsz |-> msg[i + remsz]]
      <4>0. remsz \in Nat /\ B \in Nat /\ len \in Nat
        BY <1>1, <1>5
      <4>1. \A i \in 1 .. len - remsz : /\ i + remsz \in 1 .. len
                                        /\ start + (i + remsz) - 1 >= B
                                        /\ start + (i + remsz) - 1 - B = 0 + i - 1
        <5> HIDE DEF B, len
        <5> QED BY <4>0, <1>5, <2>1
      <4>2. \A i \in 1 .. len - remsz : r.buffer[0 + i - 1] = msg[i + remsz]
        BY <1>6, <4>1
      <4> HIDE DEF remsz
      <4> QED BY <4>2 DEF bytes
    <3>3. remsz \in 0 .. len
      BY <1>1, <1>5, <2>1
    <3>4. msg_at(r, at) = x \o y
      BY <1>2, <1>3, <2>1 DEF msg_at
    <3> HIDE DEF x, y, remsz
    <3>5. x \o y = msg
      BY <3>1, <3>2, <3>3, Joined
    <3> QED BY <3>4, <3>5
  <2>2. CASE ~(remsz < len)
    <3>1. msg_at(r, at) = bytes(r, start, len)
      BY <1>2, <1>3, <2>2 DEF msg_at
    <3>2. \A i \in 1 .. len : r.buffer[start + i - 1] = msg[i]
      <4>1. \A i \in 1 .. len : ~(start + i - 1 >= B)
        BY <1>1, <1>5, <2>2
      <4> QED BY <1>6, <4>1
    <3>3. msg = [i \in 1 .. len |-> msg[i]]
      OBVIOUS
    <3> QED BY <3>1, <3>2, <3>3 DEF bytes
  <2> QED BY <2>1, <2>2
<1> QED BY <1>2, <1>4, <1>7

(* new is buffer, of n bytes, with src copied to it, from position to on.  *)
IsCopy(new, n, buffer, to, src) ==
  /\ DOMAIN new = 0 .. n - 1
  /\ new = [i \in 0 .. n - 1 |-> new[i]]
  /\ \A i \in 0 .. n - 1 :
       new[i] = IF i \in to .. to + Len(src) - 1 THEN src[i - to + 1] ELSE buffer[i]

(* This is what copied computes.                                           *)
LEMMA CopiedIs ==
  ASSUME NEW n, NEW buffer, DOMAIN buffer = 0 .. n - 1, NEW to, NEW src
  PROVE  IsCopy(copied(buffer, to, src), n, buffer, to, src)
  BY DEF copied, IsCopy

(* A sequence cut in two.                                                  *)
LEMMA CutInTwo ==
  ASSUME NEW S, NEW s \in Seq(S), NEW n \in Nat, n < Len(s)
  PROVE  /\ Len(SubSeq(s, 1, n)) = n
         /\ \A i \in 1 .. n : SubSeq(s, 1, n)[i] = s[i]
         /\ Len(SubSeq(s, n + 1, Len(s))) = Len(s) - n
         /\ \A i \in 1 .. Len(s) - n : SubSeq(s, n + 1, Len(s))[i] = s[n + i]
<1>1. Len(s) \in Nat
  OBVIOUS
<1>2. /\ Len(SubSeq(s, 1, n)) = n
      /\ \A i \in 1 .. n : SubSeq(s, 1, n)[i] = s[i]
  BY <1>1
<1>3. /\ Len(SubSeq(s, n + 1, Len(s))) = Len(s) - n
      /\ \A i \in 1 .. Len(s) - n : SubSeq(s, n + 1, Len(s))[i] = s[n + i]
  BY <1>1
<1> QED BY <1>2, <1>3

(* A ring that is changed by a message.                                    *)
IsRing(r, n, f, h, t, b) ==
  r = [bufsz |-> n, frbufsz |-> f, head |-> h, tail |-> t, buffer |-> b]

LEMMA RingExcept ==
  ASSUME NEW r, NEW n, NEW f, NEW h, NEW t, NEW b, IsRing(r, n, f, h, t, b),
         NEW d, NEW tt, NEW bb,
         NEW new, new = [r EXCEPT !.frbufsz = @ - d, !.buffer = bb, !.tail = tt]
  PROVE  IsRing(new, n, f - d, h, tt, bb)
<1> USE DEF IsRing
<1> DEFINE r1 == [r EXCEPT !.frbufsz = @ - d]
           r2 == [r1 EXCEPT !.buffer = bb]
           r3 == [r2 EXCEPT !.tail = tt]
<1>1. [r EXCEPT !.frbufsz = @ - d, !.buffer = bb, !.tail = tt] = r3
  OBVIOUS
<1>2. r1 = [bufsz |-> n, frbufsz |-> f - d, head |-> h, tail |-> t, buffer |-> b]
  OBVIOUS
<1> HIDE DEF r1
<1>3. r2 = [bufsz |-> n, frbufsz |-> f - d, head |-> h, tail |-> t, buffer |-> bb]
  BY <1>2
<1> HIDE DEF r2
<1>4. r3 = [bufsz |-> n, frbufsz |-> f - d, head |-> h, tail |-> tt, buffer |-> bb]
  BY <1>3
<1> QED BY <1>1, <1>4

(* The ring new has one message more than the ring r: msg is written       *)
(* behind its u used bytes, and those are as before.                       *)
IsWritten(r, new, msg, u) ==
  /\ RingFields(new)
  /\ new.bufsz = r.bufsz /\ new.head = r.head
  /\ u + Room(msg) <= r.bufsz
  /\ new.frbufsz = r.bufsz - (u + Room(msg))
  /\ new.tail = place(r.head, r.bufsz, u + Room(msg))
  /\ Written(new, msg, u)
  /\ \A o \in Nat : o < u => Byte(new, o) = Byte(r, o)

(* A message that there is room for is written.                            *)
LEMMA WriteMessage ==
  ASSUME NEW r, RingFields(r), NEW S, NEW msg \in Seq(S), NEW u \in Nat, Aligned(u),
         r.frbufsz = r.bufsz - u, r.tail = place(r.head, r.bufsz, u),
         mbf_free(r, Len(msg))
  PROVE  IsWritten(r, msg_to_mbf(r, msg), msg, u)
<1> DEFINE h == r.head
           B == r.bufsz
           H == HEADERSZ
           len == Len(msg)
           R == ROUNDSZ(len)
           tail == r.tail
           start == place(h, B, u + H)
           remsz == B - start
           hd == copied(r.buffer, tail, [i \in 1 .. H |-> header(len)])
           buf == IF remsz < len
                  THEN copied(copied(hd, start, SubSeq(msg, 1, remsz)), 0,
                              SubSeq(msg, remsz + 1, len))
                  ELSE copied(hd, start, msg)
           new == msg_to_mbf(r, msg)
<1>1. /\ H \in Nat \ {0} /\ len \in Nat /\ R \in Nat /\ Aligned(R) /\ len <= R
      /\ Begins(h, B) /\ B \in Nat /\ h \in Nat
  <2>1. len \in Nat
    OBVIOUS
  <2>2. H \in Nat \ {0} /\ R \in Nat /\ Aligned(R) /\ len <= R
    BY <2>1, HeaderAssumption, Rounded
  <2> HIDE DEF R
  <2> QED BY <2>1, <2>2 DEF RingFields, Begins
<1>2. u + H + R <= B /\ u + H <= B
  <2>1. H + len <= B - u
    BY DEF mbf_free
  <2>2. Aligned(u + H)
    BY <1>1, AlignedUnits, AlignedSums
  <2>3. Aligned(B)
    BY <1>1 DEF Begins
  <2> DEFINE x == B - (u + H)
  <2>4. x \in Int /\ Aligned(x)
    <3> HIDE DEF B
    <3> QED BY <1>1, <2>2, <2>3, AlignedSums
  <2>5. x >= len
    BY <1>1, <2>1
  <2> HIDE DEF x
  <2>6. x >= R
    BY <1>1, <2>4, <2>5, RoundedFits
  <2> HIDE DEF B, R, len, H
  <2> QED BY <1>1, <2>6 DEF x
<1>3. Aligned(u) /\ tail = place(h, B, u)
  OBVIOUS
<1>4. /\ tail + H <= B /\ wrap(r, tail + H) = start
      /\ tail \in Nat /\ start \in Nat /\ tail < B /\ start < B
  <2>1. place(h, B, u) + H <= B /\ wrap(r, place(h, B, u) + H) = start
    BY <1>1, <1>2, BehindHeader
  <2> HIDE DEF B, h, H
  <2> QED BY <1>1, <1>2, <1>3, <2>1 DEF place, Begins
<1>b. r.buffer = [i \in 0 .. B - 1 |-> r.buffer[i]]
  BY DEF RingFields
<1>r. r = [bufsz |-> B, frbufsz |-> r.frbufsz, head |-> h, tail |-> tail, buffer |-> r.buffer]
  BY DEF RingFields
<1>5. new = [bufsz |-> B, frbufsz |-> r.frbufsz - (H + R), head |-> h,
             tail |-> wrap(r, IF remsz < len THEN ROUNDSZ(len - remsz) ELSE start + R),
             buffer |-> buf]
  <2>1. new = [r EXCEPT
                 !.frbufsz = @ - (H + R), !.buffer = buf,
                 !.tail = wrap(r, IF remsz < len THEN ROUNDSZ(len - remsz) ELSE start + R)]
    BY <1>4 DEF msg_to_mbf
  <2> DEFINE T == wrap(r, IF remsz < len THEN ROUNDSZ(len - remsz) ELSE start + R)
  <2> HIDE DEF buf, T, new, B, h, tail, R, H
  <2>2. new = [r EXCEPT !.frbufsz = @ - (H + R), !.buffer = buf, !.tail = T]
    BY <2>1 DEF T
  <2>3. IsRing(r, B, r.frbufsz, h, tail, r.buffer)
    BY <1>r DEF IsRing
  <2>4. IsRing(new, B, r.frbufsz - (H + R), h, T, buf)
    BY <2>2, <2>3, RingExcept
  <2> QED BY <2>4 DEF T, IsRing
<1>6. wrap(r, IF remsz < len THEN ROUNDSZ(len - remsz) ELSE start + R)
        = place(h, B, u + Room(msg))
  <2>1. LET st == wrap(r, place(h, r.bufsz, u) + HEADERSZ)
            re == r.bufsz - st
        IN  wrap(r, IF re < len THEN ROUNDSZ(len - re) ELSE st + ROUNDSZ(len))
              = place(h, r.bufsz, u + HEADERSZ + ROUNDSZ(len))
    <3>1. u + HEADERSZ + ROUNDSZ(len) <= r.bufsz /\ Begins(h, r.bufsz) /\ len \in Nat
      BY <1>1, <1>2
    <3> HIDE DEF len, h, R, B, H
    <3> QED BY <1>3, <3>1, BehindMessage
  <2>2. u + H + R = u + Room(msg)
    BY <1>1 DEF Room
  <2> QED BY <1>3, <1>4, <2>1, <2>2
<1> DEFINE value(p) ==
      IF remsz < len /\ p < len - remsz THEN msg[remsz + p + 1]
      ELSE IF p >= start /\ p < start + len THEN msg[p - start + 1]
      ELSE IF p >= tail /\ p < tail + H THEN header(len)
      ELSE r.buffer[p]
<1>7. /\ buf = [p \in 0 .. B - 1 |-> buf[p]]
      /\ \A p \in 0 .. B - 1 : buf[p] = value(p)
  <2> DEFINE hs == [i \in 1 .. H |-> header(len)]
  <2>1. Len(hs) = H /\ \A i \in 1 .. H : hs[i] = header(len)
    BY <1>1
  <2>2. /\ DOMAIN hd = 0 .. B - 1
        /\ \A p \in 0 .. B - 1 :
             hd[p] = IF p >= tail /\ p < tail + H THEN header(len) ELSE r.buffer[p]
    <3>1. DOMAIN r.buffer = 0 .. B - 1
      BY <1>b
    <3>2. /\ DOMAIN hd = 0 .. B - 1
          /\ \A p \in 0 .. B - 1 :
               hd[p] = IF p \in tail .. tail + Len(hs) - 1 THEN hs[p - tail + 1] ELSE r.buffer[p]
      <4>1. hd = copied(r.buffer, tail, hs)
        OBVIOUS
      <4> HIDE DEF hd, hs, B, tail
      <4>2. IsCopy(hd, B, r.buffer, tail, hs)
        BY <3>1, <4>1, CopiedIs
      <4> QED BY <4>2 DEF IsCopy
    <3>3. ASSUME NEW p \in 0 .. B - 1
          PROVE  /\ p \in tail .. tail + Len(hs) - 1 <=> p >= tail /\ p < tail + H
                 /\ p >= tail /\ p < tail + H => p - tail + 1 \in 1 .. H
      <4> HIDE DEF hs, tail, B
      <4> QED BY <1>1, <1>4, <2>1
    <3> HIDE DEF hd, hs, B, tail
    <3> QED BY <2>1, <3>2, <3>3
  <2> HIDE DEF hd
  <2>3. CASE remsz < len
    <3> DEFINE x == SubSeq(msg, 1, remsz)
               y == SubSeq(msg, remsz + 1, len)
               mid == copied(hd, start, x)
    <3>0. remsz \in Nat /\ remsz < len
      <4> HIDE DEF B, start
      <4> QED BY <1>1, <1>4, <2>3
    <3> HIDE DEF remsz
    <3>1. /\ Len(x) = remsz /\ \A i \in 1 .. remsz : x[i] = msg[i]
          /\ Len(y) = len - remsz
          /\ \A i \in 1 .. len - remsz : y[i] = msg[remsz + i]
      BY <3>0, CutInTwo
    <3>m. mid = copied(hd, start, x)
      OBVIOUS
    <3> HIDE DEF x, y
    <3>2. /\ DOMAIN mid = 0 .. B - 1
          /\ \A p \in 0 .. B - 1 :
               mid[p] = IF p \in start .. start + Len(x) - 1 THEN x[p - start + 1] ELSE hd[p]
      <4> HIDE DEF mid, start, B
      <4>1. IsCopy(mid, B, hd, start, x)
        BY <2>2, <3>m, CopiedIs
      <4> QED BY <4>1 DEF IsCopy
    <3> HIDE DEF mid
    <3>3. /\ buf = [p \in 0 .. B - 1 |-> buf[p]]
          /\ \A p \in 0 .. B - 1 :
               buf[p] = IF p \in 0 .. 0 + Len(y) - 1 THEN y[p - 0 + 1] ELSE mid[p]
      <4>1. buf = copied(mid, 0, y)
        BY <3>0 DEF mid, x, y
      <4> HIDE DEF buf, B
      <4>2. IsCopy(buf, B, mid, 0, y)
        BY <3>2, <4>1, CopiedIs
      <4> QED BY <4>2 DEF IsCopy
    <3>4. ASSUME NEW p \in 0 .. B - 1 PROVE buf[p] = value(p)
      <4>b. remsz = B - start
        BY DEF remsz
      <4> HIDE DEF B, start, tail, H, len, buf
      <4>1. p \in Nat /\ p < B
        BY <1>1
      <4>2. CASE p < len - remsz
        <5>1. p \in 0 .. 0 + Len(y) - 1 /\ p - 0 + 1 \in 1 .. len - remsz
          BY <1>1, <3>0, <3>1, <4>1, <4>2
        <5>2. buf[p] = y[p - 0 + 1] /\ y[p - 0 + 1] = msg[remsz + (p - 0 + 1)]
          BY <3>1, <3>3, <5>1
        <5>3. remsz + (p - 0 + 1) = remsz + p + 1
          BY <3>0, <4>1
        <5> QED BY <3>0, <4>2, <5>2, <5>3
      <4>3. CASE ~(p < len - remsz)
        <5>1. p \notin 0 .. 0 + Len(y) - 1
          BY <1>1, <3>0, <3>1, <4>1, <4>3
        <5>2. buf[p] = mid[p]
          BY <3>3, <5>1
        <5>3. CASE p >= start
          <6>1. p \in start .. start + Len(x) - 1 /\ p - start + 1 \in 1 .. remsz /\ p < start + len
            <7>1. p \in start .. start + remsz - 1 /\ p - start + 1 \in 1 .. remsz /\ p < start + len
              BY <1>1, <1>4, <3>0, <4>1, <4>b, <5>3
            <7> QED BY <3>1, <7>1
          <6> QED BY <3>1, <3>2, <4>3, <5>2, <5>3, <6>1
        <5>4. CASE ~(p >= start)
          <6>1. p \notin start .. start + Len(x) - 1
            BY <1>4, <4>1, <5>4
          <6> QED BY <2>2, <3>2, <4>3, <5>2, <5>4, <6>1
        <5> QED BY <5>3, <5>4
      <4> QED BY <4>2, <4>3
    <3> QED BY <3>3, <3>4
  <2>4. CASE ~(remsz < len)
    <3>1. buf = copied(hd, start, msg)
      BY <2>4
    <3> HIDE DEF buf, remsz, start, tail, B, H
    <3>2. /\ buf = [p \in 0 .. B - 1 |-> buf[p]]
          /\ \A p \in 0 .. B - 1 :
               buf[p] = IF p \in start .. start + Len(msg) - 1 THEN msg[p - start + 1] ELSE hd[p]
      <4>1. IsCopy(buf, B, hd, start, msg)
        BY <2>2, <3>1, CopiedIs
      <4> QED BY <4>1 DEF IsCopy
    <3>3. ASSUME NEW p \in 0 .. B - 1 PROVE buf[p] = value(p)
      <4>1. p \in start .. start + Len(msg) - 1 <=> p >= start /\ p < start + len
        BY <1>1, <1>4
      <4> QED BY <2>2, <2>4, <3>2, <4>1
    <3> QED BY <3>2, <3>3
  <2> QED BY <2>3, <2>4
<1> HIDE DEF buf
<1>8. ASSUME NEW j \in 1 .. len PROVE buf[place(h, B, u + H + j - 1)] = msg[j]
  <2> DEFINE p == place(h, B, u + H + j - 1)
  <2>b. start = place(h, B, u + H)
    OBVIOUS
  <2> HIDE DEF B, h, tail, start, H, len, R
  <2>1. /\ p \in 0 .. B - 1 /\ remsz \in Nat /\ j \in Nat
        /\ p = IF j <= remsz THEN start + j - 1 ELSE j - 1 - remsz
    BY <1>1, <1>2, <1>4, <2>b DEF place, Begins
  <2>2. j <= remsz => ~(remsz < len /\ p < len - remsz) /\ p >= start /\ p < start + len
                      /\ p - start + 1 = j
    BY <1>1, <1>2, <1>4, <2>1, <2>b DEF place, Begins
  <2>3. ~(j <= remsz) => remsz < len /\ p < len - remsz /\ remsz + p + 1 = j
    BY <1>1, <2>1
  <2> HIDE DEF p, remsz
  <2>4. buf[p] = value(p)
    BY <1>7, <2>1
  <2> QED BY <2>2, <2>3, <2>4 DEF p
<1>9. buf[place(h, B, u)] = header(len)
  <2>b. start = place(h, B, u + H)
    OBVIOUS
  <2> HIDE DEF B, h, tail, start, H, len, R
  <2>1. /\ tail \in 0 .. B - 1
        /\ ~(remsz < len /\ tail < len - remsz) /\ ~(tail >= start /\ tail < start + len)
        /\ tail >= tail /\ tail < tail + H
    BY <1>1, <1>2, <1>3, <1>4, <2>b DEF place, Begins
  <2>2. buf[tail] = value(tail)
    BY <1>7, <2>1
  <2> QED BY <1>3, <2>1, <2>2
<1>10. ASSUME NEW o \in Nat, o < u PROVE buf[place(h, B, o)] = r.buffer[place(h, B, o)]
  <2> DEFINE p == place(h, B, o)
  <2>b. start = place(h, B, u + H)
    OBVIOUS
  <2> HIDE DEF B, h, tail, start, H, len, R
  <2>1. /\ p \in 0 .. B - 1
        /\ ~(remsz < len /\ p < len - remsz) /\ ~(p >= start /\ p < start + len)
        /\ ~(p >= tail /\ p < tail + H)
    BY <1>1, <1>2, <1>3, <1>4, <1>10, <2>b DEF place, Begins
  <2> HIDE DEF p
  <2>2. buf[p] = value(p)
    BY <1>7, <2>1
  <2> QED BY <2>1, <2>2 DEF p
<1>11. new.bufsz = B /\ new.head = h /\ new.buffer = buf /\ new.frbufsz = r.frbufsz - (H + R)
       /\ new.tail = place(h, B, u + Room(msg))
  BY <1>5, <1>6
<1>12. RingFields(new)
  <2>1. new = [bufsz |-> new.bufsz, frbufsz |-> new.frbufsz, head |-> new.head,
               tail |-> new.tail, buffer |-> new.buffer]
    BY <1>5, <1>11
  <2> HIDE DEF new
  <2> QED BY <1>1, <1>7, <1>11, <2>1 DEF RingFields
<1>13. new.frbufsz = B - (u + Room(msg)) /\ u + Room(msg) <= B
  <2>1. r.frbufsz = B - u /\ Room(msg) = H + R
    BY DEF Room
  <2> HIDE DEF B, H, R, new
  <2> QED BY <1>1, <1>2, <1>11, <2>1
<1> HIDE DEF new
<1>14. Written(new, msg, u) /\ \A o \in Nat : o < u => Byte(new, o) = Byte(r, o)
  BY <1>8, <1>9, <1>10, <1>11 DEF Written, Byte
<1> QED BY <1>11, <1>12, <1>13, <1>14 DEF IsWritten, new

-----------------------------------------------------------------------------
(* Where the messages m begin, one behind the other, and where the last    *)
(* ends.                                                                   *)
Offsets(m, off) ==
  /\ off \in [1 .. Len(m) + 1 -> Nat]
  /\ off[1] = 0
  /\ \A i \in 1 .. Len(m) + 1 : Aligned(off[i])
  /\ \A i \in 1 .. Len(m) : off[i + 1] = off[i] + Room(m[i])
  /\ \A i, j \in 1 .. Len(m) + 1 : i < j => off[i] + (j - i) <= off[j]

(* The messages m are in the ring r, and nothing else is.                  *)
Carries(r, m, off) ==
  /\ RingFields(r)
  /\ Offsets(m, off)
  /\ off[Len(m) + 1] <= r.bufsz
  /\ r.frbufsz = r.bufsz - off[Len(m) + 1]
  /\ r.tail = place(r.head, r.bufsz, off[Len(m) + 1])
  /\ \A i \in 1 .. Len(m) : Written(r, m[i], off[i])

RingIs(r, m) == \E off : Carries(r, m, off)

(* What a message occupies.                                                *)
LEMMA RoomIs ==
  ASSUME NEW S, NEW msg \in Seq(S)
  PROVE  /\ Room(msg) \in Nat /\ Room(msg) > 0 /\ Aligned(Room(msg))
         /\ HEADERSZ + Len(msg) <= Room(msg)
<1>1. Len(msg) \in Nat
  OBVIOUS
<1>2. /\ HEADERSZ \in Nat \ {0} /\ ROUNDSZ(Len(msg)) \in Nat /\ Aligned(ROUNDSZ(Len(msg)))
      /\ Len(msg) <= ROUNDSZ(Len(msg))
  BY <1>1, HeaderAssumption, Rounded
<1>3. Aligned(Room(msg))
  BY <1>2, AlignedUnits, AlignedSums DEF Room
<1> DEFINE R == ROUNDSZ(Len(msg))
<1> HIDE DEF R
<1>4. Room(msg) = HEADERSZ + R
  BY DEF Room, R
<1> QED BY <1>1, <1>2, <1>3, <1>4 DEF R

(* A message of several lies before the end of all.                        *)
LEMMA OffsetsAre ==
  ASSUME NEW S, NEW m \in Seq(Seq(S)), NEW off, Offsets(m, off), NEW i \in 1 .. Len(m)
  PROVE  /\ off[i] \in Nat /\ off[i + 1] \in Nat /\ off[Len(m) + 1] \in Nat
         /\ i - 1 <= off[i] /\ Aligned(off[i])
         /\ m[i] \in Seq(S) /\ Len(m[i]) \in Nat
         /\ off[i + 1] = off[i] + Room(m[i])
         /\ off[i] + HEADERSZ + Len(m[i]) <= off[i + 1]
         /\ off[i + 1] <= off[Len(m) + 1]
<1> DEFINE n == Len(m)
<1>1. n \in Nat /\ i \in 1 .. n /\ i \in 1 .. n + 1 /\ i + 1 \in 1 .. n + 1 /\ n + 1 \in 1 .. n + 1
      /\ 1 \in 1 .. n + 1
  OBVIOUS
<1>2. m[i] \in Seq(S) /\ Len(m[i]) \in Nat
  OBVIOUS
<1> HIDE DEF n
<1>3. /\ off \in [1 .. n + 1 -> Nat] /\ off[1] = 0 /\ Aligned(off[i])
      /\ off[i + 1] = off[i] + Room(m[i])
      /\ \A k, j \in 1 .. n + 1 : k < j => off[k] + (j - k) <= off[j]
  BY <1>1 DEF Offsets, n
<1>4. off[i] \in Nat /\ off[i + 1] \in Nat /\ off[n + 1] \in Nat
  BY <1>1, <1>3
<1>5. 1 < i => off[1] + (i - 1) <= off[i]
  BY <1>1, <1>3
<1>6. i + 1 < n + 1 => off[i + 1] + (n + 1 - (i + 1)) <= off[n + 1]
  BY <1>1, <1>3
<1>7. HEADERSZ \in Nat /\ Room(m[i]) \in Nat /\ HEADERSZ + Len(m[i]) <= Room(m[i])
  BY <1>2, RoomIs, HeaderAssumption
<1>8. i - 1 <= off[i]
  BY <1>1, <1>3, <1>4, <1>5
<1>9. off[i + 1] <= off[n + 1]
  BY <1>1, <1>4, <1>6
<1>10. off[i] + HEADERSZ + Len(m[i]) <= off[i + 1]
  BY <1>2, <1>3, <1>4, <1>7
<1> QED BY <1>2, <1>3, <1>4, <1>8, <1>9, <1>10 DEF n

(* A ring that a buffer is created with holds no message.                  *)
LEMMA RingStarts ==
  ASSUME NEW B \in Nat, Aligned(B)
  PROVE  RingIs(mbf_initialize(B), << >>)
<1> DEFINE r == mbf_initialize(B)
           off == [i \in 1 .. 1 |-> 0]
<1>1. RingFields(r)
  <2>1. Begins(0, B)
    BY AlignedUnits DEF Begins
  <2> QED BY <2>1 DEF RingFields, mbf_initialize
<1>2. Offsets(<< >>, off)
  BY AlignedUnits DEF Offsets
<1>3. r.frbufsz = B /\ r.bufsz = B /\ r.head = 0 /\ r.tail = 0 /\ place(0, B, 0) = 0
  BY DEF mbf_initialize, place
<1>4. off[Len(<< >>) + 1] = 0
  OBVIOUS
<1> HIDE DEF r, off
<1>5. Carries(r, << >>, off)
  BY <1>1, <1>2, <1>3, <1>4 DEF Carries
<1> QED BY <1>5 DEF RingIs, r

(* Whether a ring holds a message shows in its free bytes.                 *)
LEMMA RingEmpty ==
  ASSUME NEW r, NEW S, NEW m \in Seq(Seq(S)), RingIs(r, m)
  PROVE  mbf_empty(r) <=> m = << >>
<1>1. PICK off : Carries(r, m, off)
  BY DEF RingIs
<1>2. Len(m) \in Nat /\ (m = << >> <=> Len(m) = 0)
  OBVIOUS
<1> DEFINE n == Len(m)
<1>3. off[n + 1] \in Nat /\ off[1] = 0 /\ (1 < n + 1 => off[1] + (n + 1 - 1) <= off[n + 1])
  BY <1>1, <1>2 DEF Carries, Offsets
<1>4. r.bufsz \in Nat /\ r.frbufsz = r.bufsz - off[n + 1]
  BY <1>1 DEF Carries, RingFields, Begins
<1> HIDE DEF n
<1> QED BY <1>2, <1>3, <1>4 DEF mbf_empty, n

(* msg_to_mbf puts a message behind the others.                            *)
LEMMA RingAppends ==
  ASSUME NEW r, NEW S, NEW m \in Seq(Seq(S)), RingIs(r, m),
         NEW msg \in Seq(S), mbf_free(r, Len(msg))
  PROVE  RingIs(msg_to_mbf(r, msg), Append(m, msg))
<1>1. PICK off : Carries(r, m, off)
  BY DEF RingIs
<1> DEFINE n == Len(m)
           u == off[n + 1]
           new == msg_to_mbf(r, msg)
           mm == Append(m, msg)
           o2 == [i \in 1 .. n + 2 |-> IF i = n + 2 THEN u + Room(msg) ELSE off[i]]
<1>2. /\ n \in Nat /\ Len(mm) = n + 1
      /\ \A i \in 1 .. n : mm[i] = m[i] /\ m[i] \in Seq(S)
      /\ mm[n + 1] = msg
  OBVIOUS
<1>3. u \in Nat /\ Aligned(u) /\ off \in [1 .. n + 1 -> Nat]
  BY <1>1, <1>2 DEF Carries, Offsets
<1>4. Room(msg) \in Nat /\ Room(msg) > 0 /\ Aligned(Room(msg))
  BY RoomIs
<1>5. IsWritten(r, new, msg, u)
  <2>1. RingFields(r) /\ r.frbufsz = r.bufsz - u /\ r.tail = place(r.head, r.bufsz, u)
    BY <1>1 DEF Carries
  <2> QED BY <1>3, <2>1, WriteMessage
<1> HIDE DEF new, mm, u
<1>6. Offsets(mm, o2)
  <2> HIDE DEF n
  <2>1. o2 \in [1 .. Len(mm) + 1 -> Nat]
    BY <1>2, <1>3, <1>4
  <2>2. o2[1] = 0
    BY <1>1, <1>2 DEF Carries, Offsets
  <2>a. Aligned(u + Room(msg))
    BY <1>3, <1>4, AlignedSums
  <2>3. ASSUME NEW i \in 1 .. Len(mm) + 1 PROVE Aligned(o2[i])
    BY <1>1, <1>2, <2>a DEF Carries, Offsets, n
  <2>4. ASSUME NEW i \in 1 .. Len(mm) PROVE o2[i + 1] = o2[i] + Room(mm[i])
    <3>1. CASE i = n + 1
      BY <1>2, <3>1 DEF u
    <3>2. CASE i \in 1 .. n
      <4>1. off[i + 1] = off[i] + Room(m[i])
        BY <1>1, <3>2 DEF Carries, Offsets, n
      <4>2. o2[i + 1] = off[i + 1] /\ o2[i] = off[i]
        BY <1>2, <3>2
      <4> QED BY <1>2, <3>2, <4>1, <4>2
    <3> QED BY <1>2, <3>1, <3>2
  <2>5. ASSUME NEW i \in 1 .. Len(mm) + 1, NEW j \in 1 .. Len(mm) + 1, i < j
        PROVE  o2[i] + (j - i) <= o2[j]
    <3>o. \A k \in 1 .. n + 1 : off[k] \in Nat
      BY <1>3
    <3>1. CASE j = n + 2
      <4>1. i \in 1 .. n + 1 /\ o2[i] = off[i] /\ o2[j] = off[n + 1] + Room(msg)
        BY <1>2, <2>5, <3>1 DEF u
      <4>2. i < n + 1 => off[i] + (n + 1 - i) <= off[n + 1]
        BY <1>1, <1>2, <4>1 DEF Carries, Offsets, n
      <4>3. off[i] \in Nat /\ off[n + 1] \in Nat
        BY <1>2, <3>o, <4>1
      <4> QED BY <1>2, <1>4, <3>1, <4>1, <4>2, <4>3
    <3>2. CASE j # n + 2
      <4>1. i \in 1 .. n + 1 /\ j \in 1 .. n + 1 /\ o2[i] = off[i] /\ o2[j] = off[j]
        BY <1>2, <2>5, <3>2
      <4> QED BY <1>1, <2>5, <4>1 DEF Carries, Offsets, n
    <3> QED BY <3>1, <3>2
  <2> QED BY <2>1, <2>2, <2>3, <2>4, <2>5 DEF Offsets
<1>7. o2[Len(mm) + 1] = u + Room(msg)
  <2> HIDE DEF n
  <2> QED BY <1>2
<1>8. ASSUME NEW i \in 1 .. Len(mm) PROVE Written(new, mm[i], o2[i])
  <2>1. CASE i = n + 1
    <3>1. o2[i] = u
      <4> HIDE DEF n
      <4> QED BY <1>2, <2>1 DEF u
    <3> HIDE DEF o2, n
    <3> QED BY <1>2, <1>5, <2>1, <3>1 DEF IsWritten
  <2>2. CASE i \in 1 .. n
    <3> HIDE DEF n
    <3>1. o2[i] = off[i] /\ mm[i] = m[i] /\ off[i] \in Nat /\ m[i] \in Seq(S)
      BY <1>2, <1>3, <2>2
    <3>2. Written(r, m[i], off[i]) /\ Offsets(m, off)
      BY <1>1, <2>2 DEF Carries, n
    <3>3. /\ off[i + 1] \in Nat /\ Len(m[i]) \in Nat /\ off[i + 1] <= u
          /\ off[i] + HEADERSZ + Len(m[i]) <= off[i + 1]
      BY <2>2, <3>2, OffsetsAre DEF n, u
    <3>5. off[i] < u /\ \A j \in 1 .. Len(m[i]) : off[i] + HEADERSZ + j - 1 \in Nat
                                                  /\ off[i] + HEADERSZ + j - 1 < u
      <4> DEFINE x == off[i]
                 y == off[i + 1]
                 L == Len(m[i])
      <4>1. x \in Nat /\ y \in Nat /\ L \in Nat /\ y <= u /\ x + HEADERSZ + L <= y
        BY <3>1, <3>3
      <4> HIDE DEF x, y, L
      <4>2. x < u /\ \A j \in 1 .. L : x + HEADERSZ + j - 1 \in Nat /\ x + HEADERSZ + j - 1 < u
        BY <1>3, <4>1, HeaderAssumption
      <4> QED BY <4>2 DEF x, L
    <3> HIDE DEF o2
    <3> QED BY <1>5, <3>1, <3>2, <3>5 DEF IsWritten, Written
  <2> QED BY <1>2, <2>1, <2>2
<1> HIDE DEF o2
<1>9. Carries(new, mm, o2)
  BY <1>5, <1>6, <1>7, <1>8 DEF Carries, IsWritten
<1> QED BY <1>9 DEF RingIs, new, mm

(* The first message of a ring, and what is left when it is taken.         *)
LEMMA RingTakes ==
  ASSUME NEW r, NEW S, NEW m \in Seq(Seq(S)), RingIs(r, m), m # << >>
  PROVE  /\ msg_at(r, r.head) = m[1] /\ msgsz(r, r.head) = Len(m[1])
         /\ RingIs(mbf_to_msg(r), Tail(m))
<1>1. PICK off : Carries(r, m, off)
  BY DEF RingIs
<1> DEFINE n == Len(m)
           h == r.head
           B == r.bufsz
           d == Room(m[1])
           u == off[n + 1]
           new == mbf_to_msg(r)
           mm == Tail(m)
           o2 == [i \in 1 .. n |-> off[i + 1] - d]
<1>2. /\ n \in Nat /\ n >= 1 /\ 1 \in 1 .. n /\ mm \in Seq(Seq(S)) /\ Len(mm) = n - 1
      /\ \A i \in 1 .. n - 1 : mm[i] = m[i + 1]
  <2>1. n \in Nat /\ n >= 1
    OBVIOUS
  <2> QED BY <2>1
<1>3. /\ RingFields(r) /\ Offsets(m, off) /\ u <= B /\ r.frbufsz = B - u
      /\ r.tail = place(h, B, u) /\ \A i \in 1 .. n : Written(r, m[i], off[i])
  BY <1>1 DEF Carries
<1>b. B \in Nat /\ h \in Nat /\ Begins(h, B) /\ (h < B \/ B = 0)
  BY <1>3 DEF RingFields, Begins
<1>r. IsRing(r, B, r.frbufsz, h, r.tail, r.buffer) /\ r.buffer = [i \in 0 .. B - 1 |-> r.buffer[i]]
  BY <1>3 DEF RingFields, IsRing
<1>4. m[1] \in Seq(S) /\ off[1] = 0 /\ off[1 + 1] = off[1] + d /\ off[1 + 1] <= u
      /\ u \in Nat /\ off[1 + 1] \in Nat
  BY <1>2, <1>3, OffsetsAre DEF Offsets
<1>5. d \in Nat /\ d > 0 /\ Aligned(d) /\ d <= u /\ off[2] = d
  <2>1. d \in Nat /\ d > 0 /\ Aligned(d)
    BY <1>4, RoomIs
  <2> HIDE DEF d, u
  <2> QED BY <1>4, <2>1
<1>6. place(h, B, 0) = h
  BY <1>3, <1>5, <1>b DEF place
<1>7. msgsz(r, h) = Len(m[1]) /\ msg_at(r, h) = m[1] /\ behind_msg(r, h) = place(h, B, d)
  <2>1. Written(r, m[1], 0)
    BY <1>2, <1>3, <1>4
  <2>2. 0 + Room(m[1]) <= r.bufsz /\ RingFields(r) /\ Aligned(0)
    BY <1>3, <1>4, <1>5, <1>b, AlignedUnits
  <2>3. LET at == place(r.head, r.bufsz, 0) IN
        /\ msgsz(r, at) = Len(m[1])
        /\ msg_at(r, at) = m[1]
        /\ behind_msg(r, at) = place(r.head, r.bufsz, 0 + Room(m[1]))
    <3> HIDE DEF d, h, B
    <3> QED BY <1>4, <2>1, <2>2, ReadMessage
  <2>4. 0 + Room(m[1]) = d
    BY <1>5
  <2> HIDE DEF d
  <2> QED BY <1>6, <2>3, <2>4
<1>8. IsRing(new, B, B - (u - d), place(h, B, d), r.tail, r.buffer)
  <2>1. new = [r EXCEPT !.frbufsz = @ + HEADERSZ + ROUNDSZ(Len(m[1])), !.head = place(h, B, d)]
    BY <1>7 DEF mbf_to_msg
  <2> DEFINE f == r.frbufsz + HEADERSZ + ROUNDSZ(Len(m[1]))
             r1 == [r EXCEPT !.frbufsz = f]
  <2>2. f = B - (u - d)
    <3> DEFINE R == ROUNDSZ(Len(m[1]))
    <3>1. d = HEADERSZ + R /\ R \in Nat
      <4>1. Len(m[1]) \in Nat
        BY <1>4
      <4> QED BY <4>1, Rounded DEF Room
    <3> HIDE DEF d, R, u, B
    <3>2. r.frbufsz + HEADERSZ + R = B - (u - d)
      BY <1>3, <1>4, <1>5, <1>b, <3>1, HeaderAssumption
    <3> QED BY <3>2 DEF R
  <2>3. new = [r1 EXCEPT !.head = place(h, B, d)]
    BY <2>1
  <2> HIDE DEF f, new, d
  <2>4. r1 = [bufsz |-> B, frbufsz |-> f, head |-> h, tail |-> r.tail, buffer |-> r.buffer]
    <3> DEFINE t == r.tail
               b == r.buffer
               ff == r.frbufsz
    <3>1. r = [bufsz |-> B, frbufsz |-> ff, head |-> h, tail |-> t, buffer |-> b]
      BY <1>r DEF IsRing
    <3> HIDE DEF t, b, ff, h, B
    <3>2. r1 = [bufsz |-> B, frbufsz |-> f, head |-> h, tail |-> t, buffer |-> b]
      BY <3>1
    <3> QED BY <3>2 DEF t, b
  <2> HIDE DEF r1
  <2>5. new = [bufsz |-> B, frbufsz |-> f, head |-> place(h, B, d), tail |-> r.tail,
               buffer |-> r.buffer]
    BY <2>3, <2>4
  <2> QED BY <2>2, <2>5 DEF IsRing
<1>9. /\ new.bufsz = B /\ new.frbufsz = B - (u - d) /\ new.head = place(h, B, d)
      /\ new.tail = r.tail /\ new.buffer = r.buffer
  BY <1>8 DEF IsRing
<1> HIDE DEF d, u
<1>10. /\ Begins(place(h, B, d), B)
       /\ \A e \in Nat : d + e <= B => place(h, B, d + e) = place(place(h, B, d), B, e)
  BY <1>3, <1>4, <1>5, <1>b, Places
<1> HIDE DEF h, B, new, mm
<1>11. RingFields(new)
  BY <1>8, <1>9, <1>10, <1>r DEF RingFields, IsRing
<1>12. ASSUME NEW e \in Nat, d + e <= B PROVE Byte(new, e) = Byte(r, d + e)
  BY <1>9, <1>10, <1>12 DEF Byte, h, B
<1>o. /\ \A i \in 1 .. n + 1 : off[i] \in Nat
      /\ \A i \in 1 .. n + 1 : Aligned(off[i])
      /\ \A i, j \in 1 .. n + 1 : i < j => off[i] + (j - i) <= off[j]
      /\ \A i \in 1 .. n : off[i + 1] = off[i] + Room(m[i])
  BY <1>3 DEF Offsets
<1> HIDE DEF n
<1>13. ASSUME NEW i \in 1 .. n
       PROVE  /\ i + 1 \in 1 .. n + 1 /\ off[i + 1] \in Nat /\ d <= off[i + 1]
              /\ o2[i] = off[i + 1] - d /\ o2[i] \in Nat /\ d + o2[i] = off[i + 1]
              /\ Aligned(o2[i])
  <2>1. i + 1 \in 1 .. n + 1 /\ 2 \in 1 .. n + 1 /\ o2[i] = off[i + 1] - d
    BY <1>2
  <2>2. off[i + 1] \in Nat /\ Aligned(off[i + 1]) /\ (2 < i + 1 => off[2] + (i + 1 - 2) <= off[i + 1])
    BY <1>o, <2>1
  <2>3. Aligned(off[i + 1] - d)
    <3> DEFINE x == off[i + 1]
    <3> HIDE DEF x
    <3>1. x \in Int /\ d \in Int /\ Aligned(x) /\ Aligned(d)
      BY <1>5, <2>2 DEF x
    <3>2. Aligned(x - d)
      BY <3>1, AlignedSums
    <3> QED BY <3>2 DEF x
  <2> HIDE DEF o2
  <2> QED BY <1>5, <2>1, <2>2, <2>3
<1>14. Offsets(mm, o2)
  <2>1. o2 \in [1 .. Len(mm) + 1 -> Nat] /\ Len(mm) + 1 = n
    <3>1. Len(mm) + 1 = n
      BY <1>2
    <3>2. o2 = [i \in 1 .. n |-> o2[i]]
      OBVIOUS
    <3> HIDE DEF o2
    <3> QED BY <1>13, <3>1, <3>2
  <2> HIDE DEF o2
  <2>2. o2[1] = 0
    BY <1>2, <1>4, <1>5, <1>13
  <2>3. ASSUME NEW i \in 1 .. n - 1 PROVE o2[i + 1] = o2[i] + Room(mm[i])
    <3>1. i + 1 \in 1 .. n /\ i \in 1 .. n /\ Room(mm[i]) = Room(m[i + 1])
      BY <1>2
    <3>2. off[i + 1 + 1] = off[i + 1] + Room(m[i + 1])
      BY <1>o, <3>1
    <3>3. /\ o2[i + 1] = off[i + 1 + 1] - d /\ o2[i] = off[i + 1] - d
          /\ off[i + 1 + 1] \in Nat /\ off[i + 1] \in Nat
      BY <1>13, <3>1
    <3>4. Room(m[i + 1]) \in Nat
      <4>1. m[i + 1] \in Seq(S)
        BY <3>1 DEF n
      <4> QED BY <4>1, RoomIs
    <3> QED BY <1>5, <3>1, <3>2, <3>3, <3>4
  <2>4. ASSUME NEW i \in 1 .. n, NEW j \in 1 .. n, i < j PROVE o2[i] + (j - i) <= o2[j]
    <3>1. i + 1 \in 1 .. n + 1 /\ j + 1 \in 1 .. n + 1 /\ i + 1 < j + 1
      BY <1>2, <2>4
    <3>2. off[i + 1] + (j + 1 - (i + 1)) <= off[j + 1]
      BY <1>o, <3>1
    <3>3. /\ o2[j] = off[j + 1] - d /\ o2[i] = off[i + 1] - d
          /\ off[j + 1] \in Nat /\ off[i + 1] \in Nat
      BY <1>13
    <3> QED BY <1>5, <3>2, <3>3
  <2>5. \A i \in 1 .. Len(mm) + 1 : Aligned(o2[i])
    BY <1>13, <2>1
  <2>6. /\ \A i \in 1 .. Len(mm) : o2[i + 1] = o2[i] + Room(mm[i])
        /\ \A i, j \in 1 .. Len(mm) + 1 : i < j => o2[i] + (j - i) <= o2[j]
    BY <1>2, <2>1, <2>3, <2>4
  <2> QED BY <2>1, <2>2, <2>5, <2>6 DEF Offsets
<1>15. o2[Len(mm) + 1] = u - d /\ u - d \in Nat /\ u - d <= B
  <2>1. Len(mm) + 1 = n /\ n \in 1 .. n
    BY <1>2
  <2>2. o2[n] = off[n + 1] - d /\ off[n + 1] = u
    BY <1>13, <2>1 DEF u, n
  <2> HIDE DEF o2
  <2> QED BY <1>3, <1>4, <1>5, <1>b, <2>1, <2>2
<1>16. new.tail = place(new.head, B, u - d)
  <2>1. d + (u - d) = u /\ u - d \in Nat
    BY <1>4, <1>5
  <2>2. place(h, B, d + (u - d)) = place(place(h, B, d), B, u - d)
    BY <1>3, <1>10, <2>1
  <2> QED BY <1>3, <1>9, <2>1, <2>2
<1>17. ASSUME NEW i \in 1 .. n - 1 PROVE Written(new, mm[i], o2[i])
  <2>1. i + 1 \in 1 .. n /\ i \in 1 .. n /\ mm[i] = m[i + 1]
    BY <1>2
  <2>2. Written(r, m[i + 1], off[i + 1])
    BY <1>3, <2>1
  <2>3. /\ off[i + 1] \in Nat /\ off[i + 1 + 1] \in Nat /\ Len(m[i + 1]) \in Nat
        /\ off[i + 1] + HEADERSZ + Len(m[i + 1]) <= off[i + 1 + 1] /\ off[i + 1 + 1] <= u
    BY <1>3, <2>1, OffsetsAre DEF n, u
  <2> DEFINE x == off[i + 1]
             y == off[i + 1 + 1]
             L == Len(m[i + 1])
             z == o2[i]
  <2>4. x \in Nat /\ y \in Nat /\ L \in Nat /\ z \in Nat /\ d + z = x /\ x + HEADERSZ + L <= y /\ y <= u
    BY <1>13, <2>1, <2>3
  <2> HIDE DEF x, y, L, z, o2
  <2>5. /\ d + z <= B
        /\ \A j \in 1 .. L : /\ z + HEADERSZ + j - 1 \in Nat
                             /\ d + (z + HEADERSZ + j - 1) <= B
                             /\ d + (z + HEADERSZ + j - 1) = x + HEADERSZ + j - 1
    BY <1>3, <1>4, <1>5, <1>b, <2>4, HeaderAssumption
  <2>6. /\ Byte(new, z) = Byte(r, x)
        /\ \A j \in 1 .. L : Byte(new, z + HEADERSZ + j - 1) = Byte(r, x + HEADERSZ + j - 1)
    BY <1>12, <2>4, <2>5
  <2> QED BY <2>1, <2>2, <2>6 DEF Written, x, L, z
<1>18. Carries(new, mm, o2)
  <2> HIDE DEF o2
  <2>1. \A i \in 1 .. Len(mm) : Written(new, mm[i], o2[i])
    BY <1>2, <1>17
  <2> QED BY <1>9, <1>11, <1>14, <1>15, <1>16, <2>1 DEF Carries
<1> QED BY <1>7, <1>18 DEF RingIs, new, mm, h

(* The walk along the messages of a ring finds all of them.                *)
LEMMA ContentsIs ==
  ASSUME NEW r, NEW S, NEW m \in Seq(Seq(S)), RingIs(r, m)
  PROVE  contents(r) = m
<1>1. PICK off : Carries(r, m, off)
  BY DEF RingIs
<1> DEFINE n == Len(m)
           h == r.head
           B == r.bufsz
           u == off[n + 1]
           seen == [w \in [at : Nat, left : Int] |->
                      IF w.left <= 0 THEN w
                      ELSE [at   |-> behind_msg(r, w.at),
                            left |-> w.left - HEADERSZ - ROUNDSZ(msgsz(r, w.at))]]
           F(g) == [i \in 0 .. B |->
                      IF i = 0 THEN [at |-> r.head, left |-> r.bufsz - r.frbufsz]
                      ELSE seen[g[i - 1]]]
           walk == CHOOSE g : g = F(g)
           number == CHOOSE k \in 0 .. B :
                       walk[k].left <= 0 /\ \A i \in 0 .. k - 1 : walk[i].left > 0
           pos(i) == [at |-> place(h, B, off[i + 1]), left |-> u - off[i + 1]]
           g == [i \in 0 .. B |-> pos(IF i <= n THEN i ELSE n)]
<1>2. contents(r) = [i \in 1 .. number |-> msg_at(r, walk[i - 1].at)]
  BY DEF contents
<1>3. /\ RingFields(r) /\ Offsets(m, off) /\ u <= B /\ r.frbufsz = B - u
      /\ \A i \in 1 .. n : Written(r, m[i], off[i])
  BY <1>1 DEF Carries
<1>4. n \in Nat /\ m \in [1 .. n -> Seq(S)]
  OBVIOUS
<1>5. /\ \A i \in 1 .. n + 1 : off[i] \in Nat /\ Aligned(off[i]) /\ i - 1 <= off[i]
      /\ off[1] = 0
  <2>1. /\ off \in [1 .. n + 1 -> Nat] /\ off[1] = 0
        /\ \A i \in 1 .. n + 1 : Aligned(off[i])
        /\ \A i, j \in 1 .. n + 1 : i < j => off[i] + (j - i) <= off[j]
    BY <1>3 DEF Offsets
  <2> HIDE DEF n
  <2>2. ASSUME NEW i \in 1 .. n + 1 PROVE off[i] \in Nat /\ i - 1 <= off[i]
    <3>1. 1 \in 1 .. n + 1 /\ off[i] \in Nat
      BY <1>4, <2>1
    <3>2. 1 < i => off[1] + (i - 1) <= off[i]
      BY <2>1, <3>1
    <3> QED BY <1>4, <2>1, <3>1, <3>2
  <2> QED BY <2>1, <2>2
<1>6. B \in Nat /\ h \in Nat /\ Begins(h, B) /\ (h < B \/ (B = 0 /\ h = 0))
  BY <1>3 DEF RingFields, Begins
<1>7. u \in Nat /\ n <= u /\ n <= B
  <2>1. n + 1 \in 1 .. n + 1
    BY <1>4
  <2>2. u \in Nat /\ n + 1 - 1 <= u
    BY <1>5, <2>1
  <2> HIDE DEF n, u, B
  <2> QED BY <1>3, <1>4, <1>6, <2>2
<1>8. ASSUME NEW i \in 1 .. n
      PROVE  /\ pos(i - 1) = [at |-> place(h, B, off[i]), left |-> u - off[i]]
             /\ pos(i - 1) \in [at : Nat, left : Int] /\ pos(i - 1).left > 0
             /\ seen[pos(i - 1)] = pos(i)
             /\ msg_at(r, place(h, B, off[i])) = m[i]
  <2>1. /\ off[i] \in Nat /\ off[i + 1] \in Nat /\ m[i] \in Seq(S) /\ Len(m[i]) \in Nat
        /\ off[i + 1] = off[i] + Room(m[i]) /\ off[i] + HEADERSZ + Len(m[i]) <= off[i + 1]
        /\ off[i + 1] <= u /\ Aligned(off[i])
    BY <1>3, OffsetsAre
  <2> DEFINE x == off[i]
             y == off[i + 1]
             L == Len(m[i])
             at == place(h, B, x)
  <2>p. pos(i - 1) = [at |-> at, left |-> u - x] /\ pos(i) = [at |-> place(h, B, y), left |-> u - y]
    <3>1. i - 1 + 1 = i
      BY <1>4
    <3> HIDE DEF h, B, u, n
    <3> QED BY <3>1
  <2>2. x \in Nat /\ y \in Nat /\ L \in Nat /\ x + HEADERSZ + L <= y /\ y <= u /\ y = x + Room(m[i])
    BY <2>1
  <2>3. y <= B /\ x <= B /\ x < u
    <3> HIDE DEF x, y, L, u, B
    <3> QED BY <1>3, <1>6, <1>7, <2>2, HeaderAssumption
  <2>4. /\ msgsz(r, at) = L /\ msg_at(r, at) = m[i]
        /\ behind_msg(r, at) = place(h, B, y)
    <3>1. x + Room(m[i]) <= r.bufsz
      BY <2>2, <2>3
    <3>2. LET pl == place(r.head, r.bufsz, x) IN
          /\ msgsz(r, pl) = Len(m[i])
          /\ msg_at(r, pl) = m[i]
          /\ behind_msg(r, pl) = place(r.head, r.bufsz, x + Room(m[i]))
      <4>1. Written(r, m[i], x) /\ Aligned(x) /\ RingFields(r)
        BY <1>3, <2>1
      <4> HIDE DEF x
      <4> QED BY <2>1, <2>2, <3>1, <4>1, ReadMessage
    <3> HIDE DEF x
    <3> QED BY <2>2, <3>2
  <2>5. u - x - HEADERSZ - ROUNDSZ(L) = u - y
    <3> DEFINE R == ROUNDSZ(L)
    <3>1. y = x + (HEADERSZ + R) /\ R \in Nat
      BY <2>2, Rounded DEF Room
    <3> HIDE DEF x, y, R, u
    <3>2. u - x - HEADERSZ - R = u - y
      BY <1>7, <2>2, <3>1, HeaderAssumption
    <3> QED BY <3>2 DEF R
  <2>6. at \in Nat /\ u - x \in Int /\ ~(u - x <= 0)
    <3> HIDE DEF x, h, B, u
    <3> QED BY <1>6, <1>7, <2>2, <2>3, Places
  <2> DEFINE w == [at |-> at, left |-> u - x]
  <2>7. w \in [at : Nat, left : Int] /\ w.left = u - x /\ w.at = at
    BY <2>6
  <2> HIDE DEF w, at, x, y, L, u, h, B
  <2>8. seen[w] = [at |-> place(h, B, y), left |-> u - y]
    BY <2>4, <2>5, <2>6, <2>7
  <2> HIDE DEF seen
  <2>9. pos(i - 1) = w /\ pos(i) = [at |-> place(h, B, y), left |-> u - y]
    BY <2>p DEF w
  <2> HIDE DEF pos
  <2> QED BY <2>4, <2>6, <2>7, <2>8, <2>9 DEF w, at, x
<1>9. /\ pos(n) = [at |-> place(h, B, u), left |-> 0] /\ pos(n) \in [at : Nat, left : Int]
      /\ seen[pos(n)] = pos(n) /\ pos(n).left = 0
  <2>1. u - u = 0 /\ place(h, B, u) \in Nat
    <3> HIDE DEF u, h, B
    <3> QED BY <1>3, <1>6, <1>7, Places
  <2> QED BY <2>1
<1>10. pos(0) = [at |-> r.head, left |-> r.bufsz - r.frbufsz]
  <2>1. off[0 + 1] = 0
    BY <1>5
  <2>2. place(h, B, 0) = h
    BY <1>6 DEF place
  <2>3. u - 0 = B - r.frbufsz
    <3> HIDE DEF u, B
    <3> QED BY <1>3, <1>6, <1>7
  <2> QED BY <2>1, <2>2, <2>3
<1> HIDE DEF seen, pos, n, B, h, u
<1>11. g = F(g)
  <2>1. ASSUME NEW i \in 0 .. B, i # 0 PROVE g[i] = seen[g[i - 1]]
    <3>0. i \in 1 .. B /\ i - 1 \in 0 .. B
      BY <1>6, <2>1
    <3>1. CASE i <= n
      <4>1. i \in 1 .. n /\ i - 1 <= n
        BY <1>4, <3>0, <3>1
      <4>2. g[i] = pos(i) /\ g[i - 1] = pos(i - 1)
        BY <3>0, <3>1, <4>1
      <4> QED BY <1>8, <4>1, <4>2
    <3>2. CASE ~(i <= n)
      <4>1. g[i] = pos(n) /\ g[i - 1] = pos(n)
        <5>1. i - 1 <= n => i - 1 = n
          BY <1>4, <3>0, <3>2
        <5> QED BY <3>0, <3>2, <5>1
      <4> QED BY <1>9, <4>1
    <3> QED BY <3>1, <3>2
  <2>2. g[0] = [at |-> r.head, left |-> r.bufsz - r.frbufsz]
    <3>1. g[0] = pos(0)
      BY <1>4, <1>6
    <3> QED BY <1>10, <3>1
  <2>3. \A i \in 0 .. B : g[i] = IF i = 0 THEN [at |-> r.head, left |-> r.bufsz - r.frbufsz]
                                ELSE seen[g[i - 1]]
    BY <2>1, <2>2
  <2>4. g = [i \in 0 .. B |-> g[i]]
    OBVIOUS
  <2> HIDE DEF g
  <2> QED BY <2>3, <2>4
<1>12. walk = F(walk)
  <2> HIDE DEF F, g
  <2> QED BY <1>11, Zenon
<1> HIDE DEF walk
<1>13. \A i \in 0 .. B : walk[i] = g[i]
  <2> DEFINE Same == {i \in 0 .. B : walk[i] = g[i]}
  <2>1. 0 \in Same
    <3>0. 0 \in 0 .. B
      BY <1>6
    <3>1. walk[0] = [at |-> r.head, left |-> r.bufsz - r.frbufsz]
      BY <1>12, <3>0
    <3>2. g[0] = [at |-> r.head, left |-> r.bufsz - r.frbufsz]
      <4> HIDE DEF g
      <4> QED BY <1>11, <3>0
    <3> QED BY <3>0, <3>1, <3>2
  <2>2. \A i \in 1 .. B : i - 1 \in Same => i \in Same
    <3>1. ASSUME NEW i \in 1 .. B, walk[i - 1] = g[i - 1] PROVE walk[i] = g[i]
      <4>1. i \in 0 .. B /\ i # 0
        BY <1>6
      <4>2. walk[i] = seen[walk[i - 1]]
        BY <1>12, <4>1
      <4>3. g[i] = seen[g[i - 1]]
        <5> HIDE DEF g
        <5> QED BY <1>11, <4>1
      <4> QED BY <3>1, <4>2, <4>3
    <3> HIDE DEF g
    <3> QED BY <1>6, <3>1
  <2> HIDE DEF Same
  <2>3. \A i \in 0 .. B : i \in Same
    BY <1>6, <2>1, <2>2, UpTo
  <2> QED BY <2>3 DEF Same
<1>14. \A i \in 0 .. n : walk[i] = pos(i)
  BY <1>4, <1>6, <1>7, <1>13
<1>l. ASSUME NEW k \in 0 .. n - 1 PROVE pos(k).left > 0 /\ pos(k).left \in Int
  <2>1. PICK i \in 1 .. n : i - 1 = k
    <3>1. k + 1 \in 1 .. n /\ k + 1 - 1 = k
      BY <1>4
    <3> QED BY <3>1
  <2>2. pos(i - 1).left > 0 /\ pos(i - 1) \in [at : Nat, left : Int]
    BY <1>8
  <2> QED BY <2>1, <2>2
<1>15. number = n
  <2>1. \A i \in 0 .. n - 1 : walk[i].left > 0
    <3>1. ASSUME NEW i \in 0 .. n - 1 PROVE walk[i].left > 0
      <4>1. i \in 0 .. n
        BY <1>4
      <4>2. pos(i).left > 0
        BY <1>l
      <4> QED BY <1>14, <4>1, <4>2
    <3> QED BY <3>1
  <2>2. walk[n].left <= 0 /\ n \in 0 .. B
    BY <1>4, <1>6, <1>7, <1>9, <1>14
  <2>3. ASSUME NEW k \in 0 .. B, walk[k].left <= 0, \A i \in 0 .. k - 1 : walk[i].left > 0
        PROVE  k = n
    <3>1. ~(k < n)
      <4> SUFFICES ASSUME k < n PROVE FALSE
        OBVIOUS
      <4>1. k \in 0 .. n - 1 /\ k \in 0 .. n
        BY <1>4, <1>6
      <4>2. pos(k).left > 0 /\ pos(k).left \in Int
        BY <1>l, <4>1
      <4>3. walk[k] = pos(k)
        BY <1>14, <4>1
      <4> DEFINE l == walk[k].left
      <4>4. l > 0 /\ l \in Int /\ l <= 0
        BY <2>3, <4>1, <4>2, <4>3
      <4> QED BY <4>4
    <3>2. ~(n < k)
      <4> SUFFICES ASSUME n < k PROVE FALSE
        OBVIOUS
      <4>1. n \in 0 .. k - 1
        BY <1>4, <1>6
      <4>2. walk[n].left > 0 /\ walk[n].left = 0
        BY <1>4, <1>9, <1>14, <2>3, <4>1
      <4> QED BY <4>2
    <3> QED BY <1>4, <1>6, <3>1, <3>2
  <2> QED BY <2>1, <2>2, <2>3
<1> HIDE DEF number
<1>16. ASSUME NEW i \in 1 .. n PROVE msg_at(r, walk[i - 1].at) = m[i]
  <2>1. i - 1 \in 0 .. n
    BY <1>4
  <2>2. walk[i - 1].at = place(h, B, off[i])
    <3>1. walk[i - 1] = pos(i - 1)
      BY <1>14, <2>1
    <3>2. pos(i - 1) = [at |-> place(h, B, off[i]), left |-> u - off[i]]
      BY <1>8
    <3> HIDE DEF walk
    <3> QED BY <3>1, <3>2
  <2> QED BY <1>8, <2>2
<1>17. m = [i \in 1 .. n |-> m[i]]
  BY <1>4
<1> QED BY <1>2, <1>15, <1>16, <1>17

-----------------------------------------------------------------------------
(* The messages of the ring of RingBuffer are sequences of bytes.          *)
RingByte == Sender \X Nat

LEMMA MessagesAre == Messages \subseteq Seq(RingByte)
<1> SUFFICES ASSUME NEW s \in Sender, NEW sz \in 1 .. MAXMSZ
             PROVE  [i \in 1 .. sz |-> <<s, i>>] \in Seq(RingByte)
  BY DEF Messages
<1>1. sz \in Nat
  BY RingAssumption
<1> QED BY <1>1 DEF RingByte

(* What MessageFifo says that a message occupies is what it occupies.      *)
LEMMA OccupiedIs ==
  ASSUME NEW S, NEW msg \in Seq(S)
  PROVE  Fifo!Occupied(msg) = Room(msg)
<1> DEFINE len == Len(msg)
           H == HEADERSZ
           R == ROUNDSZ(len)
           P(k) == H * k >= len /\ H * (k - 1) < len
           c == CHOOSE k \in 0 .. len : P(k)
<1>1. len \in Nat /\ H \in Nat \ {0}
  BY HeaderAssumption
<1>2. R \in Nat /\ Aligned(R) /\ len <= R /\ R < len + H
  BY <1>1, Rounded
<1>3. Fifo!Occupied(msg) = H + c * H
  BY DEF Fifo!Occupied
<1>4. PICK k \in Int : R = H * k
  BY <1>2 DEF Aligned
<1> HIDE DEF len, R, H
<1>5. k >= 0
  <2> SUFFICES ASSUME k < 0 PROVE FALSE
    BY <1>4
  <2>1. H * k <= H * (-1)
    BY <1>1
  <2> QED BY <1>1, <1>2, <1>4, <2>1
<1>6. H * (k - 1) = R - H
  BY <1>1, <1>4
<1>7. P(k)
  BY <1>1, <1>2, <1>4, <1>6
<1>8. k <= len
  <2>1. CASE k = 0
    BY <1>1, <2>1
  <2>2. CASE k >= 1
    <3>1. k - 1 <= H * (k - 1)
      BY <1>1, <2>2
    <3> QED BY <1>1, <1>2, <1>6, <3>1
  <2> QED BY <1>5, <2>1, <2>2
<1>9. k \in 0 .. len
  BY <1>1, <1>5, <1>8
<1>10. c \in 0 .. len /\ P(c)
  <2> HIDE DEF P
  <2> QED BY <1>7, <1>9
<1> HIDE DEF c
<1>11. c = k
  <2>1. c \in Int
    BY <1>1, <1>10
  <2>2. ~(c <= k - 1)
    <3> SUFFICES ASSUME c <= k - 1 PROVE FALSE
      OBVIOUS
    <3>1. H * c <= H * (k - 1)
      BY <1>1, <2>1
    <3>2. H * c \in Int /\ H * (k - 1) \in Int
      BY <1>1, <2>1
    <3> QED BY <1>1, <1>7, <1>10, <3>1, <3>2
  <2>3. ~(k <= c - 1)
    <3> SUFFICES ASSUME k <= c - 1 PROVE FALSE
      OBVIOUS
    <3>1. H * k <= H * (c - 1)
      BY <1>1, <2>1
    <3>2. H * k \in Int /\ H * (c - 1) \in Int
      BY <1>1, <2>1
    <3> QED BY <1>1, <1>7, <1>10, <3>1, <3>2
  <2> QED BY <2>1, <2>2, <2>3
<1>12. c * H = R
  BY <1>1, <1>4, <1>11
<1> QED BY <1>3, <1>12 DEF Room, R, H, len

(* The bytes used, as MessageFifo adds them up, are those up to the end of *)
(* the last message.                                                       *)
LEMMA UsedIs ==
  ASSUME NEW S, NEW m \in Seq(Seq(S)), NEW off, Offsets(m, off), contents(mbf) = m
  PROVE  Fifo!Used = off[Len(m) + 1]
<1> DEFINE n == Len(m)
           F(f) == [i \in 0 .. n |-> IF i = 0 THEN 0 ELSE f[i - 1] + Fifo!Occupied(m[i])]
           sum == CHOOSE f : f = F(f)
           g == [i \in 0 .. n |-> off[i + 1]]
<1>1. Fifo!Used = sum[n]
  BY DEF Fifo!Used
<1>2. n \in Nat /\ \A i \in 1 .. n : m[i] \in Seq(S)
  OBVIOUS
<1>3. off[1] = 0 /\ \A i \in 1 .. n : off[i + 1] = off[i] + Room(m[i])
  BY DEF Offsets
<1> HIDE DEF n
<1>4. ASSUME NEW i \in 1 .. n PROVE g[i] = g[i - 1] + Fifo!Occupied(m[i])
  <2>1. i - 1 \in 0 .. n /\ i \in 0 .. n /\ i - 1 + 1 = i
    BY <1>2
  <2>2. g[i] = off[i + 1] /\ g[i - 1] = off[i]
    BY <2>1
  <2>3. Fifo!Occupied(m[i]) = Room(m[i])
    BY <1>2, OccupiedIs
  <2> QED BY <1>3, <2>2, <2>3
<1>5. g[0] = 0 /\ g[n] = off[n + 1]
  BY <1>2, <1>3
<1>6. g = F(g)
  <2>1. g = [i \in 0 .. n |-> g[i]]
    OBVIOUS
  <2> HIDE DEF g
  <2>2. \A i \in 0 .. n : g[i] = IF i = 0 THEN 0 ELSE g[i - 1] + Fifo!Occupied(m[i])
    <3>1. ASSUME NEW i \in 0 .. n
          PROVE  g[i] = IF i = 0 THEN 0 ELSE g[i - 1] + Fifo!Occupied(m[i])
      <4>1. i # 0 => i \in 1 .. n
        OBVIOUS
      <4> QED BY <1>4, <1>5, <4>1
    <3> QED BY <3>1
  <2> QED BY <2>1, <2>2
<1> HIDE DEF g
<1>7. sum = F(sum)
  <2> HIDE DEF F
  <2> QED BY <1>6, Zenon
<1> HIDE DEF sum
<1>8. \A i \in 0 .. n : sum[i] = g[i]
  <2> DEFINE Same == {i \in 0 .. n : sum[i] = g[i]}
  <2>1. 0 \in Same
    BY <1>2, <1>5, <1>7
  <2>2. \A i \in 1 .. n : i - 1 \in Same => i \in Same
    <3>1. ASSUME NEW i \in 1 .. n, sum[i - 1] = g[i - 1] PROVE sum[i] = g[i]
      <4>1. i \in 0 .. n /\ i # 0
        BY <1>2
      <4>2. sum[i] = sum[i - 1] + Fifo!Occupied(m[i])
        BY <1>7, <4>1
      <4> QED BY <1>4, <3>1, <4>2
    <3> QED BY <1>2, <3>1
  <2> HIDE DEF Same
  <2>3. \A i \in 0 .. n : i \in Same
    BY <1>2, <2>1, <2>2, UpTo
  <2> QED BY <2>3 DEF Same
<1>9. sum[n] = g[n]
  BY <1>2, <1>8
<1> QED BY <1>1, <1>5, <1>9 DEF n

(* The ring of RingBuffer holds a sequence of messages.                    *)
RingInv == mbf.bufsz = BUFSZ /\ \E m \in Seq(Messages) : RingIs(mbf, m)

(* The size of the ring is a multiple of the rounding size.                *)
LEMMA SizeAligned == BUFSZ \in Nat /\ BUFSZ > 0 /\ Aligned(BUFSZ)
  BY RingAssumption, RoundedSelf

(* At first the ring is empty.                                             *)
LEMMA RingBegins ==
  ASSUME RingInit
  PROVE  RingInv /\ Fifo!Init
<1>1. RingIs(mbf, << >>) /\ mbf.bufsz = BUFSZ
  BY SizeAligned, RingStarts DEF RingInit, mbf_initialize
<1>2. contents(mbf) = << >>
  <2>1. << >> \in Seq(Seq(RingByte))
    OBVIOUS
  <2> QED BY <1>1, <2>1, ContentsIs
<1>3. << >> \in Seq(Messages)
  OBVIOUS
<1> QED BY <1>1, <1>2, <1>3 DEF RingInv, Fifo!Init

(* The messages in the ring, the bytes they take and the room there is.    *)
LEMMA RingCounts ==
  ASSUME NEW m \in Seq(Messages), RingIs(mbf, m), mbf.bufsz = BUFSZ
  PROVE  /\ m \in Seq(Seq(RingByte)) /\ contents(mbf) = m
         /\ Fifo!Used \in 0 .. BUFSZ /\ Aligned(Fifo!Used)
         /\ RingFields(mbf) /\ mbf.frbufsz = BUFSZ - Fifo!Used
         /\ mbf.tail = place(mbf.head, BUFSZ, Fifo!Used)
<1>1. m \in Seq(Seq(RingByte))
  BY MessagesAre
<1>2. contents(mbf) = m
  BY <1>1, ContentsIs
<1>3. PICK off : Carries(mbf, m, off)
  BY DEF RingIs
<1>4. Fifo!Used = off[Len(m) + 1]
  BY <1>1, <1>2, <1>3, UsedIs DEF Carries
<1>5. Len(m) \in Nat
  OBVIOUS
<1>6. off[Len(m) + 1] \in Nat /\ Aligned(off[Len(m) + 1])
  BY <1>3, <1>5 DEF Carries, Offsets
<1>7. /\ RingFields(mbf) /\ off[Len(m) + 1] <= mbf.bufsz
      /\ mbf.frbufsz = mbf.bufsz - off[Len(m) + 1]
      /\ mbf.tail = place(mbf.head, mbf.bufsz, off[Len(m) + 1])
  BY <1>3 DEF Carries
<1> QED BY <1>1, <1>2, <1>4, <1>6, <1>7, SizeAligned

(* Each operation is one of a queue of messages.                           *)
LEMMA RingGoesOn ==
  ASSUME RingInv, RingNext
  PROVE  RingInv' /\ Fifo!Next
<1>0. PICK m \in Seq(Messages) : RingIs(mbf, m)
  BY DEF RingInv
<1>1. /\ m \in Seq(Seq(RingByte)) /\ contents(mbf) = m
      /\ Fifo!Used \in 0 .. BUFSZ /\ Aligned(Fifo!Used)
      /\ RingFields(mbf) /\ mbf.frbufsz = BUFSZ - Fifo!Used
      /\ mbf.tail = place(mbf.head, BUFSZ, Fifo!Used) /\ mbf.bufsz = BUFSZ
  BY <1>0, RingCounts DEF RingInv
<1>2. ASSUME Receive PROVE RingInv' /\ Fifo!Get
  <2>1. m # << >> /\ mbf' = mbf_to_msg(mbf)
    BY <1>0, <1>1, <1>2, RingEmpty DEF Receive
  <2>2. RingIs(mbf', Tail(m)) /\ Tail(m) \in Seq(Messages)
    BY <1>0, <1>1, <2>1, RingTakes
  <2>3. mbf'.bufsz = mbf.bufsz
    BY <1>1, <2>1 DEF mbf_to_msg, RingFields
  <2>4. contents(mbf') = Tail(m)
    <3>1. Tail(m) \in Seq(Seq(RingByte))
      BY <1>1, <2>1
    <3> QED BY <2>2, <3>1, ContentsIs
  <2> QED BY <1>1, <2>1, <2>2, <2>3, <2>4 DEF RingInv, Fifo!Get
<1>3. ASSUME NEW msg \in Messages, Send(msg) PROVE RingInv' /\ Fifo!Put(msg)
  <2>1. mbf_free(mbf, Len(msg)) /\ mbf' = msg_to_mbf(mbf, msg) /\ msg \in Seq(RingByte)
    BY <1>3, MessagesAre DEF Send
  <2>2. RingIs(mbf', Append(m, msg)) /\ Append(m, msg) \in Seq(Messages)
    BY <1>0, <1>1, <2>1, RingAppends
  <2>3. mbf'.bufsz = BUFSZ /\ Fifo!Used + Room(msg) <= BUFSZ
    <3> DEFINE u == Fifo!Used
    <3>1. u \in Nat /\ Aligned(u) /\ mbf.frbufsz = mbf.bufsz - u /\ mbf.tail = place(mbf.head, mbf.bufsz, u)
      BY <1>1
    <3> HIDE DEF u
    <3>2. IsWritten(mbf, mbf', msg, u)
      BY <1>1, <2>1, <3>1, WriteMessage
    <3> QED BY <1>1, <3>2 DEF IsWritten, u
  <2>4. contents(mbf') = Append(m, msg)
    <3>1. Append(m, msg) \in Seq(Seq(RingByte))
      BY <1>1, <2>1
    <3> QED BY <2>2, <3>1, ContentsIs
  <2>5. Fifo!Occupied(msg) = Room(msg)
    BY <2>1, OccupiedIs
  <2> QED BY <1>1, <2>2, <2>3, <2>4, <2>5 DEF RingInv, Fifo!Put
<1> QED BY <1>2, <1>3 DEF RingNext, Fifo!Next

(* Positions are on boundaries, and a message that fits is not refused.    *)
LEMMA RingSays ==
  ASSUME RingInv
  PROVE  RingAligned /\ NeverRefused
<1>0. PICK m \in Seq(Messages) : RingIs(mbf, m)
  BY DEF RingInv
<1> DEFINE u == Fifo!Used
           h == mbf.head
           t == mbf.tail
<1>1. /\ u \in 0 .. BUFSZ /\ Aligned(u) /\ RingFields(mbf) /\ mbf.frbufsz = BUFSZ - u
      /\ t = place(h, BUFSZ, u) /\ mbf.bufsz = BUFSZ
  BY <1>0, RingCounts DEF RingInv
<1>2. BUFSZ \in Nat /\ BUFSZ > 0
  BY SizeAligned
<1>3. Begins(h, BUFSZ)
  BY <1>1 DEF RingFields
<1> HIDE DEF u, h, t
<1>4. Begins(t, BUFSZ)
  BY <1>1, <1>2, <1>3, Places
<1>5. ASSUME NEW x, Begins(x, BUFSZ) PROVE x \in {i \in 0 .. BUFSZ - 1 : i % HEADERSZ = 0}
  <2>1. x \in 0 .. BUFSZ - 1
    BY <1>2, <1>5 DEF Begins
  <2>2. PICK k \in Int : x = HEADERSZ * k
    BY <1>5 DEF Begins, Aligned
  <2>3. HEADERSZ \in Nat /\ HEADERSZ > 0
    BY HeaderAssumption
  <2>4. (HEADERSZ * k) % HEADERSZ = 0
    BY <2>3
  <2> QED BY <2>1, <2>2, <2>4
<1>6. (t - h - (BUFSZ - mbf.frbufsz)) % BUFSZ = 0
  <2>1. t - h - (BUFSZ - mbf.frbufsz) \in {0, -BUFSZ}
    BY <1>1, <1>2, <1>3 DEF place, Begins
  <2>2. 0 % BUFSZ = 0 /\ (-BUFSZ) % BUFSZ = 0
    BY <1>2
  <2> QED BY <2>1, <2>2
<1>7. RingAligned
  <2>1. mbf.frbufsz \in 0 .. BUFSZ
    BY <1>1, <1>2
  <2> QED BY <1>3, <1>4, <1>5, <1>6, <2>1 DEF RingAligned, h, t
<1>8. NeverRefused
  <2> SUFFICES ASSUME NEW msg \in Messages, u + Fifo!Occupied(msg) <= BUFSZ
               PROVE  mbf_free(mbf, Len(msg))
    BY DEF NeverRefused, u
  <2>1. msg \in Seq(RingByte)
    BY MessagesAre
  <2>2. Fifo!Occupied(msg) = Room(msg)
    BY <2>1, OccupiedIs
  <2>3. Room(msg) \in Nat /\ HEADERSZ + Len(msg) <= Room(msg) /\ Len(msg) \in Nat
    BY <2>1, RoomIs
  <2> DEFINE L == Len(msg)
             O == Room(msg)
  <2>4. u + O <= BUFSZ /\ O \in Nat /\ HEADERSZ + L <= O /\ L \in Nat
    BY <2>2, <2>3
  <2> HIDE DEF L, O
  <2>5. HEADERSZ + L <= mbf.frbufsz
    BY <1>1, <1>2, <2>4, HeaderAssumption
  <2> QED BY <2>5 DEF mbf_free, L
<1> QED BY <1>7, <1>8

-----------------------------------------------------------------------------
(***************************************************************************)
(* 4. Message buffers.                                                     *)
(***************************************************************************)
MsgByte == Nat \X Nat

(* The messages that tasks send.                                           *)
LEMMA MessageIs ==
  ASSUME NEW sz \in MsgSizes
  PROVE  sz \in Nat /\ message(sz) \in Seq(MsgByte) /\ Len(message(sz)) = sz
<1>1. sz \in Nat
  BY MessageBufferAssumption
<1>2. \A i \in 1 .. sz : <<sz, i>> \in MsgByte
  BY <1>1 DEF MsgByte
<1>3. message(sz) \in [1 .. sz -> MsgByte]
  BY <1>2 DEF message
<1> HIDE DEF MsgByte
<1> QED BY <1>1, <1>3

(* The free bytes of a ring that holds messages, and after one more.       *)
LEMMA RingRoom ==
  ASSUME NEW r, NEW S, NEW m \in Seq(Seq(S)), RingIs(r, m)
  PROVE  /\ r.frbufsz \in Int /\ r.frbufsz \in 0 .. r.bufsz
         /\ \A msg \in Seq(S) : /\ msg_to_mbf(r, msg).frbufsz \in Int
                                /\ msg_to_mbf(r, msg).frbufsz <= r.frbufsz
<1>1. PICK off : Carries(r, m, off)
  BY DEF RingIs
<1> DEFINE u == off[Len(m) + 1]
<1>2. u \in Nat /\ u <= r.bufsz /\ r.frbufsz = r.bufsz - u /\ r.bufsz \in Nat /\ RingFields(r)
  <2>1. Len(m) + 1 \in 1 .. Len(m) + 1
    OBVIOUS
  <2> QED BY <1>1, <2>1 DEF Carries, Offsets, RingFields, Begins
<1> HIDE DEF u
<1>3. r.frbufsz \in Int /\ r.frbufsz \in 0 .. r.bufsz
  BY <1>2
<1>4. ASSUME NEW msg \in Seq(S)
      PROVE  msg_to_mbf(r, msg).frbufsz = r.frbufsz - Room(msg) /\ Room(msg) \in Nat
  <2>1. msg_to_mbf(r, msg).frbufsz = r.frbufsz - (HEADERSZ + ROUNDSZ(Len(msg)))
    BY <1>2 DEF msg_to_mbf, RingFields
  <2> QED BY <2>1, RoomIs DEF Room
<1> QED BY <1>3, <1>4

(* The walk of admit, and that of followed, step by step.                  *)
AdmitSteps(w, r, q, N) ==
  /\ w[0] = [ring |-> r, released |-> {}]
  /\ \A i \in 1 .. N : w[i] = admit_sender(w[i - 1], q[i])

LEMMA AdmitWalk ==
  ASSUME NEW r, NEW q, Len(q) \in Nat
  PROVE  \E w : admit(r, q) = w[Len(q)] /\ AdmitSteps(w, r, q, Len(q))
<1> DEFINE N == Len(q)
           F(w) == [i \in 0 .. N |-> IF i = 0 THEN [ring |-> r, released |-> {}]
                                     ELSE admit_sender(w[i - 1], q[i])]
           walk == CHOOSE w : w = F(w)
           Some == {n \in 0 .. N : \E w : AdmitSteps(w, r, q, n)}
<1>1. admit(r, q) = walk[N]
  BY DEF admit
<1> HIDE DEF N
<1>n. N \in Nat
  BY DEF N
<1>2. 0 \in Some
  <2>1. AdmitSteps([i \in {0} |-> [ring |-> r, released |-> {}]], r, q, 0)
    BY DEF AdmitSteps
  <2> QED BY <1>n, <2>1
<1>3. ASSUME NEW n \in 1 .. N, n - 1 \in Some PROVE n \in Some
  <2>1. PICK w : AdmitSteps(w, r, q, n - 1)
    BY <1>3
  <2> DEFINE ww == [i \in 0 .. n |-> IF i = n THEN admit_sender(w[n - 1], q[n]) ELSE w[i]]
  <2>2. ww[0] = w[0] /\ \A i \in 1 .. n : ww[i - 1] = w[i - 1]
    BY <1>n
  <2>3. ww[n] = admit_sender(ww[n - 1], q[n])
    BY <1>n, <2>2
  <2>4. ASSUME NEW i \in 1 .. n - 1 PROVE ww[i] = admit_sender(ww[i - 1], q[i])
    <3>1. ww[i] = w[i] /\ i \in 1 .. n
      BY <1>n
    <3>2. w[i] = admit_sender(w[i - 1], q[i])
      BY <2>1 DEF AdmitSteps
    <3> QED BY <2>2, <3>1, <3>2
  <2> HIDE DEF ww
  <2>5. AdmitSteps(ww, r, q, n)
    BY <1>n, <2>1, <2>2, <2>3, <2>4 DEF AdmitSteps
  <2> QED BY <2>5, <1>n
<1>4. \E w : AdmitSteps(w, r, q, N)
  <2> HIDE DEF Some
  <2>1. \A n \in 0 .. N : n \in Some
    BY <1>n, <1>2, <1>3, UpTo
  <2>2. N \in Some
    BY <1>n, <2>1
  <2> QED BY <2>2 DEF Some
<1>5. PICK w : AdmitSteps(w, r, q, N)
  BY <1>4
<1> DEFINE g == [i \in 0 .. N |-> w[i]]
<1>6. g = F(g)
  <2>1. \A i \in 0 .. N : i # 0 => i \in 1 .. N /\ i - 1 \in 0 .. N
    BY <1>n
  <2>2. \A i \in 0 .. N : w[i] = IF i = 0 THEN [ring |-> r, released |-> {}]
                                 ELSE admit_sender(g[i - 1], q[i])
    BY <1>5, <2>1 DEF AdmitSteps
  <2> QED BY <2>2
<1>7. walk = F(walk)
  <2> HIDE DEF F, g
  <2> QED BY <1>6, Zenon
<1> HIDE DEF walk
<1>8. AdmitSteps(walk, r, q, N)
  <2>1. 0 \in 0 .. N /\ \A i \in 1 .. N : i \in 0 .. N /\ i # 0
    BY <1>n
  <2> QED BY <1>7, <2>1 DEF AdmitSteps
<1> QED BY <1>1, <1>8 DEF N

FollowSteps(s, msgs, q, stay, N) ==
  /\ s[0] = msgs
  /\ \A i \in 1 .. N : s[i] = IF q[i] \in stay THEN s[i - 1]
                              ELSE Append(s[i - 1], message(smsgsz[q[i]]))

LEMMA FollowedWalk ==
  ASSUME NEW msgs, NEW q, NEW stay, Len(q) \in Nat
  PROVE  \E s : followed(msgs, q, stay) = s[Len(q)] /\ FollowSteps(s, msgs, q, stay, Len(q))
<1> DEFINE N == Len(q)
           F(s) == [i \in 0 .. N |-> IF i = 0 THEN msgs
                                     ELSE IF q[i] \in stay THEN s[i - 1]
                                     ELSE Append(s[i - 1], message(smsgsz[q[i]]))]
           sent == CHOOSE s : s = F(s)
           Some == {n \in 0 .. N : \E s : FollowSteps(s, msgs, q, stay, n)}
<1>1. followed(msgs, q, stay) = sent[N]
  BY DEF followed
<1> HIDE DEF N
<1>n. N \in Nat
  BY DEF N
<1>2. 0 \in Some
  <2>1. FollowSteps([i \in {0} |-> msgs], msgs, q, stay, 0)
    BY DEF FollowSteps
  <2> QED BY <1>n, <2>1
<1>3. ASSUME NEW n \in 1 .. N, n - 1 \in Some PROVE n \in Some
  <2>1. PICK s : FollowSteps(s, msgs, q, stay, n - 1)
    BY <1>3
  <2> DEFINE last == IF q[n] \in stay THEN s[n - 1] ELSE Append(s[n - 1], message(smsgsz[q[n]]))
             ss == [i \in 0 .. n |-> IF i = n THEN last ELSE s[i]]
  <2>2. ss[0] = s[0] /\ \A i \in 1 .. n : ss[i - 1] = s[i - 1]
    BY <1>n
  <2>3. ss[n] = last
    BY <1>n
  <2>4. ASSUME NEW i \in 1 .. n - 1 PROVE ss[i] = s[i] /\ i \in 1 .. n
    BY <1>n
  <2> HIDE DEF ss
  <2>5. FollowSteps(ss, msgs, q, stay, n)
    <3>1. \A i \in 1 .. n : i = n \/ i \in 1 .. n - 1
      BY <1>n
    <3> QED BY <1>n, <2>1, <2>2, <2>3, <2>4, <3>1 DEF FollowSteps
  <2> QED BY <2>5, <1>n
<1>4. \E s : FollowSteps(s, msgs, q, stay, N)
  <2> HIDE DEF Some
  <2>1. \A n \in 0 .. N : n \in Some
    BY <1>n, <1>2, <1>3, UpTo
  <2>2. N \in Some
    BY <1>n, <2>1
  <2> QED BY <2>2 DEF Some
<1>5. PICK s : FollowSteps(s, msgs, q, stay, N)
  BY <1>4
<1> DEFINE g == [i \in 0 .. N |-> s[i]]
<1>6. g = F(g)
  <2>1. \A i \in 0 .. N : i # 0 => i \in 1 .. N /\ i - 1 \in 0 .. N
    BY <1>n
  <2>2. \A i \in 0 .. N : s[i] = IF i = 0 THEN msgs
                                 ELSE IF q[i] \in stay THEN g[i - 1]
                                 ELSE Append(g[i - 1], message(smsgsz[q[i]]))
    BY <1>5, <2>1 DEF FollowSteps
  <2> QED BY <2>2
<1>7. sent = F(sent)
  <2> HIDE DEF F, g
  <2> QED BY <1>6, Zenon
<1> HIDE DEF sent
<1>8. FollowSteps(sent, msgs, q, stay, N)
  <2>1. 0 \in 0 .. N /\ \A i \in 1 .. N : i \in 0 .. N /\ i # 0
    BY <1>n
  <2> QED BY <1>7, <2>1 DEF FollowSteps
<1> QED BY <1>1, <1>8 DEF N

(* The walk along the senders puts the messages of those it releases into  *)
(* the ring, in the order of the queue; the message of none of the others  *)
(* would fit when it is done.                                              *)
LEMMA AdmitServes ==
  ASSUME NEW q \in Queue(Task), smsgsz \in [Task -> MsgSizes],
         NEW r, NEW m \in Seq(Seq(MsgByte)), RingIs(r, m),
         NEW stay, stay = ToSet(q) \ admit(r, q).released
  PROVE  /\ admit(r, q).released \subseteq ToSet(q)
         /\ followed(m, q, stay) \in Seq(Seq(MsgByte))
         /\ RingIs(admit(r, q).ring, followed(m, q, stay))
         /\ \A t \in stay : ~mbf_free(admit(r, q).ring, smsgsz[t])
<1> DEFINE N == Len(q)
           First(n) == {q[j] : j \in 1 .. n}
<1>q. /\ N \in Nat /\ ToSet(q) = First(N)
      /\ \A j, k \in 1 .. N : q[j] = q[k] => j = k
      /\ \A j \in 1 .. N : q[j] \in Task
  BY QueueEntries
<1>1. PICK w : admit(r, q) = w[N] /\ AdmitSteps(w, r, q, N)
  BY <1>q, AdmitWalk
<1>2. PICK s : followed(m, q, stay) = s[N] /\ FollowSteps(s, m, q, stay, N)
  BY <1>q, FollowedWalk
<1> HIDE DEF N
<1>3. w[0] = [ring |-> r, released |-> {}] /\ s[0] = m
  BY <1>1, <1>2 DEF AdmitSteps, FollowSteps
<1>4. ASSUME NEW n \in 1 .. N
      PROVE  /\ mbf_free(w[n - 1].ring, smsgsz[q[n]]) =>
                  /\ w[n].ring = msg_to_mbf(w[n - 1].ring, message(smsgsz[q[n]]))
                  /\ w[n].released = w[n - 1].released \cup {q[n]}
             /\ ~mbf_free(w[n - 1].ring, smsgsz[q[n]]) => w[n] = w[n - 1]
  <2>1. w[n] = admit_sender(w[n - 1], q[n])
    BY <1>1 DEF AdmitSteps
  <2> DEFINE v == w[n - 1]
  <2> HIDE DEF v
  <2>2. /\ mbf_free(v.ring, smsgsz[q[n]]) =>
             admit_sender(v, q[n]) = [ring     |-> msg_to_mbf(v.ring, message(smsgsz[q[n]])),
                                      released |-> v.released \cup {q[n]}]
        /\ ~mbf_free(v.ring, smsgsz[q[n]]) => admit_sender(v, q[n]) = v
    BY DEF admit_sender
  <2> QED BY <2>1, <2>2 DEF v
<1>5. ASSUME NEW n \in 1 .. N
      PROVE  s[n] = IF q[n] \in stay THEN s[n - 1] ELSE Append(s[n - 1], message(smsgsz[q[n]]))
  BY <1>2 DEF FollowSteps
<1>f. ASSUME NEW n \in 1 .. N PROVE First(n) = First(n - 1) \cup {q[n]} /\ q[n] \notin First(n - 1)
  <2>1. 1 .. n = 1 .. n - 1 \cup {n}
    BY <1>q
  <2>2. \A j \in 1 .. n - 1 : j \in 1 .. N /\ j # n
    BY <1>q
  <2> QED BY <1>q, <2>1, <2>2
<1>g. ASSUME NEW n \in 0 .. N, NEW k \in 0 .. n PROVE First(k) \subseteq First(n)
  BY <1>q
<1> DEFINE Known == {n \in 0 .. N : /\ w[n].released \subseteq First(n)
                                    /\ \A k \in 0 .. n : w[n].released \cap First(k) = w[k].released}
<1>6. \A n \in 0 .. N : n \in Known
  <2>1. 0 \in Known
    <3>1. w[0].released = {}
      BY <1>3
    <3>2. \A k \in 0 .. 0 : k = 0
      OBVIOUS
    <3> HIDE DEF First
    <3> QED BY <1>q, <3>1, <3>2
  <2>2. ASSUME NEW n \in 1 .. N, n - 1 \in Known PROVE n \in Known
    <3>1. /\ w[n - 1].released \subseteq First(n - 1)
          /\ \A k \in 0 .. n - 1 : w[n - 1].released \cap First(k) = w[k].released
      BY <2>2
    <3>2. w[n].released = w[n - 1].released \/ w[n].released = w[n - 1].released \cup {q[n]}
      BY <1>4
    <3>3. \A k \in 0 .. n - 1 : First(k) \subseteq First(n - 1)
      <4>1. n - 1 \in 0 .. N
        BY <1>q
      <4> HIDE DEF First
      <4> QED BY <1>g, <4>1
    <3>4. First(n) = First(n - 1) \cup {q[n]} /\ q[n] \notin First(n - 1)
      BY <1>f
    <3> HIDE DEF First
    <3>5. w[n].released \subseteq First(n)
      BY <3>1, <3>2, <3>4
    <3>6. ASSUME NEW k \in 0 .. n PROVE w[n].released \cap First(k) = w[k].released
      <4>1. CASE k = n
        BY <3>5, <4>1
      <4>2. CASE k \in 0 .. n - 1
        BY <3>1, <3>2, <3>3, <3>4, <4>2
      <4> QED BY <1>q, <4>1, <4>2
    <3> QED BY <1>q, <3>5, <3>6
  <2> HIDE DEF Known
  <2> QED BY <1>q, <2>1, <2>2, UpTo
<1>7. /\ w[N].released \subseteq First(N)
      /\ \A n \in 0 .. N : w[N].released \cap First(n) = w[n].released
  <2> HIDE DEF First
  <2>1. N \in Known
    <3> HIDE DEF Known
    <3> QED BY <1>q, <1>6
  <2> QED BY <2>1
<1>8. ASSUME NEW n \in 1 .. N
      PROVE  q[n] \notin stay <=> mbf_free(w[n - 1].ring, smsgsz[q[n]])
  <2>1. n \in 0 .. N /\ n - 1 \in 0 .. N
    BY <1>q
  <2>2. q[n] \in First(n) /\ q[n] \notin First(n - 1) /\ q[n] \in First(N)
    BY <1>q, <1>f
  <2>3. q[n] \notin stay <=> q[n] \in w[N].released
    BY <1>1, <1>q, <2>2
  <2> HIDE DEF First
  <2>4. q[n] \in w[N].released <=> q[n] \in w[n].released
    BY <1>7, <2>1, <2>2
  <2>5. q[n] \notin w[n - 1].released
    BY <1>7, <2>1, <2>2
  <2> QED BY <1>4, <2>3, <2>4, <2>5
<1> DEFINE Good == {n \in 0 .. N : /\ s[n] \in Seq(Seq(MsgByte)) /\ RingIs(w[n].ring, s[n])
                                   /\ \A j \in 1 .. n : q[j] \in stay =>
                                        ~mbf_free(w[n].ring, smsgsz[q[j]])}
<1>9. \A n \in 0 .. N : n \in Good
  <2>1. 0 \in Good
    BY <1>3, <1>q
  <2>2. ASSUME NEW n \in 1 .. N, n - 1 \in Good PROVE n \in Good
    <3> DEFINE r0 == w[n - 1].ring
               s0 == s[n - 1]
               sz == smsgsz[q[n]]
               msg == message(sz)
    <3>1. /\ s0 \in Seq(Seq(MsgByte)) /\ RingIs(r0, s0)
          /\ \A j \in 1 .. n - 1 : q[j] \in stay => ~mbf_free(r0, smsgsz[q[j]])
      BY <2>2
    <3>2. sz \in MsgSizes
      BY <1>q
    <3>3. sz \in Nat /\ msg \in Seq(MsgByte) /\ Len(msg) = sz
      BY <3>2, MessageIs
    <3>4. /\ mbf_free(r0, sz) => w[n].ring = msg_to_mbf(r0, msg) /\ s[n] = Append(s0, msg)
                                 /\ q[n] \notin stay
          /\ ~mbf_free(r0, sz) => w[n].ring = r0 /\ s[n] = s0
      BY <1>4, <1>5, <1>8
    <3>r. /\ r0.frbufsz \in Int /\ msg_to_mbf(r0, msg).frbufsz \in Int
          /\ msg_to_mbf(r0, msg).frbufsz <= r0.frbufsz
      BY <3>1, <3>3, RingRoom
    <3> HIDE DEF r0, s0, sz, msg
    <3>5. s[n] \in Seq(Seq(MsgByte)) /\ RingIs(w[n].ring, s[n])
      <4>1. CASE mbf_free(r0, sz)
        <5>1. RingIs(msg_to_mbf(r0, msg), Append(s0, msg))
          BY <3>1, <3>3, <4>1, RingAppends
        <5>2. Append(s0, msg) \in Seq(Seq(MsgByte))
          BY <3>1, <3>3
        <5> QED BY <3>4, <4>1, <5>1, <5>2
      <4>2. CASE ~mbf_free(r0, sz)
        BY <3>1, <3>4, <4>2
      <4> QED BY <4>1, <4>2
    <3>6. ASSUME NEW j \in 1 .. n, q[j] \in stay PROVE ~mbf_free(w[n].ring, smsgsz[q[j]])
      <4>1. CASE j = n
        <5>1. ~mbf_free(r0, sz) /\ w[n].ring = r0
          BY <3>4, <3>6, <4>1
        <5> QED BY <4>1, <5>1 DEF sz
      <4>2. CASE j \in 1 .. n - 1
        <5>1. ~mbf_free(r0, smsgsz[q[j]])
          BY <3>1, <3>6, <4>2
        <5>2. smsgsz[q[j]] \in Nat
          <6>1. j \in 1 .. N
            BY <1>q
          <6>2. smsgsz[q[j]] \in MsgSizes
            BY <1>q, <6>1
          <6> QED BY <6>2, MessageBufferAssumption
        <5>3. w[n].ring = msg_to_mbf(r0, msg) \/ w[n].ring = r0
          BY <3>4
        <5> DEFINE z == smsgsz[q[j]]
                   f == w[n].ring.frbufsz
        <5>4. ~(HEADERSZ + z <= r0.frbufsz) /\ z \in Nat
          BY <5>1, <5>2 DEF mbf_free
        <5>5. f \in Int /\ f <= r0.frbufsz
          BY <3>r, <5>3
        <5> HIDE DEF z, f
        <5>6. ~(HEADERSZ + z <= f)
          BY <3>r, <5>4, <5>5, HeaderAssumption
        <5> QED BY <5>6 DEF mbf_free, z, f
      <4> QED BY <1>q, <4>1, <4>2
    <3> QED BY <1>q, <3>5, <3>6
  <2> HIDE DEF Good
  <2> QED BY <1>q, <2>1, <2>2, UpTo
<1>10. /\ s[N] \in Seq(Seq(MsgByte)) /\ RingIs(w[N].ring, s[N])
       /\ \A j \in 1 .. N : q[j] \in stay => ~mbf_free(w[N].ring, smsgsz[q[j]])
  <2>1. N \in Good
    <3> HIDE DEF Good
    <3> QED BY <1>q, <1>9
  <2> QED BY <2>1
<1>11. ASSUME NEW t \in stay PROVE \E j \in 1 .. N : q[j] = t
  BY <1>q
<1> QED BY <1>1, <1>2, <1>7, <1>10, <1>11, <1>q

-----------------------------------------------------------------------------
(* The rings of all buffers hold messages, and nobody waits for what is    *)
(* there.                                                                  *)
BufferTypes ==
  /\ mbfs \in SUBSET Mbf
  /\ ring = [b \in Mbf |-> ring[b]]
  /\ maxmsz \in [Mbf -> MaxSizes]
  /\ smsgsz \in [Task -> MsgSizes]

HoldsMessages(r) == \E m \in Seq(Seq(MsgByte)) : RingIs(r, m)

Receivers(b) == ToSet(wait_queue[b])

Senders(b) == ToSet(wait_queue[send_queue[b]])

BuffersPass ==
  \A b \in Mbf :
    /\ Receivers(b) # {} => b \in mbfs /\ mbf_empty(ring[b]) /\ Senders(b) = {}
    /\ \A t \in Senders(b) : b \in mbfs /\ ~mbf_free(ring[b], smsgsz[t])

BufferInv == BufferTypes /\ (\A b \in Mbf : HoldsMessages(ring[b])) /\ BuffersPass

(* What MessagesInOrder says of a step.                                    *)
MessagesStep ==
  \A b \in mbfs \cap mbfs' :
    LET old   == contents(ring[b])
        new   == contents(ring'[b])
        queue == wait_queue[send_queue[b]]
    IN  new # old =>
          \/ \E sz \in MsgSizes : new = Append(old, message(sz))
          \/ old # << >>
             /\ new = followed(Tail(old), queue, ToSet(wait_queue'[send_queue[b]]))

(* What a call leaves for the other calls and properties.                  *)
BufferKept == IInv' /\ BufferInv' /\ MessagesStep /\ ReleasesInOrder /\ NobodyComes(Mpl)

(* The two wait queues of a buffer are its own.                            *)
LEMMA Buffers ==
  ASSUME NEW b \in Mbf
  PROVE  /\ b \in Gcb /\ send_queue[b] \in Gcb /\ send_queue[b] \notin Mbf \cup TaTpri
         /\ b \notin Mpl /\ send_queue[b] \notin Mpl /\ b # send_queue[b]
         /\ \A c \in Mbf : c # b => send_queue[c] # send_queue[b]
<1>1. DOMAIN send_queue = Mbf
  BY MessageBufferAssumption
<1>2. \A c \in Mbf : c # b => send_queue[c] # send_queue[b]
  BY <1>1, MessageBufferAssumption DEF IsInjective
<1> QED BY <1>2, MessageBufferAssumption, ExchangesAssumption

(* The queues of pools are some of all queues.                             *)
LEMMA NobodyComesPool ==
  ASSUME NobodyComes(Gcb)
  PROVE  NobodyComes(Mpl) /\ NobodyComes(Gcb \ Mpl)
BY MemoryPoolAssumption DEF NobodyComes

(* Nobody begins to wait at a buffer, and what is waited for is as before. *)
LEMMA PassKept ==
  ASSUME BufferInv, NobodyComes(Gcb \ Mpl), UNCHANGED smsgsz,
         \A b \in mbfs : (Receivers(b) \cup Senders(b))' # {} =>
             b \in mbfs' /\ ring'[b] = ring[b]
  PROVE  BuffersPass'
<1>1. ASSUME NEW b \in Mbf
      PROVE  Receivers(b)' \subseteq Receivers(b) /\ Senders(b)' \subseteq Senders(b)
  BY Buffers DEF NobodyComes, Receivers, Senders
<1>2. ASSUME NEW b \in Mbf, Receivers(b)' # {}
      PROVE  b \in mbfs' /\ mbf_empty(ring'[b]) /\ Senders(b)' = {}
  <2>1. b \in mbfs /\ mbf_empty(ring[b]) /\ Senders(b) = {}
    BY <1>1, <1>2 DEF BufferInv, BuffersPass
  <2> QED BY <1>1, <1>2, <2>1
<1>3. ASSUME NEW b \in Mbf, NEW t \in Senders(b)'
      PROVE  b \in mbfs' /\ ~mbf_free(ring'[b], smsgsz'[t])
  <2>1. b \in mbfs /\ ~mbf_free(ring[b], smsgsz[t])
    BY <1>1 DEF BufferInv, BuffersPass
  <2> QED BY <2>1
<1> QED BY <1>2, <1>3 DEF BuffersPass

(* The steps of task management, also those that a buffer makes, when they *)
(* leave the buffers alone.                                                *)
LEMMA NextQuiet ==
  ASSUME IInv, [Next]_vars
  PROVE  IInv' /\ NobodyComes(Gcb) /\ ReleasesInOrder
<1>1. IInv'
  BY StepInv
<1>2. NobodyComes(Gcb)
  BY NextThins DEF NobodyComes
<1>3. OneChanges
  BY NextStateSteps DEF StateSteps, OneChanges
<1> QED BY <1>1, <1>2, <1>3, OneInOrder

(* What task management and the pools do.                                  *)
LEMMA BufferOthers ==
  ASSUME IInv, BufferInv, IInv', NobodyComes(Gcb \ Mpl), UNCHANGED mbfvars
  PROVE  BufferInv' /\ MessagesStep
<1>1. BuffersPass'
  <2>1. UNCHANGED <<smsgsz, mbfs, ring>>
    BY DEF mbfvars
  <2> QED BY <2>1, PassKept
<1>2. BufferTypes' /\ \A b \in Mbf : HoldsMessages(ring'[b])
  BY DEF BufferInv, BufferTypes, mbfvars
<1>3. MessagesStep
  BY DEF MessagesStep, mbfvars
<1> QED BY <1>1, <1>2, <1>3 DEF BufferInv

(* The ring of one buffer becomes r.                                       *)
LEMMA OneRingChanges ==
  ASSUME BufferInv, NEW b \in Mbf, NEW r, HoldsMessages(r),
         ring' = [ring EXCEPT ![b] = r],
         UNCHANGED <<maxmsz, smsgsz>>, mbfs' \in SUBSET Mbf
  PROVE  /\ BufferTypes' /\ \A c \in Mbf : HoldsMessages(ring'[c])
         /\ ring'[b] = r /\ \A c \in Mbf \ {b} : ring'[c] = ring[c]
<1>1. /\ ring' = [c \in Mbf |-> ring'[c]] /\ ring'[b] = r
      /\ \A c \in Mbf \ {b} : ring'[c] = ring[c]
  BY DEF BufferInv, BufferTypes
<1>2. BufferTypes'
  BY <1>1 DEF BufferInv, BufferTypes
<1>3. ASSUME NEW c \in Mbf PROVE HoldsMessages(ring'[c])
  <2>1. HoldsMessages(ring[c])
    BY DEF BufferInv
  <2> QED BY <1>1, <2>1
<1> QED BY <1>1, <1>2, <1>3

(* cre_mbf makes an empty ring.                                            *)
LEMMA CreMbfKeeps ==
  ASSUME IInv, BufferInv, NEW b \in Mbf, NEW bufsz \in BufSizes, NEW max \in MaxSizes,
         cre_mbf(b, bufsz, max)
  PROVE  BufferKept
<1> DEFINE r == mbf_initialize(bufsz)
<1>1. /\ b \notin mbfs /\ mbfs' = mbfs \cup {b} /\ ring' = [ring EXCEPT ![b] = r]
      /\ maxmsz' = [maxmsz EXCEPT ![b] = max] /\ smsgsz' = smsgsz /\ UNCHANGED vars
  BY DEF cre_mbf
<1>2. IInv' /\ ReleasesInOrder /\ NobodyComes(Gcb)
  BY <1>1, TasksAlone
<1>3. HoldsMessages(r)
  <2>1. bufsz \in Nat /\ Aligned(bufsz)
    BY MessageBufferAssumption, RoundedSelf
  <2>2. << >> \in Seq(Seq(MsgByte))
    OBVIOUS
  <2> QED BY <2>1, <2>2, RingStarts DEF HoldsMessages
<1> HIDE DEF r
<1>4. /\ ring' = [c \in Mbf |-> ring'[c]] /\ ring'[b] = r
      /\ \A c \in Mbf \ {b} : ring'[c] = ring[c]
  BY <1>1 DEF BufferInv, BufferTypes
<1>5. BufferTypes'
  BY <1>1, <1>4 DEF BufferInv, BufferTypes
<1>6. ASSUME NEW c \in Mbf PROVE HoldsMessages(ring'[c])
  <2>1. HoldsMessages(ring[c])
    BY DEF BufferInv
  <2> QED BY <1>3, <1>4, <2>1
<1>7. BuffersPass'
  <2>1. \A c \in mbfs : c \in mbfs' /\ ring'[c] = ring[c]
    BY <1>1, <1>4 DEF BufferInv, BufferTypes
  <2> QED BY <1>1, <1>2, <2>1, PassKept, NobodyComesPool
<1>8. MessagesStep
  <2>1. \A c \in mbfs : ring'[c] = ring[c]
    BY <1>1, <1>4 DEF BufferInv, BufferTypes
  <2> QED BY <2>1 DEF MessagesStep
<1> QED BY <1>2, <1>5, <1>6, <1>7, <1>8, NobodyComesPool DEF BufferKept, BufferInv

(* del_mbf releases all who wait, receivers and senders.                   *)
LEMMA DelMbfKeeps ==
  ASSUME IInv, BufferInv, NEW b \in Mbf, del_mbf(b)
  PROVE  BufferKept
<1> DEFINE q == wait_queue[b]
           r == wait_queue[send_queue[b]]
           W == ToSet(q) \cup ToSet(r)
           both == q \o r
<1>0. /\ wait_release_all(both) /\ mbfs' = mbfs \ {b} /\ UNCHANGED <<ring, maxmsz, smsgsz>>
      /\ UNCHANGED <<countvars, privars, cpuvars>>
  BY DEF del_mbf
<1>1. b \in Gcb /\ send_queue[b] \in Gcb /\ b # send_queue[b] /\ b \notin Mpl /\ send_queue[b] \notin Mpl
  BY Buffers
<1>2. /\ q \in Queue(Task) /\ \A t \in Task : t \in ToSet(q) <=> wspec[t] = b
      /\ r \in Queue(Task) /\ \A t \in Task : t \in ToSet(r) <=> wspec[t] = send_queue[b]
      /\ \A t \in W : t \in Task /\ waiting(t) /\ wspec[t] \in Gcb
  BY <1>1, WaitersWait
<1>3. ToSet(q) \subseteq Task /\ ToSet(r) \subseteq Task
  BY <1>2, QueueEntries
<1>4. ToSet(q) \cap ToSet(r) = {}
  BY <1>1, <1>2, <1>3
<1>w. \A t \in W : wspec[t] \in {b, send_queue[b]}
  BY <1>2, <1>3
<1>e. W = Receivers(b) \cup Senders(b)
  BY DEF Receivers, Senders
<1>6. wait_release_those(both, ToSet(both))
  BY <1>0 DEF wait_release_all
<1> HIDE DEF q, r
<1>7. both \in Queue(Task) /\ ToSet(both) = W
  BY <1>2, <1>4, QueueConcat
<1> HIDE DEF both, W
<1>8. /\ IInv' /\ \A g \in Gcb : ToSet(wait_queue'[g]) = ToSet(wait_queue[g]) \ W
      /\ state' = [t \in Task |-> IF t \notin W THEN state[t]
                                  ELSE IF state[t] = "WAIT" THEN "READY" ELSE "SUSPEND"]
  BY <1>0, <1>2, <1>6, <1>7, WaitReleaseThose DEF wait_release_those
<1>9. NobodyComes(Gcb)
  BY <1>8 DEF NobodyComes
<1>10. ReleasesInOrder
  <2> SUFFICES ASSUME NEW p \in Mpl, NEW t \in ToSet(wait_queue[p]), state'[t] = "READY"
               PROVE  FALSE
    BY DEF ReleasesInOrder
  <2>1. p \in Gcb
    BY MemoryPoolAssumption
  <2>2. t \in Task /\ waiting(t) /\ wspec[t] = p
    BY <2>1, WaitersWait
  <2>3. t \notin W
    BY <1>1, <1>w, <2>2
  <2> QED BY <1>8, <2>2, <2>3 DEF waiting, TS_WAIT
<1>11. BuffersPass'
  <2>1. (Receivers(b) \cup Senders(b))' = {}
    BY <1>1, <1>8, <1>e DEF Receivers, Senders
  <2>2. \A c \in mbfs : (Receivers(c) \cup Senders(c))' # {} => c \in mbfs' /\ ring'[c] = ring[c]
    BY <1>0, <2>1
  <2> QED BY <1>0, <1>9, <2>2, PassKept, NobodyComesPool
<1>12. BufferTypes' /\ \A c \in Mbf : HoldsMessages(ring'[c])
  BY <1>0 DEF BufferInv, BufferTypes
<1>13. MessagesStep
  BY <1>0 DEF MessagesStep
<1> QED BY <1>8, <1>9, <1>10, <1>11, <1>12, <1>13, NobodyComesPool DEF BufferKept, BufferInv

(* A message of a buffer that changes alone is appended, or the change is  *)
(* that of followed.                                                       *)
LEMMA OneRingStep ==
  ASSUME NEW b \in Mbf, \A c \in Mbf \ {b} : ring'[c] = ring[c], mbfs \in SUBSET Mbf,
         \/ \E sz \in MsgSizes : contents(ring'[b]) = Append(contents(ring[b]), message(sz))
         \/ contents(ring[b]) # << >>
            /\ contents(ring'[b]) = followed(Tail(contents(ring[b])), wait_queue[send_queue[b]],
                                             ToSet(wait_queue'[send_queue[b]]))
  PROVE  MessagesStep
<1>1. ASSUME NEW c \in mbfs, c # b PROVE contents(ring'[c]) = contents(ring[c])
  BY <1>1
<1> QED BY <1>1 DEF MessagesStep

(* A message goes to the first receiver, or into the ring.                 *)
LEMMA PsndMbfKeeps ==
  ASSUME IInv, BufferInv, NEW b \in Mbf, NEW sz \in MsgSizes, psnd_mbf(b, sz)
  PROVE  BufferKept
<1>0. /\ caller /\ b \in mbfs /\ UNCHANGED <<mbfs, maxmsz, smsgsz>> /\ UNCHANGEDcalls
      /\ b \in Gcb
  BY Buffers DEF psnd_mbf, UNCHANGEDcalls
<1>1. CASE wait_queue[b] # << >>
  <2>1. wait_release(Head(wait_queue[b])) /\ UNCHANGED ring
    BY <1>1 DEF psnd_mbf, snd_at_once
  <2>2. Next
    BY <1>0, <1>1, <2>1, FirstReleased
  <2>3. IInv' /\ NobodyComes(Gcb) /\ ReleasesInOrder
    BY <2>2, NextQuiet
  <2>4. UNCHANGED mbfvars
    BY <1>0, <2>1 DEF mbfvars
  <2> QED BY <2>3, <2>4, BufferOthers, NobodyComesPool DEF BufferKept
<1>2. CASE ~(wait_queue[b] # << >>)
  <2> DEFINE msg == message(sz)
             r == msg_to_mbf(ring[b], msg)
  <2>1. /\ mbf_free(ring[b], sz) /\ ring' = [ring EXCEPT ![b] = r]
        /\ UNCHANGED <<state, schedvars, waitvars>>
    BY <1>2 DEF psnd_mbf, snd_at_once
  <2>2. IInv' /\ ReleasesInOrder /\ NobodyComes(Gcb) /\ UNCHANGED wait_queue
    <3>1. UNCHANGED vars
      BY <1>0, <2>1 DEF vars, taskvars, schedvars, waitvars, countvars, UNCHANGEDcalls, privars, cpuvars
    <3> QED BY <3>1, TasksAlone DEF vars, taskvars, waitvars
  <2>3. sz \in Nat /\ msg \in Seq(MsgByte) /\ Len(msg) = sz
    BY MessageIs
  <2>4. PICK m \in Seq(Seq(MsgByte)) : RingIs(ring[b], m)
    BY DEF BufferInv, HoldsMessages
  <2>5. /\ RingIs(r, Append(m, msg)) /\ Append(m, msg) \in Seq(Seq(MsgByte))
        /\ ring[b].frbufsz \in Int /\ r.frbufsz \in Int /\ r.frbufsz <= ring[b].frbufsz
    <3> HIDE DEF msg
    <3> QED BY <2>1, <2>3, <2>4, RingAppends, RingRoom
  <2>6. contents(ring[b]) = m /\ contents(r) = Append(m, msg)
    <3> HIDE DEF r, msg
    <3> QED BY <2>4, <2>5, ContentsIs
  <2> HIDE DEF r
  <2>7. /\ BufferTypes' /\ \A c \in Mbf : HoldsMessages(ring'[c])
        /\ ring'[b] = r /\ \A c \in Mbf \ {b} : ring'[c] = ring[c]
    <3>1. HoldsMessages(r)
      BY <2>5 DEF HoldsMessages
    <3>2. mbfs' \in SUBSET Mbf
      BY <1>0 DEF BufferInv, BufferTypes
    <3> QED BY <1>0, <2>1, <3>1, <3>2, OneRingChanges
  <2>8. BuffersPass'
    <3>1. Receivers(b) = {} /\ \A c \in Mbf : Receivers(c)' = Receivers(c) /\ Senders(c)' = Senders(c)
      BY <1>0, <1>2, <2>2, FirstWaits DEF Receivers, Senders
    <3>2. ASSUME NEW t \in Senders(b) PROVE ~mbf_free(r, smsgsz[t])
      <4>1. ~mbf_free(ring[b], smsgsz[t])
        BY DEF BufferInv, BuffersPass
      <4>2. smsgsz[t] \in Nat
        <5>1. t \in Task
          BY Buffers, WaitersWait DEF Senders
        <5>2. smsgsz[t] \in MsgSizes
          BY <5>1 DEF BufferInv, BufferTypes
        <5> QED BY <5>2, MessageBufferAssumption
      <4> DEFINE z == smsgsz[t]
                 f == ring[b].frbufsz
                 ff == r.frbufsz
      <4>3. ~(HEADERSZ + z <= f) /\ z \in Nat /\ f \in Int /\ ff \in Int /\ ff <= f
        BY <2>5, <4>1, <4>2 DEF mbf_free
      <4> HIDE DEF z, f, ff
      <4>4. ~(HEADERSZ + z <= ff)
        BY <4>3, HeaderAssumption
      <4> QED BY <4>4 DEF mbf_free, z, ff
    <3> QED BY <1>0, <2>7, <3>1, <3>2 DEF BufferInv, BuffersPass
  <2>9. MessagesStep
    <3>1. contents(ring'[b]) = Append(contents(ring[b]), message(sz))
      BY <2>6, <2>7
    <3> QED BY <2>7, <3>1, OneRingStep DEF BufferInv, BufferTypes
  <2> QED BY <2>2, <2>7, <2>8, <2>9, NobodyComesPool DEF BufferKept, BufferInv
<1> QED BY <1>1, <1>2

(* A task begins to wait at a buffer, of which it finds that it has to.    *)
LEMMA BufferWait ==
  ASSUME IInv, BufferInv, in_task, ~in_ddsp, NEW b \in mbfs,
         NEW g \in {b, send_queue[b]},
         NEW timed, gcb_make_wait(g, timed), UNCHANGEDcalls, UNCHANGED <<mbfs, ring, maxmsz>>,
         smsgsz' \in [Task -> MsgSizes], \A t \in Task \ {ctxtsk} : smsgsz'[t] = smsgsz[t],
         g = b => mbf_empty(ring[b]) /\ Senders(b) = {},
         g # b => Receivers(b) = {} /\ ~mbf_free(ring[b], smsgsz'[ctxtsk])
  PROVE  BufferKept
<1>0. b \in Mbf /\ mbfs \in SUBSET Mbf
  BY DEF BufferInv, BufferTypes
<1>1. /\ g \in Gcb /\ b \in Gcb /\ send_queue[b] \in Gcb /\ b # send_queue[b] /\ g \notin Mpl
      /\ send_queue[b] \notin Mbf
  BY <1>0, Buffers
<1>2. /\ IInv' /\ \A h \in Gcb \ {g} : wait_queue'[h] = wait_queue[h]
      /\ ToSet(wait_queue'[g]) = ToSet(wait_queue[g]) \cup {ctxtsk}
  BY <1>1, GcbMakeWait DEF UNCHANGEDcalls
<1>3. /\ OneChanges /\ ctxtsk \in Task
      /\ \A h \in Gcb : ctxtsk \notin ToSet(wait_queue[h])
  BY WaitChangesOne
<1>4. NobodyComes(Mpl)
  BY <1>1, <1>2, MemoryPoolAssumption DEF NobodyComes
<1>5. ASSUME NEW c \in Mbf
      PROVE  /\ Receivers(c)' = IF c = g THEN Receivers(c) \cup {ctxtsk} ELSE Receivers(c)
             /\ Senders(c)' = IF c = b /\ g # b THEN Senders(c) \cup {ctxtsk} ELSE Senders(c)
             /\ ctxtsk \notin Senders(c) /\ \A t \in Senders(c) : t \in Task
  <2>1. /\ c \in Gcb /\ send_queue[c] \in Gcb /\ send_queue[c] \notin Mbf
        /\ (c # b => send_queue[c] # send_queue[b])
    BY <1>0, Buffers
  <2>2. c = g \/ wait_queue'[c] = wait_queue[c]
    BY <1>2, <2>1
  <2>3. send_queue[c] = g <=> c = b /\ g # b
    BY <1>0, <1>1, <2>1
  <2>4. send_queue[c] = g \/ wait_queue'[send_queue[c]] = wait_queue[send_queue[c]]
    BY <1>2, <2>1
  <2> QED BY <1>2, <1>3, <2>1, <2>2, <2>3, <2>4, WaitersWait DEF Receivers, Senders
<1>6. ASSUME NEW c \in Mbf, Receivers(c)' # {}
      PROVE  c \in mbfs' /\ mbf_empty(ring'[c]) /\ Senders(c)' = {}
  <2>1. CASE c = g
    <3>1. c = b /\ g = b
      BY <1>1, <2>1
    <3> QED BY <1>5, <3>1
  <2>2. CASE c # g
    <3>1. Receivers(c) # {} /\ c \in mbfs /\ mbf_empty(ring[c]) /\ Senders(c) = {}
      BY <1>5, <1>6, <2>2 DEF BufferInv, BuffersPass
    <3>2. ~(c = b /\ g # b)
      BY <3>1
    <3> QED BY <1>5, <3>1, <3>2
  <2> QED BY <2>1, <2>2
<1>7. ASSUME NEW c \in Mbf, NEW t \in Senders(c)'
      PROVE  c \in mbfs' /\ ~mbf_free(ring'[c], smsgsz'[t])
  <2>1. CASE t \in Senders(c)
    <3>1. c \in mbfs /\ ~mbf_free(ring[c], smsgsz[t]) /\ t \in Task \ {ctxtsk}
      BY <1>5, <2>1 DEF BufferInv, BuffersPass
    <3> QED BY <3>1
  <2>2. CASE t \notin Senders(c)
    BY <1>5, <2>2
  <2> QED BY <2>1, <2>2
<1>8. BufferTypes' /\ \A c \in Mbf : HoldsMessages(ring'[c])
  BY DEF BufferInv, BufferTypes
<1>9. BuffersPass' /\ MessagesStep
  BY <1>6, <1>7 DEF BuffersPass, MessagesStep
<1> QED BY <1>2, <1>3, <1>4, <1>8, <1>9, OneInOrder DEF BufferKept, BufferInv

(* A sender waits when there is no room.                                   *)
LEMMA TsndMbfKeeps ==
  ASSUME IInv, BufferInv, NEW b \in Mbf, NEW sz \in MsgSizes, NEW timed,
         tsnd_mbf(b, sz, timed)
  PROVE  BufferKept
<1>1. /\ in_task /\ ~in_ddsp /\ b \in mbfs /\ wait_queue[b] = << >> /\ ~mbf_free(ring[b], sz)
      /\ gcb_make_wait(send_queue[b], timed) /\ smsgsz' = [smsgsz EXCEPT ![ctxtsk] = sz]
      /\ UNCHANGED <<mbfs, ring, maxmsz>> /\ UNCHANGEDcalls
  BY DEF tsnd_mbf, UNCHANGEDcalls
<1>2. ctxtsk \in Task
  BY <1>1, CallerTask
<1>3. /\ smsgsz' \in [Task -> MsgSizes] /\ smsgsz'[ctxtsk] = sz
      /\ \A t \in Task \ {ctxtsk} : smsgsz'[t] = smsgsz[t]
  BY <1>1, <1>2 DEF BufferInv, BufferTypes
<1>4. send_queue[b] # b /\ Receivers(b) = {}
  BY <1>1, Buffers, FirstWaits DEF Receivers
<1> QED BY <1>1, <1>3, <1>4, BufferWait

(* A receiver takes the first message, and the senders go on; or it takes  *)
(* the message of the first sender; or it waits.                           *)
LEMMA TrcvMbfKeeps ==
  ASSUME IInv, BufferInv, NEW b \in Mbf, NEW timed, trcv_mbf(b, timed)
  PROVE  BufferKept
<1> DEFINE q == wait_queue[send_queue[b]]
<1>0. /\ in_task /\ ~in_ddsp /\ caller /\ b \in mbfs /\ UNCHANGED <<mbfs, maxmsz, smsgsz>>
      /\ UNCHANGEDcalls /\ b \in Gcb /\ send_queue[b] \in Gcb /\ b # send_queue[b]
      /\ smsgsz \in [Task -> MsgSizes] /\ mbfs \in SUBSET Mbf
  <2>1. in_task => caller
    BY DEF caller
  <2> QED BY <2>1, Buffers DEF trcv_mbf, UNCHANGEDcalls, BufferInv, BufferTypes
<1>1. CASE ~mbf_empty(ring[b])
  <2> DEFINE taken == mbf_to_msg(ring[b])
             W == admit(taken, q).released
             r == admit(taken, q).ring
             stay == ToSet(q) \ W
  <2>1. ring' = [ring EXCEPT ![b] = r] /\ wait_release_those(q, W)
    BY <1>1 DEF trcv_mbf
  <2>2. PICK m \in Seq(Seq(MsgByte)) : RingIs(ring[b], m)
    BY DEF BufferInv, HoldsMessages
  <2>3. m # << >> /\ contents(ring[b]) = m
    BY <1>1, <2>2, RingEmpty, ContentsIs
  <2>4. RingIs(taken, Tail(m)) /\ Tail(m) \in Seq(Seq(MsgByte))
    BY <2>2, <2>3, RingTakes
  <2>5. q \in Queue(Task) /\ \A t \in ToSet(q) : waiting(t) /\ wspec[t] \in Gcb /\ t \in Task
    BY <1>0, WaitersWait
  <2> HIDE DEF q, taken
  <2>6. /\ W \subseteq ToSet(q)
        /\ followed(Tail(m), q, stay) \in Seq(Seq(MsgByte))
        /\ RingIs(r, followed(Tail(m), q, stay))
        /\ \A t \in stay : ~mbf_free(r, smsgsz[t])
    BY <1>0, <2>4, <2>5, AdmitServes
  <2>7. contents(r) = followed(Tail(m), q, stay)
    <3> HIDE DEF r, stay
    <3> QED BY <2>6, ContentsIs
  <2>f. \A t \in W : waiting(t) /\ wspec[t] \in Gcb
    BY <2>5, <2>6
  <2> HIDE DEF W, r
  <2>8. /\ IInv' /\ \A g \in Gcb : ToSet(wait_queue'[g]) = ToSet(wait_queue[g]) \ W
    BY <1>0, <2>1, <2>5, <2>6, <2>f, WaitReleaseThose DEF UNCHANGEDcalls
  <2>9. NobodyComes(Gcb)
    BY <2>8 DEF NobodyComes
  <2>10. ReleasesInOrder
    BY <1>0, <2>1, <2>6, ReleaseInOrder DEF q
  <2>11. /\ BufferTypes' /\ \A c \in Mbf : HoldsMessages(ring'[c])
         /\ ring'[b] = r /\ \A c \in Mbf \ {b} : ring'[c] = ring[c]
    <3>1. HoldsMessages(r)
      BY <2>6 DEF HoldsMessages
    <3>2. mbfs' \in SUBSET Mbf
      BY <1>0
    <3> QED BY <1>0, <2>1, <3>1, <3>2, OneRingChanges
  <2>12. Senders(b)' = stay /\ Receivers(b) = {}
    <3>1. Senders(b)' = stay
      BY <1>0, <2>8 DEF Senders, q
    <3>2. Receivers(b) = {}
      BY <1>1 DEF BufferInv, BuffersPass
    <3> QED BY <3>1, <3>2
  <2>13. BuffersPass'
    <3>1. ASSUME NEW c \in Mbf
          PROVE  Receivers(c)' \subseteq Receivers(c) /\ Senders(c)' \subseteq Senders(c)
      BY <2>9, Buffers DEF NobodyComes, Receivers, Senders
    <3>2. ASSUME NEW c \in Mbf, Receivers(c)' # {}
          PROVE  c \in mbfs' /\ mbf_empty(ring'[c]) /\ Senders(c)' = {}
      <4>1. c # b
        BY <2>12, <3>1, <3>2
      <4>2. c \in mbfs /\ mbf_empty(ring[c]) /\ Senders(c) = {}
        BY <3>1, <3>2 DEF BufferInv, BuffersPass
      <4> QED BY <1>0, <2>11, <3>1, <4>1, <4>2
    <3>3. ASSUME NEW c \in Mbf, NEW t \in Senders(c)'
          PROVE  c \in mbfs' /\ ~mbf_free(ring'[c], smsgsz'[t])
      <4>1. CASE c = b
        BY <1>0, <2>6, <2>11, <2>12, <4>1
      <4>2. CASE c # b
        <5>1. c \in mbfs /\ ~mbf_free(ring[c], smsgsz[t])
          BY <3>1 DEF BufferInv, BuffersPass
        <5> QED BY <1>0, <2>11, <4>2, <5>1
      <4> QED BY <4>1, <4>2
    <3> QED BY <3>2, <3>3 DEF BuffersPass
  <2>14. MessagesStep
    <3>1. /\ contents(ring[b]) # << >>
          /\ contents(ring'[b]) = followed(Tail(contents(ring[b])), wait_queue[send_queue[b]],
                                           ToSet(wait_queue'[send_queue[b]]))
      BY <2>3, <2>7, <2>11, <2>12 DEF Senders, q
    <3> QED BY <1>0, <2>11, <3>1, OneRingStep
  <2> QED BY <2>8, <2>9, <2>10, <2>11, <2>13, <2>14, NobodyComesPool DEF BufferKept, BufferInv
<1>2. CASE mbf_empty(ring[b]) /\ q # << >>
  <2>1. wait_release(Head(q)) /\ UNCHANGED ring
    BY <1>2 DEF trcv_mbf
  <2>2. Next
    BY <1>0, <1>2, <2>1, FirstReleased
  <2>3. IInv' /\ NobodyComes(Gcb) /\ ReleasesInOrder
    BY <2>2, NextQuiet
  <2>4. UNCHANGED mbfvars
    BY <1>0, <2>1 DEF mbfvars
  <2> QED BY <2>3, <2>4, BufferOthers, NobodyComesPool DEF BufferKept
<1>3. CASE mbf_empty(ring[b]) /\ q = << >>
  <2>1. gcb_make_wait(b, timed) /\ UNCHANGED ring
    BY <1>3 DEF trcv_mbf
  <2>2. Senders(b) = {}
    BY <1>0, <1>3, FirstWaits DEF Senders
  <2> QED BY <1>0, <1>3, <2>1, <2>2, BufferWait
<1> QED BY <1>1, <1>2, <1>3

(* Each call on a buffer keeps all this.                                   *)
LEMMA MbfCallKeeps ==
  ASSUME IInv, BufferInv, MbfCall
  PROVE  BufferKept
BY CreMbfKeeps, DelMbfKeeps, PsndMbfKeeps, TsndMbfKeeps, TrcvMbfKeeps DEF MbfCall

(* What the runs check follows.                                            *)
LEMMA BuffersSay ==
  ASSUME IInv, BufferInv
  PROVE  MbfTypeOK /\ MessagesPassOn
<1>1. MbfTypeOK
  <2>1. ASSUME NEW b \in Mbf PROVE ring[b].frbufsz \in 0 .. ring[b].bufsz
    <3>1. PICK m \in Seq(Seq(MsgByte)) : RingIs(ring[b], m)
      BY DEF BufferInv, HoldsMessages
    <3> QED BY <3>1, RingRoom
  <2> QED BY <2>1 DEF MbfTypeOK, BufferInv, BufferTypes, IInv
<1>2. ASSUME NEW b \in Mbf, wait_tskid(b) # NoTask
      PROVE  b \in mbfs /\ ref_mbf(b).msgsz = 0 /\ ref_mbf(b).stsk = NoTask
  <2>1. Receivers(b) # {}
    BY <1>2, Buffers, FirstWaits DEF Receivers
  <2>2. b \in mbfs /\ mbf_empty(ring[b]) /\ Senders(b) = {}
    BY <2>1 DEF BufferInv, BuffersPass
  <2>3. wait_tskid(send_queue[b]) = NoTask
    BY <2>2, Buffers, FirstWaits DEF Senders
  <2> QED BY <2>2, <2>3 DEF ref_mbf
<1>3. ASSUME NEW b \in Mbf, NEW t \in ToSet(wait_queue[send_queue[b]])
      PROVE  b \in mbfs /\ ~mbf_free(ring[b], smsgsz[t])
  BY DEF BufferInv, BuffersPass, Senders
<1> QED BY <1>1, <1>2, <1>3 DEF MessagesPassOn

-----------------------------------------------------------------------------
(***************************************************************************)
(* 5. Programs that use buffers, pools and the ring.                       *)
(***************************************************************************)
(* A program whose tasks and handlers make any call of task management on  *)
(* any task, and any call on any buffer and pool, and beside it a ring of  *)
(* which nobody waits: the instances take some of these steps.             *)
ProgramNext ==
  /\ \/ MbfCall /\ UNCHANGED <<mplvars, mbf>>
     \/ MplCall /\ UNCHANGED <<mbfvars, mbf>>
     \/ Next /\ UNCHANGED <<mbfvars, mplvars, mbf>>
     \/ RingNext /\ UNCHANGED <<vars, mbfvars, mplvars>>
  /\ UNCHANGED part

ProgramSpec == ExchangesInit /\ [][ProgramNext]_allvars

ExchangeInv == IInv /\ BufferInv /\ PoolInv /\ RingInv

(* What is known of every step.                                            *)
ExchangeStepOK == MessagesStep /\ ReleasesInOrder /\ (Fifo!Next \/ UNCHANGED mbf)

(* At first there is no buffer, no pool, and nobody waits.                 *)
LEMMA ExchangesStart ==
  ASSUME ExchangesInit
  PROVE  ExchangeInv /\ Fifo!Init
<1>1. IInv
  BY InitInv DEF ExchangesInit
<1>2. \A g \in Gcb : ToSet(wait_queue[g]) = {}
  BY DEF ExchangesInit, Init, ToSet
<1>3. BufferInv
  <2>1. HoldsMessages(mbf_initialize(0))
    <3>1. RingIs(mbf_initialize(0), << >>)
      BY RingStarts, AlignedUnits
    <3>2. << >> \in Seq(Seq(MsgByte))
      OBVIOUS
    <3> QED BY <3>1, <3>2 DEF HoldsMessages
  <2>2. \A b \in Mbf : HoldsMessages(ring[b])
    BY <2>1 DEF ExchangesInit, messagebuffer_initialize
  <2>3. BufferTypes
    BY MessageBufferAssumption DEF ExchangesInit, messagebuffer_initialize, BufferTypes
  <2>4. BuffersPass
    BY <1>2, Buffers DEF BuffersPass, Receivers, Senders
  <2> QED BY <2>2, <2>3, <2>4 DEF BufferInv
<1>4. PoolInv
  <2>1. PoolTypes
    BY MemoryPoolAssumption DEF ExchangesInit, memorypool_initialize, PoolTypes, MINSIZE
  <2>2. mpls = {}
    BY DEF ExchangesInit, memorypool_initialize
  <2>3. NoBlockForAWaiter
    BY <1>2, MemoryPoolAssumption DEF NoBlockForAWaiter
  <2> QED BY <2>1, <2>2, <2>3 DEF PoolInv
<1> QED BY <1>1, <1>3, <1>4, RingBegins DEF ExchangesInit, ExchangeInv

(* Every step, also of the other component, keeps what is known of each.   *)
LEMMA ExchangeStep ==
  ASSUME ExchangeInv, [ProgramNext]_allvars
  PROVE  ExchangeInv' /\ ExchangeStepOK
<1>0. IInv /\ BufferInv /\ PoolInv /\ RingInv
  BY DEF ExchangeInv
<1>r. UNCHANGED mbf => RingInv'
  BY <1>0 DEF RingInv
<1>1. CASE MbfCall /\ UNCHANGED <<mplvars, mbf>>
  <2>1. IInv' /\ BufferInv' /\ MessagesStep /\ ReleasesInOrder /\ NobodyComes(Mpl)
    BY <1>0, <1>1, MbfCallKeeps DEF BufferKept
  <2>2. PoolInv'
    BY <1>0, <1>1, <2>1, PoolOthers
  <2> QED BY <1>1, <1>r, <2>1, <2>2 DEF ExchangeInv, ExchangeStepOK
<1>2. CASE MplCall /\ UNCHANGED <<mbfvars, mbf>>
  <2>1. IInv' /\ PoolInv' /\ ReleasesInOrder /\ NobodyComes(Gcb \ Mpl)
    BY <1>0, <1>2, MplCallKeeps DEF PoolKept
  <2>2. BufferInv' /\ MessagesStep
    BY <1>0, <1>2, <2>1, BufferOthers
  <2> QED BY <1>2, <1>r, <2>1, <2>2 DEF ExchangeInv, ExchangeStepOK
<1>3. ASSUME [Next]_vars, UNCHANGED <<mbfvars, mplvars>>
      PROVE  /\ IInv' /\ BufferInv' /\ PoolInv'
             /\ MessagesStep /\ ReleasesInOrder
  <2>1. /\ IInv' /\ ReleasesInOrder
        /\ NobodyComes(Mpl) /\ NobodyComes(Gcb \ Mpl)
    BY <1>0, <1>3, NextQuiet, NobodyComesPool
  <2>2. BufferInv' /\ MessagesStep
    BY <1>0, <1>3, <2>1, BufferOthers
  <2>3. PoolInv'
    BY <1>0, <1>3, <2>1, PoolOthers
  <2> QED BY <2>1, <2>2, <2>3
<1>4. CASE RingNext /\ UNCHANGED <<vars, mbfvars, mplvars>>
  BY <1>0, <1>3, <1>4, RingGoesOn DEF ExchangeInv, ExchangeStepOK
<1>5. CASE [Next]_vars /\ UNCHANGED <<mbfvars, mplvars, mbf>>
  BY <1>3, <1>5, <1>r DEF ExchangeInv, ExchangeStepOK
<1> QED BY <1>1, <1>2, <1>4, <1>5 DEF ProgramNext, allvars

(* The steps of the instances are some of them.                            *)
LEMMA ExchangeSteps ==
  ASSUME ExchangesNext
  PROVE  ProgramNext
<1>1. ASSUME OnePriStep PROVE Next
  BY <1>1, CallIsStep, TaskManagementAssumption DEF OnePriStep, CallOn
<1>2. ASSUME AloneStep \/ TwoTasksStep \/ OnePriStep PROVE Next
  BY <1>1, <1>2, InstanceSteps DEF TwoTasksStep
<1>3. CASE MessageBufferStep
  BY <1>2, <1>3 DEF MessageBufferStep, ProgramNext
<1>4. CASE MemoryPoolStep
  BY <1>2, <1>4 DEF MemoryPoolStep, ProgramNext
<1>5. CASE RingStep
  BY <1>5 DEF RingStep, ProgramNext
<1> QED BY <1>3, <1>4, <1>5 DEF ExchangesNext

-----------------------------------------------------------------------------
(* The invariant of these programs.                                        *)
THEOREM ExchangesInvariance == ProgramSpec => []ExchangeInv
<1>1. ExchangesInit => ExchangeInv
  BY ExchangesStart
<1>2. ExchangeInv /\ [ProgramNext]_allvars => ExchangeInv'
  BY ExchangeStep
<1> QED BY <1>1, <1>2, PTL DEF ProgramSpec

(* What the runs check of the instances is checked of such programs.       *)
THEOREM ExchangesArePrograms == ExchangesSpec => ProgramSpec
<1>1. [ExchangesNext]_allvars => [ProgramNext]_allvars
  BY ExchangeSteps
<1> QED BY <1>1, PTL DEF ExchangesSpec, ProgramSpec

(* No task waits for a message that is in the buffer, for room that its    *)
(* message fits into, or for a block that the pool has.                    *)
THEOREM NoWaitIsInVain == ProgramSpec => []NobodyWaitsInVain
<1>1. ExchangeInv => NobodyWaitsInVain
  BY BuffersSay DEF ExchangeInv, PoolInv, NobodyWaitsInVain
<1> QED BY <1>1, ExchangesInvariance, PTL

(* The areas of a pool are a chain over all of it, the free ones are in    *)
(* its queue, and each block is in an area of its own.                     *)
THEOREM BlocksAreSound == ProgramSpec => []BlocksSound
<1>1. ExchangeInv => BlocksSound
  BY BuffersSay, PoolsSay DEF ExchangeInv, BlocksSound, IInv
<1> QED BY <1>1, ExchangesInvariance, PTL

(* A message goes in behind the others, and when one is taken the senders  *)
(* that it lets in go in behind, in the order of their queue; tasks that   *)
(* get blocks together are made ready in the order of theirs.              *)
THEOREM AllAreServedInTurn == ProgramSpec => ServedInTurn
<1>1. ExchangeInv /\ [ProgramNext]_allvars => MessagesStep /\ ReleasesInOrder
  BY ExchangeStep DEF ExchangeStepOK
<1>2. ProgramSpec => [][MessagesStep]_<<vars, mbfvars>>
  BY <1>1, ExchangesInvariance, PTL DEF ProgramSpec
<1>3. ProgramSpec => [][ReleasesInOrder]_<<vars, mplvars>>
  BY <1>1, ExchangesInvariance, PTL DEF ProgramSpec
<1> QED BY <1>2, <1>3 DEF ServedInTurn, MessagesInOrder, MessagesStep,
                          ReleasedInOrder, ReleasesInOrder

(* The ring, as it wraps and splits headers from messages and messages in  *)
(* two, is a queue of messages, and refuses none that fits.                *)
THEOREM RingIsFifo == ProgramSpec => RingServesFifo
<1>1. ExchangesInit => Fifo!Init
  BY ExchangesStart
<1>2. ExchangeInv /\ [ProgramNext]_allvars => [part = "ring" => Fifo!Next]_mbf
  BY ExchangeStep DEF ExchangeStepOK
<1>3. ExchangeInv => (part = "ring" => RingAligned /\ NeverRefused)
  BY RingSays DEF ExchangeInv
<1> QED BY <1>1, <1>2, <1>3, ExchangesInvariance, PTL DEF ProgramSpec, RingServesFifo
=============================================================================
