------------------------------ MODULE MemoryAreas ------------------------------
(***************************************************************************)
(* The memory of a variable-length memory pool (kernel/mempool.c): areas,  *)
(* linked in the order of their addresses, each with a header in front of  *)
(* a block.  Addresses and sizes are counted in units of ROUNDSIZE (the    *)
(* size of one header), from the start of the pool on.                     *)
(*                                                                         *)
(* areas.next and areas.prev are the links in the headers, areas.used is   *)
(* the set of marked areas (the low bit of prev), areas.free the queue of  *)
(* the others.  The last header, behind the pool, is always marked.  The   *)
(* operations are functions from such a record to a record.                *)
(***************************************************************************)
EXTENDS Queues

ROUNDSIZE == 1
MINSIZE   == 2
NULLAREA  == -1

init_mpl(mplsz) ==
  [next |-> [a \in {0} |-> mplsz],
   prev |-> [a \in {0, mplsz} |-> IF a = 0 THEN NULLAREA ELSE 0],
   used |-> {mplsz},
   free |-> <<0>>]

FIRST_AREA(areas, a) == areas.prev[a] = NULLAREA
USED_AREA(areas, a)  == a \in areas.used
BLOCKTOP(a)          == a + ROUNDSIZE
AREATOP(block)       == block - ROUNDSIZE
BLOCKSIZE(areas, a)  == areas.next[a] - BLOCKTOP(a)

-----------------------------------------------------------------------------
(* The places in the free queue of the areas that are long enough.         *)
fitting(areas, blksz) == {i \in DOMAIN areas.free : BLOCKSIZE(areas, areas.free[i]) >= blksz}

first_fit(areas, blksz) == areas.free[Min(fitting(areas, blksz))]

(* What is left of a is large enough to be an area of its own.             *)
split_p(areas, a, blksz) == BLOCKSIZE(areas, a) - blksz >= MINSIZE

(* The header of the area that is given away: the end of a, or a.          *)
new_area(areas, a, blksz) ==
  IF split_p(areas, a, blksz) THEN a + (BLOCKSIZE(areas, a) - blksz) ELSE a

(* new becomes an area of its own, in use; a stays in the free queue.      *)
split(areas, a, new) ==
  [areas EXCEPT
    !.next = [x \in DOMAIN @ \cup {new} |->
                IF x = a THEN new ELSE IF x = new THEN areas.next[a] ELSE @[x]],
    !.prev = [x \in DOMAIN @ \cup {new} |->
                IF x = new THEN a ELSE IF x = areas.next[a] THEN new ELSE @[x]],
    !.used = @ \cup {new}]

(* The whole of a is given away.                                           *)
take(areas, a) == [areas EXCEPT !.free = queue_delete(@, a), !.used = @ \cup {a}]

(* _get_blk, when fitting is not empty: the areas afterwards.              *)
get_areas(areas, blksz) ==
  LET a == first_fit(areas, blksz) IN
  IF split_p(areas, a, blksz) THEN split(areas, a, new_area(areas, a, blksz))
                              ELSE take(areas, a)

(* The block that _get_blk returns.                                        *)
get_block(areas, blksz) == BLOCKTOP(new_area(areas, first_fit(areas, blksz), blksz))

-----------------------------------------------------------------------------
(* a and the area behind it become one.                                    *)
merge(areas, a) ==
  LET b == areas.next[a] IN
  [areas EXCEPT
    !.next = [x \in DOMAIN @ \ {b} |-> IF x = a THEN areas.next[b] ELSE @[x]],
    !.prev = [x \in DOMAIN @ \ {b} |-> IF x = areas.next[b] THEN a ELSE @[x]]]

release(areas, a) == [areas EXCEPT !.used = @ \ {a}]

(* _rel_blk: merged with the free areas in front of it and behind it.  An  *)
(* area merged with the one in front leaves that one where it is in the    *)
(* free queue; otherwise the area becomes the head of the queue.           *)
rel_areas(areas, blk) ==
  LET a        == AREATOP(blk)
      released == release(areas, a)
      prevarea == areas.prev[a]
      nextarea == areas.next[a]
  IN  IF FIRST_AREA(areas, a) \/ USED_AREA(areas, prevarea)
      THEN IF USED_AREA(areas, nextarea)
           THEN [released EXCEPT !.free = <<a>> \o @]
           ELSE [merge(released, a) EXCEPT !.free = <<a>> \o queue_delete(@, nextarea)]
      ELSE IF USED_AREA(areas, nextarea)
           THEN merge(released, prevarea)
           ELSE [merge(merge(released, a), prevarea) EXCEPT
                  !.free = queue_delete(@, nextarea)]

-----------------------------------------------------------------------------
(* ref_mpl: the sizes of the free blocks that its scan meets.              *)
free_sizes(areas) ==
  {BLOCKSIZE(areas, a) : a \in {x \in DOMAIN areas.next : ~USED_AREA(areas, x)}}

ref_maxsz(areas) == Max(free_sizes(areas) \cup {0})

-----------------------------------------------------------------------------
(* The bytes of a block.                                                   *)
block_bytes(blk) == blk.top .. blk.top + blk.size - 1

(* The links hold together: the areas lie one behind the other from the    *)
(* start of the pool to its end, each with room for its links, and prev    *)
(* leads back; no area was lost or cut in two by a split or a merger.      *)
AreasChained(areas, mplsz) ==
  LET tops == DOMAIN areas.next IN
  /\ 0 \in tops /\ FIRST_AREA(areas, 0)
  /\ DOMAIN areas.prev = tops \cup {mplsz}
  /\ \A a \in tops :
       /\ areas.next[a] \in tops \cup {mplsz}
       /\ areas.next[a] >= a + MINSIZE
       /\ areas.prev[areas.next[a]] = a
       /\ \A b \in tops : b <= a \/ b >= areas.next[a]

(* The free queue holds exactly the areas that are not marked, each once,  *)
(* and no two of them lie next to each other: all free memory is found,    *)
(* and in pieces that are as large as they can be.                         *)
FreeQueueExact(areas) ==
  LET tops == DOMAIN areas.next IN
  /\ IsInjective(areas.free)
  /\ ToSet(areas.free) = tops \ areas.used
  /\ \A a \in tops \ areas.used : areas.next[a] \in areas.used

(* The blocks that the program has do not overlap, lie in the pool, and    *)
(* each is that of a marked area that is long enough for it; no part of    *)
(* one is used for the header of an area.                                  *)
BlocksDisjoint(areas, lent, mplsz) ==
  LET tops == DOMAIN areas.next IN
  /\ \A blk \in lent :
       /\ AREATOP(blk.top) \in tops \cap areas.used
       /\ blk.size <= BLOCKSIZE(areas, AREATOP(blk.top))
       /\ block_bytes(blk) \cap (tops \cup {mplsz}) = {}
       /\ block_bytes(blk) \subseteq 0 .. mplsz - 1
  /\ \A blk1, blk2 \in lent :
       blk1 # blk2 => block_bytes(blk1) \cap block_bytes(blk2) = {}

(* What ref_mpl finds by scanning the areas is what a call can get from    *)
(* the free queue: a block of maxsz, and nothing longer.                   *)
RefMplTrue(areas, mplsz) ==
  \A blksz \in 1 .. mplsz : fitting(areas, blksz) # {} <=> blksz <= ref_maxsz(areas)

(* Whatever the program did before, giving back all it has makes the pool  *)
(* whole again: fragments do not stay.                                     *)
WholeAgain(areas, lent, mplsz) == lent = {} => areas = init_mpl(mplsz)
=============================================================================
