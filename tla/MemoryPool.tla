------------------------------ MODULE MemoryPool ------------------------------
(***************************************************************************)
(* Variable-length memory pools (kernel/mempool.c) on top of the task      *)
(* management calls.  MemoryAreas is the memory of a pool; lent, which the *)
(* kernel does not keep, is what the program has: the blocks that a call   *)
(* returned or stored at p_blk and that were not given back.  A pool keeps *)
(* the attribute TA_TFIFO or TA_TPRI whenever it is created.               *)
(***************************************************************************)
EXTENDS TaskManagement, MemoryAreas

CONSTANTS
  Mpl,          (* the pools                                               *)
  PoolSizes,    (* the sizes that pools are created with                   *)
  BlockSizes    (* the sizes of blocks, rounded to units of ROUNDSIZE      *)

ASSUME MemoryPoolAssumption ==
  /\ Mpl \subseteq Gcb
  /\ PoolSizes \cup BlockSizes \subseteq Nat \ {0}
  /\ BlockSizes # {}

VARIABLES
  mpls,     (* the pools whose mplatr is not OBJ_NONEXIST                  *)
  mplsz,    (* the size of each, rounded                                   *)
  areas,    (* its areas                                                   *)
  lent,     (* the blocks of it that the program has                       *)
  blksz     (* the size of the block that each waiting task waits for      *)

mplvars == <<mpls, mplsz, areas, lent, blksz>>

(* Rounded up to a multiple of MINSIZE.                                    *)
MINSZ(sz) == ((sz + MINSIZE - 1) \div MINSIZE) * MINSIZE

memorypool_initialize ==
  /\ mpls = {}
  /\ mplsz = [p \in Mpl |-> MINSIZE]
  /\ areas = [p \in Mpl |-> init_mpl(MINSIZE)]
  /\ lent = [p \in Mpl |-> {}]
  /\ blksz \in [Task -> {CHOOSE sz \in BlockSizes : TRUE}]

block(top, size) == [top |-> top, size |-> size]

-----------------------------------------------------------------------------
(* It fails, and changes nothing, when there is no memory for the pool.    *)
cre_mpl(p, size) ==
  /\ caller
  /\ p \notin mpls
  /\ mpls' = mpls \cup {p}
  /\ mplsz' = [mplsz EXCEPT ![p] = MINSZ(size)]
  /\ areas' = [areas EXCEPT ![p] = init_mpl(MINSZ(size))]
  /\ lent' = [lent EXCEPT ![p] = {}]
  /\ UNCHANGED <<blksz, vars>>

(* Also while blocks are lent.                                             *)
del_mpl(p) ==
  /\ caller
  /\ p \in mpls
  /\ wait_delete(p)
  /\ mpls' = mpls \ {p}
  /\ UNCHANGED <<mplsz, areas, lent, blksz, countvars, privars, cpuvars>>

(* pget_blk, and tget_blk without wait, from any context, ahead of any     *)
(* task that waits for a longer block.                                     *)
pget_blk(p, size) ==
  /\ caller
  /\ p \in mpls
  /\ fitting(areas[p], size) # {}
  /\ areas' = [areas EXCEPT ![p] = get_areas(@, size)]
  /\ lent' = [lent EXCEPT ![p] = @ \cup {block(get_block(areas[p], size), size)}]
  /\ UNCHANGED <<mpls, mplsz, blksz, vars>>

(* The wait of tget_blk; get_blk has no time-out.                          *)
tget_blk(p, size, timed) ==
  /\ in_task
  /\ ~in_ddsp
  /\ p \in mpls
  /\ fitting(areas[p], size) = {}
  /\ gcb_make_wait(p, timed)
  /\ blksz' = [blksz EXCEPT ![ctxtsk] = size]
  /\ UNCHANGED <<mpls, mplsz, areas, lent, countvars, privars, cpuvars>>

-----------------------------------------------------------------------------
(* Mutated: the limit is lowered after each waiter, served or not.         *)
serve_lowers_limit(walk, t) ==
  IF blksz[t] > walk.maxsz
  THEN walk
  ELSE IF fitting(walk.areas, blksz[t]) # {}
  THEN [areas    |-> get_areas(walk.areas, blksz[t]),
        granted  |-> walk.granted \cup {block(get_block(walk.areas, blksz[t]), blksz[t])},
        released |-> walk.released \cup {t},
        maxsz    |-> blksz[t]]
  ELSE [walk EXCEPT !.maxsz = blksz[t]]

(* Mutated: a block is handed on without its size being taken off.         *)
serve_same_block(walk, t) ==
  IF blksz[t] > walk.maxsz
  THEN walk
  ELSE IF fitting(walk.areas, blksz[t]) # {}
  THEN [walk EXCEPT !.granted = @ \cup {block(get_block(walk.areas, blksz[t]), blksz[t])},
                    !.released = @ \cup {t}]
  ELSE [walk EXCEPT !.maxsz = blksz[t]]

(* One step of the walk of wakeup_mpl along the waiters: t gets its block  *)
(* if there is one; maxsz is the least size that was not found.            *)
serve(walk, t) ==
  IF blksz[t] > walk.maxsz
  THEN walk
  ELSE IF fitting(walk.areas, blksz[t]) # {}
  THEN [walk EXCEPT !.areas = get_areas(@, blksz[t]),
                    !.granted = @ \cup {block(get_block(walk.areas, blksz[t]), blksz[t])},
                    !.released = @ \cup {t}]
  ELSE [walk EXCEPT !.maxsz = blksz[t]]

wakeup_mpl(p, freed) ==
  LET walk[i \in 0 .. Len(wait_queue[p])] ==
        IF i = 0
        THEN [areas |-> freed, granted |-> {}, released |-> {}, maxsz |-> mplsz[p]]
        ELSE serve(walk[i - 1], wait_queue[p][i])
  IN  walk[Len(wait_queue[p])]

rel_blk(p, blk) ==
  /\ caller
  /\ p \in mpls
  /\ blk \in lent[p]
  /\ LET served == wakeup_mpl(p, rel_areas(areas[p], blk.top)) IN
     /\ areas' = [areas EXCEPT ![p] = served.areas]
     /\ lent' = [lent EXCEPT ![p] = (@ \ {blk}) \cup served.granted]
     /\ wait_release_those(wait_queue[p], served.released)
  /\ UNCHANGED <<mpls, mplsz, blksz, countvars, privars, cpuvars>>

-----------------------------------------------------------------------------
MplCall ==
  \E p \in Mpl :
    \/ \E size \in PoolSizes : cre_mpl(p, size)
    \/ del_mpl(p)
    \/ \E size \in BlockSizes :
         pget_blk(p, size) \/ \E timed \in BOOLEAN : tget_blk(p, size, timed)
    \/ \E blk \in lent[p] : rel_blk(p, blk)

MplInit == Init /\ memorypool_initialize

MplNext == MplCall \/ (Next /\ UNCHANGED mplvars)

MplSpec == MplInit /\ [][MplNext]_<<vars, mplvars>>
-----------------------------------------------------------------------------
(* Every variable has its type.                                            *)
MplTypeOK ==
  /\ TypeOK
  /\ mpls \in SUBSET Mpl
  /\ \A p \in mpls :
       /\ mplsz[p] \in {MINSZ(size) : size \in PoolSizes}
       /\ DOMAIN areas[p].next \subseteq 0 .. mplsz[p] - 1
       /\ \A blk \in lent[p] : blk.top \in 1 .. mplsz[p] - 1 /\ blk.size \in BlockSizes
  /\ blksz \in [Task -> BlockSizes]

(* The memory of each pool is in order, whatever is taken from it and      *)
(* given back: no area is lost or cut in two, all free memory is found, in *)
(* pieces as large as they can be, and no block lies in another one.       *)
PoolsInOrder ==
  \A p \in mpls :
    /\ AreasChained(areas[p], mplsz[p])
    /\ FreeQueueExact(areas[p])
    /\ BlocksDisjoint(areas[p], lent[p], mplsz[p])
    /\ RefMplTrue(areas[p], mplsz[p])
    /\ WholeAgain(areas[p], lent[p], mplsz[p])

(* Each task that was given a block has memory of its own: the marked      *)
(* areas are those of the blocks that the program has, one for each, also  *)
(* when one call of rel_blk serves several tasks.                          *)
EveryBlockHasItsArea ==
  \A p \in mpls :
    /\ {AREATOP(blk.top) : blk \in lent[p]} = areas[p].used \ {mplsz[p]}
    /\ \A blk \in lent[p] : blk.size <= BLOCKSIZE(areas[p], AREATOP(blk.top))
    /\ \A blk1, blk2 \in lent[p] : blk1.top = blk2.top => blk1 = blk2

(* No task waits for a block that the pool could give: rel_blk serves      *)
(* every waiter that can be served, whatever waits in front of it, and the *)
(* end of a wait frees nothing that another one waits for.                 *)
NoBlockForAWaiter ==
  \A p \in Mpl : \A t \in ToSet(wait_queue[p]) :
    p \in mpls /\ fitting(areas[p], blksz[t]) = {}

(* Tasks that one call releases together keep the order of the wait queue  *)
(* in the ready queue of their priority (the promise of the user's manual  *)
(* on rel_blk).                                                            *)
ReleasedInOrder ==
  [][\A p \in Mpl : \A t, u \in ToSet(wait_queue[p]) :
       /\ before(wait_queue[p], t, u)
       /\ state'[t] = "READY" /\ state'[u] = "READY"
       /\ priority'[t] = priority'[u]
       => before(ready_queue'.tskque[priority'[t]], t, u)]_<<vars, mplvars>>
=============================================================================
