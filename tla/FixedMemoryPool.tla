---------------------------- MODULE FixedMemoryPool ----------------------------
(***************************************************************************)
(* Fixed-length memory pools (kernel/mempfix.c) on top of the task         *)
(* management calls.  A block is its distance from the start of the pool.  *)
(* The free list runs through the blocks that were given back; blocks that *)
(* were never lent lie behind the address unused.                          *)
(*                                                                         *)
(* lent, which the kernel does not keep, is what the program has: a block  *)
(* that a call returned or stored at p_blf and that was not given back.    *)
(* The program gives back what it has, from any context.  A pool keeps the *)
(* attribute TA_TFIFO or TA_TPRI whenever it is created.                   *)
(***************************************************************************)
EXTENDS TaskManagement

CONSTANTS
  Mpf,          (* the pools                                               *)
  MINSIZE,      (* the bytes of a link of the free list                    *)
  BlockSizes,   (* the sizes of blocks that pools are created with         *)
  BlockCounts   (* the numbers of blocks                                   *)

ASSUME FixedMemoryPoolAssumption ==
  /\ Mpf \subseteq Gcb
  /\ MINSIZE \in Nat \ {0}
  /\ BlockSizes \cup BlockCounts \subseteq Nat \ {0}
  /\ \E n \in BlockCounts : \A m \in BlockCounts : m <= n

VARIABLES
  mpfs,      (* the pools whose mpfatr is not OBJ_NONEXIST                 *)
  mpfcnt,    (* the number of blocks of each                               *)
  blfsz,     (* their size, rounded                                        *)
  mpfsz,     (* the size of the pool                                       *)
  frbcnt,    (* the number of its free blocks                              *)
  unused,    (* the first block that was never lent                        *)
  freelist,  (* the blocks that were given back                            *)
  lent       (* the blocks that the program has                            *)

mpfvars == <<mpfs, mpfcnt, blfsz, mpfsz, frbcnt, unused, freelist, lent>>

(* Rounded up to a multiple of MINSIZE.                                    *)
MINSZ(sz) == ((sz + MINSIZE - 1) \div MINSIZE) * MINSIZE

fix_memorypool_initialize ==
  /\ mpfs = {}
  /\ mpfcnt = [p \in Mpf |-> 0] /\ blfsz = [p \in Mpf |-> 0]
  /\ mpfsz = [p \in Mpf |-> 0] /\ frbcnt = [p \in Mpf |-> 0]
  /\ unused = [p \in Mpf |-> 0]
  /\ freelist = [p \in Mpf |-> << >>]
  /\ lent = [p \in Mpf |-> {}]

-----------------------------------------------------------------------------
(* It fails, and changes nothing, when there is no memory for the pool.    *)
cre_mpf(p, count, size) ==
  /\ caller
  /\ p \notin mpfs
  /\ mpfs' = mpfs \cup {p}
  /\ mpfcnt' = [mpfcnt EXCEPT ![p] = count]
  /\ frbcnt' = [frbcnt EXCEPT ![p] = count]
  /\ blfsz' = [blfsz EXCEPT ![p] = MINSZ(size)]
  /\ mpfsz' = [mpfsz EXCEPT ![p] = MINSZ(size) * count]
  /\ unused' = [unused EXCEPT ![p] = 0]
  /\ freelist' = [freelist EXCEPT ![p] = << >>]
  /\ lent' = [lent EXCEPT ![p] = {}]
  /\ UNCHANGED vars

(* Also while blocks are lent.                                             *)
del_mpf(p) ==
  /\ caller
  /\ p \in mpfs
  /\ wait_delete(p)
  /\ mpfs' = mpfs \ {p}
  /\ lent' = [lent EXCEPT ![p] = {}]
  /\ UNCHANGED <<mpfcnt, blfsz, mpfsz, frbcnt, unused, freelist, countvars, privars, cpuvars>>

(* From the free list, failing that from the blocks never lent.            *)
take_block(p) ==
  IF freelist[p] # << >>
  THEN /\ lent' = [lent EXCEPT ![p] = @ \cup {Head(freelist[p])}]
       /\ freelist' = [freelist EXCEPT ![p] = Tail(@)]
       /\ UNCHANGED unused
  ELSE /\ unused[p] < mpfsz[p]
       /\ lent' = [lent EXCEPT ![p] = @ \cup {unused[p]}]
       /\ unused' = [unused EXCEPT ![p] = @ + blfsz[p]]
       /\ UNCHANGED freelist

(* pget_blf, and tget_blf without wait, from any context.                  *)
pget_blf(p) ==
  /\ caller
  /\ p \in mpfs
  /\ take_block(p)
  /\ frbcnt' = [frbcnt EXCEPT ![p] = @ - 1]
  /\ UNCHANGED <<mpfs, mpfcnt, blfsz, mpfsz, vars>>

(* The wait of tget_blf; get_blf has no time-out.                          *)
tget_blf(p, timed) ==
  /\ in_task
  /\ ~in_ddsp
  /\ p \in mpfs
  /\ freelist[p] = << >> /\ unused[p] >= mpfsz[p]
  /\ gcb_make_wait(p, timed)
  /\ UNCHANGED <<mpfvars, countvars, privars, cpuvars>>

(* Mutated: the block is put on the free list although it was handed on.   *)
rel_blf_frees_too(p, blf) ==
  /\ caller
  /\ p \in mpfs
  /\ blf \in lent[p]
  /\ IF wait_queue[p] # << >>
     THEN wait_release(Head(wait_queue[p]))
     ELSE UNCHANGED <<state, schedvars, waitvars>>
  /\ freelist' = [freelist EXCEPT ![p] = <<blf>> \o @]
  /\ frbcnt' = [frbcnt EXCEPT ![p] = @ + 1]
  /\ lent' = IF wait_queue[p] # << >> THEN lent ELSE [lent EXCEPT ![p] = @ \ {blf}]
  /\ UNCHANGED <<mpfs, mpfcnt, blfsz, mpfsz, unused, countvars, privars, cpuvars>>

(* Mutated: the first waiter is released and the block goes to the list.   *)
rel_blf_drops_block(p, blf) ==
  /\ caller
  /\ p \in mpfs
  /\ blf \in lent[p]
  /\ IF wait_queue[p] # << >>
     THEN wait_release(Head(wait_queue[p]))
     ELSE UNCHANGED <<state, schedvars, waitvars>>
  /\ freelist' = [freelist EXCEPT ![p] = <<blf>> \o @]
  /\ frbcnt' = [frbcnt EXCEPT ![p] = @ + 1]
  /\ lent' = [lent EXCEPT ![p] = @ \ {blf}]
  /\ UNCHANGED <<mpfs, mpfcnt, blfsz, mpfsz, unused, countvars, privars, cpuvars>>

(* The block goes to the first waiter or, failing that, to the free list.  *)
rel_blf(p, blf) ==
  /\ caller
  /\ p \in mpfs
  /\ blf \in lent[p]
  /\ IF wait_queue[p] # << >>
     THEN /\ wait_release(Head(wait_queue[p]))
          /\ UNCHANGED <<freelist, frbcnt, lent>>
     ELSE /\ freelist' = [freelist EXCEPT ![p] = <<blf>> \o @]
          /\ frbcnt' = [frbcnt EXCEPT ![p] = @ + 1]
          /\ lent' = [lent EXCEPT ![p] = @ \ {blf}]
          /\ UNCHANGED <<state, schedvars, waitvars>>
  /\ UNCHANGED <<mpfs, mpfcnt, blfsz, mpfsz, unused, countvars, privars, cpuvars>>

ref_mpf(p) == [wtsk |-> wait_tskid(p), frbcnt |-> frbcnt[p]]

-----------------------------------------------------------------------------
MpfCall ==
  \E p \in Mpf :
    \/ \E count \in BlockCounts, size \in BlockSizes : cre_mpf(p, count, size)
    \/ del_mpf(p)
    \/ pget_blf(p)
    \/ \E timed \in BOOLEAN : tget_blf(p, timed)
    \/ \E blf \in lent[p] : rel_blf(p, blf)

MpfInit == Init /\ fix_memorypool_initialize

MpfNext == MpfCall \/ (Next /\ UNCHANGED mpfvars)

MpfSpec == MpfInit /\ [][MpfNext]_<<vars, mpfvars>>
-----------------------------------------------------------------------------
(* Every variable has its type.                                            *)
MpfTypeOK ==
  /\ TypeOK
  /\ mpfs \in SUBSET Mpf
  /\ \A p \in mpfs :
       /\ mpfcnt[p] \in BlockCounts
       /\ blfsz[p] \in {MINSZ(size) : size \in BlockSizes}
       /\ frbcnt[p] \in 0 .. mpfcnt[p]
       /\ unused[p] \in 0 .. mpfsz[p]
       /\ freelist[p] \in Seq(0 .. mpfsz[p])

(* Every block is in one place: with the program, once in the free list or *)
(* behind unused, where no block is that was ever lent; each lies inside   *)
(* the pool and no two overlap, and frbcnt counts those not lent.  A block *)
(* that is handed to a waiter never shows up in the free list too.         *)
EveryBlockOnce ==
  \A p \in mpfs :
    LET free == ToSet(freelist[p]) IN
    /\ IsInjective(freelist[p])
    /\ free \cap lent[p] = {}
    /\ free \cup lent[p] = {b \in 0 .. unused[p] - 1 : b % blfsz[p] = 0}
    /\ \A b \in lent[p] : b + blfsz[p] <= mpfsz[p]
    /\ frbcnt[p] + Cardinality(lent[p]) = mpfcnt[p]

(* Nobody waits for a block while the pool has one, whatever ended waits,  *)
(* and ref_mpf never reports both a waiting task and a free block.         *)
NoBlockWhileWaiting ==
  \A p \in Mpf : wait_tskid(p) # NoTask =>
    p \in mpfs /\ ref_mpf(p).frbcnt = 0 /\ Cardinality(lent[p]) = mpfcnt[p]

(* A pool serves the tasks as a counting semaphore does whose units are    *)
(* the free blocks: getting a block is waiting for a unit, and giving one  *)
(* back is signalling it.  Only, where preq_sem is refused (a handler, or  *)
(* a task that holds dispatching off), pget_blf may still take a block.    *)
Units == INSTANCE Semaphore WITH
  Sem <- Mpf, MAXSEM <- CHOOSE n \in BlockCounts : \A m \in BlockCounts : m <= n,
  created <- mpfs, semcnt <- frbcnt, maxsem <- mpfcnt

polled(p) ==
  /\ in_ddsp
  /\ frbcnt[p] >= 1
  /\ frbcnt' = [frbcnt EXCEPT ![p] = @ - 1]
  /\ UNCHANGED <<mpfs, mpfcnt, vars>>

PoolInit == Units!SemInit

PoolStep ==
  [Units!SemNext \/ \E p \in mpfs : polled(p)]_<<vars, mpfs, mpfcnt, frbcnt>>
=============================================================================
