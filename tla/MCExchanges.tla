------------------------------ MODULE MCExchanges ------------------------------
(***************************************************************************)
(* Message buffers and variable-length memory pools, tasks of one priority *)
(* and a handler.  Each behaviour is about one of them, chosen at the      *)
(* start: the instance is the union of their instances.  A buffer or pool  *)
(* is used by three tasks that wait until they are served, released or     *)
(* timed out, or (the parts named _wait) by two that are suspended and     *)
(* terminated too.  Nobody waits in the parts "ring", the ring of a        *)
(* message buffer with messages of all lengths from two senders, and       *)
(* "heap", a larger pool.                                                  *)
(*                                                                         *)
(* The view leaves out what is kept of a buffer or pool that does not      *)
(* exist and of tasks that do not wait, and the free bytes of rings.       *)
(***************************************************************************)
EXTENDS MessageBuffer, RingBuffer, MemoryPool, MCTaskManagement

CONSTANTS t1, t2, t3, b1, s1

MCsend_queue == [b \in {b1} |-> s1]

ASSUME ExchangesAssumption == \A b \in Mbf : {b, send_queue[b]} \cap Mpl = {}

TaskSymmetry == Permutations({t2, t3})

VARIABLE part   (* what the behaviour is about                             *)

allvars == <<part, vars, mbfvars, mplvars, mbf>>

-----------------------------------------------------------------------------
alive == {t \in Task : state[t] # "NONEXIST"}

OnePriStep == \E t \in Task : sta_tsk(t) \/ cre_tsk(t, TSK_INIT_PRI)

(* In both parts named _wait.                                              *)
TwoTasksStep == (WaitStep \/ OnePriStep) /\ Cardinality(alive') <= 2

SizeOf(b) == <<ring[b].bufsz, maxmsz[b]>>

MessageBufferStep ==
  /\ \/ /\ part = "messagebuf"
        /\ \/ MbfCall /\ \A b \in mbfs' : SizeOf(b)' = <<10, 10>>
           \/ (AloneStep \/ OnePriStep) /\ UNCHANGED mbfvars
     \/ /\ part = "messagebuf_wait"
        /\ MbfCall \/ (TwoTasksStep /\ UNCHANGED mbfvars)
  /\ UNCHANGED <<part, mplvars, mbf>>

RingStep ==
  /\ part = "ring"
  /\ RingNext
  /\ UNCHANGED <<part, vars, mbfvars, mplvars>>

MemoryPoolStep ==
  /\ \/ /\ part = "mempool"
        /\ \/ MplCall /\ \A p \in mpls' : mplsz'[p] = 6
           \/ (AloneStep \/ OnePriStep) /\ UNCHANGED mplvars
     \/ /\ part = "mempool_wait"
        /\ \/ MplCall /\ \A p \in mpls' : mplsz'[p] < 6
           \/ TwoTasksStep /\ UNCHANGED mplvars
     \/ /\ part = "heap"
        /\ MplCall /\ \A p \in mpls' : mplsz'[p] = 16
        /\ UNCHANGED vars
  /\ UNCHANGED <<part, mbfvars, mbf>>

ExchangesInit ==
  /\ part \in {"messagebuf", "messagebuf_wait", "ring", "mempool", "mempool_wait", "heap"}
  /\ Init
  /\ messagebuffer_initialize /\ memorypool_initialize /\ RingInit

ExchangesNext == MessageBufferStep \/ RingStep \/ MemoryPoolStep

ExchangesSpec == ExchangesInit /\ [][ExchangesNext]_allvars

RingView(r) == <<r.bufsz, r.frbufsz, r.head, contents(r)>>

View ==
  <<part, TaskView, [b \in mbfs |-> <<RingView(ring[b]), maxmsz[b]>>],
    [t \in {u \in Task : wspec[u] = s1} |-> smsgsz[t]],
    [p \in mpls |-> <<mplsz[p], areas[p], lent[p]>>],
    [t \in {u \in Task : wspec[u] \in Mpl} |-> blksz[t]],
    IF part = "ring" THEN RingView(mbf) ELSE << >> >>
-----------------------------------------------------------------------------
(* Nobody waits in vain: for a message while there is one, for room that   *)
(* its message fits into, or for a block that the pool could give,         *)
(* whatever waits around it and however the waits before it ended.         *)
NobodyWaitsInVain == MessagesPassOn /\ NoBlockForAWaiter

(* Every variable has its type, memory is neither lost nor given out       *)
(* twice, and each task that was given a block has memory of its own, also *)
(* when one call of rel_blk serves several.                                *)
BlocksSound == TypeOK /\ MbfTypeOK /\ MplTypeOK /\ PoolsInOrder /\ EveryBlockHasItsArea

(* Messages are received in the order in which the buffer took them, and   *)
(* tasks get blocks in the order of their queue.                           *)
ServedInTurn == MessagesInOrder /\ ReleasedInOrder

(* The ring buffer is a queue of messages: none is lost, cut or mixed with *)
(* another, wherever in the buffer it is split, no message for which there *)
(* is room is refused, and no header is split.                             *)
RingServesFifo ==
  /\ Fifo!Init
  /\ [][part = "ring" => Fifo!Next]_mbf
  /\ [](part = "ring" => RingAligned /\ NeverRefused)
=============================================================================
