------------------------------- MODULE RingBuffer ------------------------------
(***************************************************************************)
(* A ring buffer that is filled and emptied in every possible way, by      *)
(* messages of every length that two senders send.                         *)
(***************************************************************************)
EXTENDS MessageRing

CONSTANTS BUFSZ, MAXMSZ, Sender

ASSUME RingAssumption == BUFSZ \in Nat \ {0} /\ ROUNDSZ(BUFSZ) = BUFSZ /\ MAXMSZ \in Nat

VARIABLE mbf

Messages == UNION {{[i \in 1 .. sz |-> <<s, i>>] : sz \in 1 .. MAXMSZ} : s \in Sender}

RingInit == mbf = mbf_initialize(BUFSZ)

Send(msg) == mbf_free(mbf, Len(msg)) /\ mbf' = msg_to_mbf(mbf, msg)

Receive == ~mbf_empty(mbf) /\ mbf' = mbf_to_msg(mbf)

RingNext == Receive \/ \E msg \in Messages : Send(msg)

RingSpec == RingInit /\ [][RingNext]_mbf

-----------------------------------------------------------------------------
(* head and tail stay on boundaries of the rounding size inside the        *)
(* buffer, so that no header is ever split, and the free bytes are those   *)
(* that lie between tail and head.                                         *)
RingAligned ==
  /\ {mbf.head, mbf.tail} \subseteq {i \in 0 .. BUFSZ - 1 : i % HEADERSZ = 0}
  /\ mbf.frbufsz \in 0 .. BUFSZ
  /\ (mbf.tail - mbf.head - (BUFSZ - mbf.frbufsz)) % BUFSZ = 0

(* The ring buffer is a queue of messages: none is lost, cut or mixed with *)
(* another, wherever in the buffer it is split.                            *)
Fifo == INSTANCE MessageFifo WITH
  fifo <- contents(mbf), Message <- Messages, Size <- BUFSZ, Unit <- HEADERSZ

(* A message that there is room for is never refused (mbf_free compares    *)
(* with the length before it is rounded).                                  *)
NeverRefused ==
  \A msg \in Messages : Fifo!Used + Fifo!Occupied(msg) <= BUFSZ => mbf_free(mbf, Len(msg))
=============================================================================
