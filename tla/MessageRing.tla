------------------------------ MODULE MessageRing ------------------------------
(***************************************************************************)
(* The ring buffer of a message buffer (kernel/messagebuf.c): msg_to_mbf   *)
(* and mbf_to_msg, which copy messages byte by byte behind a header that   *)
(* holds their length, and mbf_free and mbf_empty, the tests their callers *)
(* make first.                                                             *)
(*                                                                         *)
(* A ring is the record of the fields of the MBFCB that describe it.  A    *)
(* byte of the buffer is a byte of a message or of a header; a message is  *)
(* the sequence of its bytes.                                              *)
(***************************************************************************)
EXTENDS Integers, Sequences

CONSTANT HEADERSZ   (* sizeof(HEADER), which is ROUNDSIZE too              *)

ASSUME HeaderAssumption == HEADERSZ \in Nat \ {0}

ROUNDSZ(sz) == ((sz + HEADERSZ - 1) \div HEADERSZ) * HEADERSZ

(* The header of a message of msgsz bytes, of which every byte is this.    *)
header(msgsz) == <<"header", msgsz>>

mbf_initialize(bufsz) ==
  [bufsz |-> bufsz, frbufsz |-> bufsz, head |-> 0, tail |-> 0,
   buffer |-> [i \in 0 .. bufsz - 1 |-> header(0)]]

mbf_free(r, sz) == HEADERSZ + sz <= r.frbufsz

mbf_empty(r) == r.frbufsz = r.bufsz

(* A position at or behind the end of the buffer is its start.             *)
wrap(r, i) == IF i >= r.bufsz THEN 0 ELSE i

(* memcpy of all bytes of src to the buffer, from position to on.          *)
copied(buffer, to, src) ==
  [i \in DOMAIN buffer |->
     IF i \in to .. to + Len(src) - 1 THEN src[i - to + 1] ELSE buffer[i]]

(* Mutated: tail does not follow a message that is split.                  *)
msg_to_mbf_tail_at_start(r, msg) ==
  LET len   == Len(msg)
      start == wrap(r, r.tail + HEADERSZ)
      remsz == r.bufsz - start
      hd    == copied(r.buffer, r.tail, [i \in 1 .. HEADERSZ |-> header(len)])
  IN  [r EXCEPT
        !.frbufsz = @ - (HEADERSZ + ROUNDSZ(len)),
        !.buffer  = IF remsz < len
                    THEN copied(copied(hd, start, SubSeq(msg, 1, remsz)), 0,
                                SubSeq(msg, remsz + 1, len))
                    ELSE copied(hd, start, msg),
        !.tail    = wrap(r, start + ROUNDSZ(len))]

(* Only the bytes of the message are split, never its header.              *)
msg_to_mbf(r, msg) ==
  LET len   == Len(msg)
      start == wrap(r, r.tail + HEADERSZ)
      remsz == r.bufsz - start
      hd    == copied(r.buffer, r.tail, [i \in 1 .. HEADERSZ |-> header(len)])
  IN  [r EXCEPT
        !.frbufsz = @ - (HEADERSZ + ROUNDSZ(len)),
        !.buffer  = IF remsz < len
                    THEN copied(copied(hd, start, SubSeq(msg, 1, remsz)), 0,
                                SubSeq(msg, remsz + 1, len))
                    ELSE copied(hd, start, msg),
        !.tail    = wrap(r, IF remsz < len THEN ROUNDSZ(len - remsz)
                            ELSE start + ROUNDSZ(len))]

(* The bytes of the buffer from position from on.                          *)
bytes(r, from, n) == [i \in 1 .. n |-> r.buffer[from + i - 1]]

(* The message at position at, and where the next one is.                  *)
msgsz(r, at) == r.buffer[at][2]

msg_at(r, at) ==
  LET start == wrap(r, at + HEADERSZ)
      remsz == r.bufsz - start
  IN  IF remsz < msgsz(r, at)
      THEN bytes(r, start, remsz) \o bytes(r, 0, msgsz(r, at) - remsz)
      ELSE bytes(r, start, msgsz(r, at))

behind_msg(r, at) ==
  LET start == wrap(r, at + HEADERSZ)
      remsz == r.bufsz - start
  IN  wrap(r, IF remsz < msgsz(r, at) THEN ROUNDSZ(msgsz(r, at) - remsz)
              ELSE start + ROUNDSZ(msgsz(r, at)))

(* The ring once its first message, msg_at(r, r.head), is copied out.      *)
mbf_to_msg(r) ==
  [r EXCEPT !.frbufsz = @ + HEADERSZ + ROUNDSZ(msgsz(r, r.head)),
            !.head    = behind_msg(r, @)]

(* The messages in the ring, first to last.  The walk along them is at the *)
(* header of a message while there are bytes left that it has not seen.    *)
contents(r) ==
  LET seen == [w \in [at : Nat, left : Int] |->
                 IF w.left <= 0 THEN w
                 ELSE [at   |-> behind_msg(r, w.at),
                       left |-> w.left - HEADERSZ - ROUNDSZ(msgsz(r, w.at))]]
      walk[i \in 0 .. r.bufsz] ==
        IF i = 0 THEN [at |-> r.head, left |-> r.bufsz - r.frbufsz] ELSE seen[walk[i - 1]]
      number == CHOOSE n \in 0 .. r.bufsz :
                  walk[n].left <= 0 /\ \A i \in 0 .. n - 1 : walk[i].left > 0
  IN  [i \in 1 .. number |-> msg_at(r, walk[i - 1].at)]
=============================================================================
