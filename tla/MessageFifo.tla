------------------------------ MODULE MessageFifo ------------------------------
(***************************************************************************)
(* What a ring buffer promises: it is a queue of messages; a message is    *)
(* accepted as long as there is room for it and a header, in units of the  *)
(* rounding size, and comes out as it went in.                             *)
(***************************************************************************)
EXTENDS Integers, Sequences

CONSTANTS Message, Size, Unit

VARIABLE fifo

(* What a message occupies: its length, rounded up, and a header.          *)
Occupied(m) == Unit + (CHOOSE k \in 0 .. Len(m) : Unit * k >= Len(m) /\ Unit * (k - 1) < Len(m)) * Unit

Used ==
  LET sum[i \in 0 .. Len(fifo)] == IF i = 0 THEN 0 ELSE sum[i - 1] + Occupied(fifo[i])
  IN  sum[Len(fifo)]

Init == fifo = << >>

Put(m) == /\ Used + Occupied(m) <= Size
          /\ fifo' = Append(fifo, m)

Get == /\ fifo # << >>
       /\ fifo' = Tail(fifo)

Next == Get \/ \E m \in Message : Put(m)

Spec == Init /\ [][Next]_fifo
=============================================================================
