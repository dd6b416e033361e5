------------------------------ MODULE SerialPort ------------------------------
(***************************************************************************)
(* What the two serial drivers (systask/serial.c for hardware ports and    *)
(* systask/bsd_serial.c for the simulation on BSD) have in common: the two *)
(* ring buffers of a port, the two semaphores that count their characters  *)
(* and their room, and the way of a task through serial_read_one and       *)
(* serial_write_one.  A task may be preempted between wai_sem and the      *)
(* section between loc_cpu and unl_cpu; that section is one step.          *)
(*                                                                         *)
(* A character is its number, modulo LAST, in the order in which the       *)
(* characters are received and written.  A call for several characters is  *)
(* as many calls for one.  The settings echo and newline may be changed at *)
(* any time: whether a character read is echoed and whether a '\r' goes    *)
(* before a character written is a choice.                                 *)
(***************************************************************************)
EXTENDS Integers, FiniteSets, SequencesExt

CONSTANTS
  Task,          (* the tasks that use the port                            *)
  SERIAL_BUFSZ,  (* the size of a ring, which holds one character less     *)
  IXOFF_STOP,    (* STOP is sent when less than this much room is left     *)
  IXOFF_START,   (* START is sent when more than this much is left again   *)
  Flowc,         (* the settings for flow control that tasks choose from   *)
  LAST           (* bound: the characters are numbered modulo LAST         *)

SerialPortAssumption ==
  /\ IsFiniteSet(Task)
  /\ SERIAL_BUFSZ \in Nat \ {0, 1}
  /\ {IXOFF_STOP, IXOFF_START} \subseteq 0 .. SERIAL_BUFSZ
  /\ Flowc \subseteq SUBSET {"IXON", "IXANY", "IXOFF"}
  /\ LAST \in Nat \ {0, 1}

VARIABLES
  in_ring,       (* the receive buffer with its two pointers               *)
  out_ring,      (* the send buffer with its two pointers                  *)
  in_sem,        (* count of the semaphore of each buffer                  *)
  out_sem,
  at,            (* where each task is in serial_read or serial_write      *)
  left,          (* the characters it still has to write                   *)
  flowc,         (* the flow control that is set                           *)
  ixon_stopped,  (* STOP was received                                      *)
  ixoff_stopped, (* the other side was, or is to be, sent STOP             *)
  ixoff_send,    (* START or STOP when it is to be sent, else "none"       *)
  received,      (* number of the last character put into in_ring          *)
  taken,         (* and of the last one a task was given                   *)
  written,       (* number of the last character that a task wrote         *)
  sent           (* and of the last one that left for the other side       *)

ringvars  == <<in_ring, out_ring>>
semvars   == <<in_sem, out_sem>>
callvars  == <<at, left>>
ixvars    == <<flowc, ixon_stopped, ixoff_stopped, ixoff_send>>
countvars == <<received, taken, written, sent>>
portvars  == <<ringvars, semvars, callvars, ixvars, countvars>>

next(n) == (n + 1) % LAST
-----------------------------------------------------------------------------
(* Mutated: the pointer leaves the buffer one character too late.          *)
inc_late(x) == IF x < SERIAL_BUFSZ THEN x + 1 ELSE 0

inc(x) == IF x + 1 < SERIAL_BUFSZ THEN x + 1 ELSE 0

empty_ring == [buffer |-> [i \in 0 .. SERIAL_BUFSZ - 1 |-> 0], read_ptr |-> 0, write_ptr |-> 0]

is_empty(r) == r.read_ptr = r.write_ptr
is_full(r)  == inc(r.write_ptr) = r.read_ptr

put(r, c) == [r EXCEPT !.buffer[r.write_ptr] = c, !.write_ptr = inc(@)]
first(r)  == r.buffer[r.read_ptr]
rest(r)   == [r EXCEPT !.read_ptr = inc(@)]

(* Room left in the receive buffer, 0 also when all of it is.              *)
in_buf_area(r) ==
  IF r.read_ptr >= r.write_ptr THEN r.read_ptr - r.write_ptr
  ELSE r.read_ptr + SERIAL_BUFSZ - r.write_ptr

contents(r) ==
  [i \in 1 .. (r.write_ptr - r.read_ptr) % SERIAL_BUFSZ |->
     r.buffer[(r.read_ptr + i - 1) % SERIAL_BUFSZ]]
-----------------------------------------------------------------------------
(***************************************************************************)
(* The semaphores.  go and wait are the places of a task that has been     *)
(* given a unit and of one that waits for it.                              *)
(***************************************************************************)
wai_sem(t, sem, go, wait, place) ==
  /\ sem' = IF sem > 0 THEN sem - 1 ELSE 0
  /\ at' = [place EXCEPT ![t] = IF sem > 0 THEN go ELSE wait]

(* One of the tasks that wait goes on, or the count increases.             *)
waiters(place, wait) == {t \in Task : place[t] = wait}

signalled(place, go, wait) ==
  IF waiters(place, wait) = {} THEN {place}
  ELSE {[place EXCEPT ![t] = go] : t \in waiters(place, wait)}

sig_sem(sem, place, wait) == IF waiters(place, wait) = {} THEN sem + 1 ELSE sem

init_port ==
  /\ in_ring = empty_ring
  /\ out_ring = empty_ring
  /\ in_sem = 0
  /\ out_sem = SERIAL_BUFSZ - 1
  /\ at = [t \in Task |-> "idle"]
  /\ left = [t \in Task |-> 0]
  /\ flowc \in Flowc
  /\ ixon_stopped = FALSE
  /\ ixoff_stopped = FALSE
  /\ ixoff_send = "none"
  /\ received = 0 /\ taken = 0 /\ written = 0 /\ sent = 0

serial_read(t) ==
  /\ at[t] = "idle"
  /\ wai_sem(t, in_sem, "reading", "waits_in", at)
  /\ UNCHANGED <<ringvars, out_sem, left, ixvars, countvars>>

serial_write(t) ==
  /\ at[t] = "idle"
  /\ \E n \in {1, 2} : left' = [left EXCEPT ![t] = n]
  /\ wai_sem(t, out_sem, "writing", "waits_out", at)
  /\ UNCHANGED <<ringvars, in_sem, ixvars, countvars>>

(* The next character of a write, or the echo of one that was read.        *)
write_next(t) ==
  /\ at[t] = "more"
  /\ wai_sem(t, out_sem, "writing", "waits_out", at)
  /\ UNCHANGED <<ringvars, in_sem, left, ixvars, countvars>>

serial_ioctl(t) ==
  /\ at[t] = "idle"
  /\ flowc' \in Flowc
  /\ UNCHANGED <<ringvars, semvars, callvars, ixon_stopped, ixoff_stopped, ixoff_send, countvars>>

(* The wait of a task ends with an error; it goes on all the same, as      *)
(* syscall() only reports the error.                                       *)
wait_fails(t) ==
  /\ at[t] = "waits_in"
  /\ at' = [at EXCEPT ![t] = "reading"]
  /\ UNCHANGED <<ringvars, semvars, left, ixvars, countvars>>

(* t has read a character, and echoes it or not.                           *)
read_done(t) ==
  \E n \in 0 .. 2 :
    /\ left' = [left EXCEPT ![t] = n]
    /\ at' = [at EXCEPT ![t] = IF n = 0 THEN "idle" ELSE "more"]

(* Where the tasks are when t has written a character.                     *)
write_done(t) == [at EXCEPT ![t] = IF left[t] = 1 THEN "idle" ELSE "more"]

(* What the driver does with a character that comes in.                    *)
stops(c)     == "IXON" \in flowc /\ c = "STOP"
restarts(c)  == ~stops(c) /\ ("IXON" \in flowc \/ ixon_stopped) /\ (c = "START" \/ "IXANY" \in flowc)

(* A character put into r calls for STOP to be sent.                       *)
must_stop(r) == "IXOFF" \in flowc /\ ~ixoff_stopped /\ in_buf_area(r) < IXOFF_STOP

(* A character taken from r calls for START to be sent.                    *)
may_start(r) == ixoff_stopped /\ in_buf_area(r) > IXOFF_START
-----------------------------------------------------------------------------
PlacesOfTasks == {"idle", "reading", "waits_in", "more", "writing", "waits_out"}

Ring == [buffer : [0 .. SERIAL_BUFSZ - 1 -> 0 .. LAST - 1],
         read_ptr : 0 .. SERIAL_BUFSZ - 1, write_ptr : 0 .. SERIAL_BUFSZ - 1]

(* Every variable has its type.                                            *)
PortTypeOK ==
  /\ in_ring \in Ring /\ out_ring \in Ring
  /\ in_sem \in 0 .. SERIAL_BUFSZ - 1 /\ out_sem \in 0 .. SERIAL_BUFSZ - 1
  /\ at \in [Task -> PlacesOfTasks]
  /\ left \in [Task -> 0 .. 2]
  /\ flowc \in Flowc
  /\ ixon_stopped \in BOOLEAN /\ ixoff_stopped \in BOOLEAN
  /\ ixoff_send \in {"none", "START", "STOP"}
  /\ {received, taken, written, sent} \subseteq 0 .. LAST - 1

(* The characters received are read in their order, none twice and none    *)
(* left out, whichever tasks read and wherever the ring wraps around.      *)
InputInOrder ==
  /\ contents(in_ring) = [i \in DOMAIN contents(in_ring) |-> (taken + i) % LAST]
  /\ received = (taken + Len(contents(in_ring))) % LAST

(* The characters written leave in the order of the sections in which they *)
(* were written, whether they went through the buffer or past it.          *)
OutputInOrder ==
  /\ contents(out_ring) = [i \in DOMAIN contents(out_ring) |-> (sent + i) % LAST]
  /\ written = (sent + Len(contents(out_ring))) % LAST

(* The semaphores count exactly the characters in the one buffer and the   *)
(* room in the other that no task is about to take, so that the pointers   *)
(* never meet (the assertions of serial_read_one and serial_write_one) and *)
(* nobody waits in vain.                                                   *)
places(p) == Cardinality({t \in Task : at[t] = p})

SemaphoresExact ==
  /\ in_sem + places("reading") = Len(contents(in_ring))
  /\ out_sem + places("writing") + Len(contents(out_ring)) = SERIAL_BUFSZ - 1
  /\ places("waits_in") > 0 => in_sem = 0
  /\ places("waits_out") > 0 => out_sem = 0

(* The assertion of serial_read_one: there is something to read for a task *)
(* that has got past the semaphore.                                        *)
ReadsFromNonEmpty == \A t \in Task : at[t] = "reading" => ~is_empty(in_ring)
=============================================================================
