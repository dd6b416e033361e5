------------------------------ MODULE BsdSerial ------------------------------
(***************************************************************************)
(* The pseudo serial driver of the simulation on BSD (bsd_serial.c).  Its  *)
(* port is a terminal in non-blocking mode; SIGIO tells that there is      *)
(* input or room for output, and makes the task of bsd_sigio.c call        *)
(* serial_sigio_callback.  SIGIO is masked in a section between loc_cpu    *)
(* and unl_cpu, but the terminal works on.                                 *)
(***************************************************************************)
EXTENDS SerialPort

CONSTANT LINE    (* bound: characters that wait at the terminal            *)

VARIABLES
  readable,      (* the characters that wait to be read at the terminal    *)
  writable,      (* it takes a character                                   *)
  sigio,         (* SIGIO is pending, or has woken the task of bsd_sigio.c *)
  in_callback,   (* that task is in serial_sigio_callback                  *)
  told           (* START or STOP, what was sent to the other side last    *)

ttyvars == <<readable, writable, sigio, in_callback, told>>
bsdvars == <<portvars, ttyvars>>

BsdInit ==
  /\ init_port
  /\ readable = <<>>
  /\ writable = TRUE
  /\ sigio = FALSE
  /\ in_callback = FALSE
  /\ told = "START"
-----------------------------------------------------------------------------
(* A character is written; the terminal may or may not take another one.   *)
write_char == writable /\ writable' \in BOOLEAN

(* The signal that a reader sends itself when the buffer was full.         *)
read_signals(r) == sigio \/ is_full(r)

serial_read_one(t) ==
  /\ at[t] = "reading"
  /\ in_ring' = rest(in_ring)
  /\ taken' = first(in_ring)
  /\ sigio' = read_signals(in_ring)
  /\ \/ /\ may_start(in_ring') /\ write_char
        /\ told' = "START" /\ ixoff_stopped' = FALSE
        /\ UNCHANGED ixoff_send
     \/ /\ may_start(in_ring') /\ ~writable
        /\ ixoff_send' = "START" /\ ixoff_stopped' = FALSE
        /\ UNCHANGED <<writable, told>>
     \/ /\ ~may_start(in_ring')
        /\ UNCHANGED <<ixoff_send, ixoff_stopped, writable, told>>
  /\ read_done(t)
  /\ UNCHANGED <<out_ring, semvars, flowc, ixon_stopped, received, written, sent,
                 readable, in_callback>>

serial_write_one(t) ==
  /\ at[t] = "writing"
  /\ written' = next(written)
  /\ left' = [left EXCEPT ![t] = @ - 1]
  /\ \/ /\ ~ixon_stopped /\ write_char
        /\ sent' = written'
        /\ at' \in signalled(write_done(t), "writing", "waits_out")
        /\ out_sem' = sig_sem(out_sem, write_done(t), "waits_out")
        /\ UNCHANGED out_ring
     \/ /\ ixon_stopped \/ ~writable
        /\ out_ring' = put(out_ring, written')
        /\ at' = write_done(t)
        /\ UNCHANGED <<out_sem, sent, writable>>
  /\ UNCHANGED <<in_ring, in_sem, ixvars, received, taken, readable, sigio, in_callback, told>>
-----------------------------------------------------------------------------
(***************************************************************************)
(* The two halves of serial_int_handler.  The first one leaves send as the *)
(* value of ixoff_send and the tasks at place; each says whether it did    *)
(* something.                                                              *)
(***************************************************************************)
can_read == ~is_full(in_ring) /\ readable # <<>>

receive(send, place, flag) ==
  \/ /\ can_read /\ (stops(Head(readable)) \/ restarts(Head(readable)))
     /\ readable' = Tail(readable)
     /\ ixon_stopped' = stops(Head(readable))
     /\ send = ixoff_send /\ place = at /\ flag
     /\ UNCHANGED <<in_ring, in_sem, ixoff_stopped, received>>
  \/ /\ can_read /\ ~stops(Head(readable)) /\ ~restarts(Head(readable))
     /\ readable' = Tail(readable)
     /\ in_ring' = put(in_ring, next(received))
     /\ received' = next(received)
     /\ place \in signalled(at, "reading", "waits_in")
     /\ in_sem' = sig_sem(in_sem, at, "waits_in")
     /\ ixoff_stopped' = (ixoff_stopped \/ must_stop(in_ring'))
     /\ send = IF must_stop(in_ring') THEN "STOP" ELSE ixoff_send
     /\ flag
     /\ UNCHANGED ixon_stopped
  \/ /\ ~can_read
     /\ send = ixoff_send /\ place = at /\ ~flag
     /\ UNCHANGED <<readable, in_ring, in_sem, ixon_stopped, ixoff_stopped, received>>

can_send(send) == send # "none" \/ (~ixon_stopped' /\ ~is_empty(out_ring))

transmit(send, place, flag) ==
  \/ /\ send # "none" /\ write_char
     /\ told' = send /\ ixoff_send' = "none"
     /\ at' = place /\ flag
     /\ UNCHANGED <<out_ring, out_sem, sent>>
  \/ /\ send = "none" /\ can_send(send) /\ write_char
     /\ out_ring' = rest(out_ring) /\ sent' = first(out_ring)
     /\ at' \in signalled(place, "writing", "waits_out")
     /\ out_sem' = sig_sem(out_sem, place, "waits_out")
     /\ ixoff_send' = send /\ flag
     /\ UNCHANGED told
  \/ /\ ~writable \/ ~can_send(send)
     /\ ixoff_send' = send /\ at' = place /\ ~flag
     /\ UNCHANGED <<out_ring, out_sem, sent, writable, told>>

serial_int_handler(flag) ==
  \E got, gave \in BOOLEAN, send \in {"none", "START", "STOP"},
     place \in {at} \cup signalled(at, "reading", "waits_in") :
    /\ receive(send, place, got)
    /\ transmit(send, place, gave)
    /\ flag = (got \/ gave)

(* One round of the loop, which ends when the handler did nothing.         *)
serial_sigio_callback ==
  /\ in_callback
  /\ \E flag \in BOOLEAN : serial_int_handler(flag) /\ in_callback' = flag
  /\ UNCHANGED <<left, flowc, taken, written, sigio>>

(* SIGIO has woken the task.                                               *)
bsd_sigio_task ==
  /\ sigio /\ ~in_callback
  /\ sigio' = FALSE
  /\ in_callback' = TRUE
  /\ UNCHANGED <<portvars, readable, writable, told>>

(* The terminal.                                                           *)
char_received ==
  /\ Len(readable) < LINE
  /\ \E c \in {"char", "START", "STOP"} : readable' = Append(readable, c)
  /\ sigio' = TRUE
  /\ UNCHANGED <<portvars, writable, in_callback, told>>

room_made ==
  /\ ~writable
  /\ writable' = TRUE
  /\ sigio' = TRUE
  /\ UNCHANGED <<portvars, readable, in_callback, told>>

TaskStep(t) ==
  \/ /\ serial_read(t) \/ serial_write(t) \/ write_next(t) \/ serial_ioctl(t)
     /\ UNCHANGED ttyvars
  \/ serial_read_one(t) \/ serial_write_one(t)

BsdNext ==
  \/ \E t \in Task : TaskStep(t)
  \/ bsd_sigio_task \/ serial_sigio_callback
  \/ char_received \/ room_made

BsdSpec == BsdInit /\ [][BsdNext]_bsdvars
-----------------------------------------------------------------------------
(* Every variable has its type.                                            *)
BsdTypeOK ==
  /\ PortTypeOK
  /\ readable \in Seq({"char", "START", "STOP"}) /\ Len(readable) <= LINE
  /\ {writable, sigio, in_callback} \subseteq BOOLEAN
  /\ told \in {"START", "STOP"}

something_to_send == ixoff_send # "none" \/ (~ixon_stopped /\ ~is_empty(out_ring))

(* No notification is missed: when no SIGIO is pending and the callback is *)
(* not running, it has left nothing that it could read or write.           *)
NothingLeft ==
  ~sigio /\ ~in_callback => ~can_read /\ ~(writable /\ something_to_send)

(* The other side was told what ixoff_stopped says, or is going to be.     *)
OtherSideKnows ==
  IF ixoff_send = "none" THEN told = (IF ixoff_stopped THEN "STOP" ELSE "START")
  ELSE ixoff_send = (IF ixoff_stopped THEN "STOP" ELSE "START")

(* A START that comes in ends the stop once the callback has run: it does  *)
(* not wait behind the characters of a full buffer that nobody may be able *)
(* to read before he has written.                                          *)
RestartSeen ==
  ixon_stopped /\ "IXON" \in flowc /\ ~sigio /\ ~in_callback =>
    ~\E i \in DOMAIN readable : readable[i] = "START"
=============================================================================
