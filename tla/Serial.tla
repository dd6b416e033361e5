-------------------------------- MODULE Serial --------------------------------
(***************************************************************************)
(* The serial driver for hardware ports (systask/serial.c) with the port   *)
(* functions of the MPSC (m68k/dve68k/sys_serial.h).                       *)
(*                                                                         *)
(* The transmitter interrupts when it becomes empty while its interrupt is *)
(* enabled, and not when the interrupt is enabled while it is empty: it is *)
(* the driver that has to put the first character.  The other port may     *)
(* have caused the interrupt, so the handler may run at any time.          *)
(***************************************************************************)
EXTENDS SerialPort

VARIABLES
  init_flag,     (* the port is initialised                                *)
  send_enabled,  (* sending is going on (sendflag of RPORT is the same)    *)
  rx,            (* the character that was received, "none" when none was  *)
  tx_busy,       (* the transmitter has a character to send                *)
  tx_int,        (* and has become empty since the last interrupt          *)
  told           (* START or STOP, what was sent to the other side last    *)

rawvars    == <<rx, tx_busy, tx_int, told>>
serialvars == <<portvars, init_flag, send_enabled, rawvars>>

SerialInit ==
  /\ init_port
  /\ init_flag = TRUE
  /\ send_enabled = FALSE
  /\ rx = "none"
  /\ tx_busy = FALSE
  /\ tx_int = FALSE
  /\ told = "START"
-----------------------------------------------------------------------------
(* enable_send puts its character, and leaves sending enabled in any case. *)
puts_first == ~send_enabled /\ ~tx_busy

serial_read_one(t) ==
  /\ at[t] = "reading"
  /\ LET r == rest(in_ring) IN
     /\ in_ring' = r
     /\ taken' = first(in_ring)
     /\ IF may_start(r)
        THEN /\ ixoff_stopped' = FALSE
             /\ send_enabled' = TRUE
             /\ ixoff_send' = IF puts_first THEN ixoff_send ELSE "START"
             /\ tx_busy' = (tx_busy \/ puts_first)
             /\ told' = IF puts_first THEN "START" ELSE told
        ELSE UNCHANGED <<ixoff_stopped, send_enabled, ixoff_send, tx_busy, told>>
  /\ read_done(t)
  /\ UNCHANGED <<out_ring, semvars, flowc, ixon_stopped, received, written, sent,
                 init_flag, rx, tx_int>>

serial_write_one(t) ==
  /\ at[t] = "writing"
  /\ written' = next(written)
  /\ left' = [left EXCEPT ![t] = @ - 1]
  /\ IF ~ixon_stopped /\ puts_first
     THEN /\ tx_busy' = TRUE
          /\ sent' = written'
          /\ at' \in signalled(write_done(t), "writing", "waits_out")
          /\ out_sem' = sig_sem(out_sem, write_done(t), "waits_out")
          /\ UNCHANGED out_ring
     ELSE /\ out_ring' = put(out_ring, written')
          /\ at' = write_done(t)
          /\ UNCHANGED <<out_sem, sent, tx_busy>>
  /\ send_enabled' = (send_enabled \/ ~ixon_stopped)
  /\ UNCHANGED <<in_ring, in_sem, ixvars, received, taken, init_flag, rx, tx_int, told>>
-----------------------------------------------------------------------------
(***************************************************************************)
(* The two halves of the interrupt handler.  The first one leaves enabled  *)
(* and send as the values of send_enabled and ixoff_send, and the tasks at *)
(* place; the second one goes on from there.                               *)
(***************************************************************************)
(* Mutated: sending does not go on when START comes in.                    *)
controlled_no_start(enabled) ==
  /\ ixon_stopped' = stops(rx)
  /\ enabled = send_enabled

(* A character for flow control.                                           *)
controlled(enabled) ==
  /\ ixon_stopped' = stops(rx)
  /\ enabled = (send_enabled \/ restarts(rx))

(* A character that is put into the buffer.                                *)
stored(enabled, send, place) ==
  LET r == put(in_ring, next(received)) IN
  /\ in_ring' = r
  /\ received' = next(received)
  /\ place \in signalled(at, "reading", "waits_in")
  /\ in_sem' = sig_sem(in_sem, at, "waits_in")
  /\ ixoff_stopped' = (ixoff_stopped \/ must_stop(r))
  /\ enabled = (send_enabled \/ must_stop(r))
  /\ send = IF must_stop(r) THEN "STOP" ELSE ixoff_send

(* It is lost when the buffer is full.                                     *)
receive(enabled, send, place) ==
  \/ /\ rx # "none" /\ (stops(rx) \/ restarts(rx))
     /\ controlled(enabled)
     /\ send = ixoff_send /\ place = at
     /\ UNCHANGED <<in_ring, in_sem, ixoff_stopped, received>>
  \/ /\ rx # "none" /\ ~stops(rx) /\ ~restarts(rx) /\ ~is_full(in_ring)
     /\ stored(enabled, send, place)
     /\ UNCHANGED ixon_stopped
  \/ /\ rx = "none" \/ (~stops(rx) /\ ~restarts(rx) /\ is_full(in_ring))
     /\ enabled = send_enabled /\ send = ixoff_send /\ place = at
     /\ UNCHANGED <<in_ring, in_sem, ixon_stopped, ixoff_stopped, received>>

(* Mutated: what is to be told to the other side waits for the buffer.     *)
transmit_data_first(enabled, send, place) ==
  \/ /\ ~tx_busy /\ enabled /\ send # "none" /\ is_empty(out_ring)
     /\ told' = send /\ ixoff_send' = "none"
     /\ tx_busy' = TRUE /\ send_enabled' = TRUE
     /\ at' = place
     /\ UNCHANGED <<out_ring, out_sem, sent>>
  \/ /\ ~tx_busy /\ enabled /\ ~is_empty(out_ring)
     /\ out_ring' = rest(out_ring) /\ sent' = first(out_ring)
     /\ at' \in signalled(place, "writing", "waits_out")
     /\ out_sem' = sig_sem(out_sem, place, "waits_out")
     /\ tx_busy' = TRUE /\ send_enabled' = TRUE /\ ixoff_send' = send
     /\ UNCHANGED told
  \/ /\ tx_busy \/ ~enabled \/ (send = "none" /\ is_empty(out_ring))
     /\ send_enabled' = (enabled /\ tx_busy) /\ ixoff_send' = send
     /\ at' = place
     /\ UNCHANGED <<out_ring, out_sem, sent, tx_busy, told>>

transmit(enabled, send, place) ==
  \/ /\ ~tx_busy /\ enabled /\ send # "none"
     /\ told' = send /\ ixoff_send' = "none"
     /\ tx_busy' = TRUE /\ send_enabled' = TRUE
     /\ at' = place
     /\ UNCHANGED <<out_ring, out_sem, sent>>
  \/ /\ ~tx_busy /\ enabled /\ send = "none" /\ ~ixon_stopped' /\ ~is_empty(out_ring)
     /\ out_ring' = rest(out_ring) /\ sent' = first(out_ring)
     /\ at' \in signalled(place, "writing", "waits_out")
     /\ out_sem' = sig_sem(out_sem, place, "waits_out")
     /\ tx_busy' = TRUE /\ send_enabled' = TRUE /\ ixoff_send' = "none"
     /\ UNCHANGED told
  \/ /\ tx_busy \/ ~enabled \/ (send = "none" /\ (ixon_stopped' \/ is_empty(out_ring)))
     /\ send_enabled' = (enabled /\ tx_busy) /\ ixoff_send' = send
     /\ at' = place
     /\ UNCHANGED <<out_ring, out_sem, sent, tx_busy, told>>

serial_int_handler ==
  /\ init_flag
  /\ \E enabled \in BOOLEAN, send \in {"none", "START", "STOP"},
        place \in {at} \cup signalled(at, "reading", "waits_in") :
       receive(enabled, send, place) /\ transmit(enabled, send, place)
  /\ rx' = "none"
  /\ tx_int' = FALSE
  /\ UNCHANGED <<left, flowc, taken, written, init_flag>>
-----------------------------------------------------------------------------
(***************************************************************************)
(* The port is shut down when no task uses it, and may be initialised      *)
(* again.  With flush the task first waits until the buffer is empty; it   *)
(* gives up after MAX_FLUSH_LOOP rounds, so it may go on at any time.      *)
(***************************************************************************)
serial_init ==
  /\ ~init_flag
  /\ init_flag' = TRUE
  /\ in_ring' = empty_ring /\ out_ring' = empty_ring
  /\ in_sem' = 0 /\ out_sem' = SERIAL_BUFSZ - 1
  /\ ixon_stopped' = FALSE /\ ixoff_stopped' = FALSE /\ ixoff_send' = "none"
  /\ send_enabled' = FALSE
  /\ received' = 0 /\ taken' = 0 /\ written' = 0 /\ sent' = 0
  /\ rx' = "none" /\ tx_busy' = FALSE /\ tx_int' = FALSE /\ told' = "START"
  /\ UNCHANGED <<callvars, flowc>>

serial_shutdown ==
  /\ init_flag
  /\ \A t \in Task : at[t] = "idle"
  /\ init_flag' = FALSE
  /\ UNCHANGED <<portvars, send_enabled, rawvars>>

(* The hardware.                                                           *)
char_received ==
  /\ rx = "none"
  /\ rx' \in {"char", "START", "STOP"}
  /\ UNCHANGED <<portvars, init_flag, send_enabled, tx_busy, tx_int, told>>

char_sent ==
  /\ tx_busy
  /\ tx_busy' = FALSE
  /\ tx_int' = send_enabled
  /\ UNCHANGED <<portvars, init_flag, send_enabled, rx, told>>

TaskStep(t) ==
  \/ /\ init_flag
     /\ serial_read(t) \/ serial_write(t) \/ write_next(t) \/ serial_ioctl(t)
     /\ UNCHANGED <<init_flag, send_enabled, rawvars>>
  \/ serial_read_one(t) \/ serial_write_one(t)

SerialNext ==
  \/ \E t \in Task : TaskStep(t)
  \/ serial_int_handler \/ char_received \/ char_sent
  \/ serial_init \/ serial_shutdown

(***************************************************************************)
(* A character in the transmitter is sent some time, and an interrupt that *)
(* is asked for comes.  Nothing obliges the tasks or the other side.       *)
(***************************************************************************)
interrupt_pending == rx # "none" \/ tx_int

interrupt == interrupt_pending /\ serial_int_handler

SerialSpec == SerialInit /\ [][SerialNext]_serialvars

-----------------------------------------------------------------------------
(* Every variable has its type.                                            *)
SerialTypeOK ==
  /\ PortTypeOK
  /\ {init_flag, send_enabled, tx_busy, tx_int} \subseteq BOOLEAN
  /\ rx \in {"none", "char", "START", "STOP"}
  /\ told \in {"START", "STOP"}

(* As long as there is something to send and it is not stopped, the        *)
(* transmitter is busy or has just asked for the handler: nobody forgets   *)
(* to put the first character, whichever of the task, the handler and the  *)
(* other side comes first.                                                 *)
SendingGoesOn ==
  init_flag /\ (ixoff_send # "none" \/ (~ixon_stopped /\ ~is_empty(out_ring))) =>
    send_enabled /\ (tx_busy \/ tx_int)

(* The other side was told what ixoff_stopped says, or is going to be.     *)
ToldRight ==
  init_flag =>
    IF ixoff_send = "none" THEN told = (IF ixoff_stopped THEN "STOP" ELSE "START")
    ELSE ixoff_send = (IF ixoff_stopped THEN "STOP" ELSE "START")

(* A character received reaches the tasks if there is room for it: only a  *)
(* transmitter that is stopped is to be started by any character (IXANY,   *)
(* doc/USER).                                                              *)
InputKept ==
  [][rx = "char" /\ rx' = "none" /\ init_flag' /\ init_flag /\ ~ixon_stopped /\ ~is_full(in_ring)
     => received' = next(received)]_serialvars
=============================================================================
