------------------------------ MODULE SystemLog ------------------------------
(***************************************************************************)
(* The system log: syslog of programs (libitis/syslog.c) through           *)
(* svc_syslog_send, i_syslog of the kernel (kernel/isyslog.c), and the log *)
(* task (systask/logtask.c).  A message goes to the message buffer of the  *)
(* log or, by sys_write, directly to the port.                             *)
(*                                                                         *)
(* Programs are preempted between the accesses of svc_syslog_send to       *)
(* logtask_alive; the kernel's i_syslog is one critical section.  Messages *)
(* are numbered; masked ones are not made at all.                          *)
(***************************************************************************)
EXTENDS Integers, SequencesExt

CONSTANTS
  Caller,        (* tasks and handlers that call syslog                    *)
  MESSAGES,      (* bound: messages made                                   *)
  MBF_LOG        (* how many messages the message buffer holds             *)

LOGGER == "log_task"

SystemLogAssumption == LOGGER \notin Caller /\ {MESSAGES, MBF_LOG} \subseteq Nat \ {0}

Sender == Caller \cup {LOGGER}
NONE   == 0

VARIABLES
  made,          (* number of the last message made                        *)
  logtask_alive, (* 1 from logtask_startup on, until the buffer is given up *)
  mbf,           (* the message buffer                                     *)
  log_task,      (* "receives", "writes" or "ended"                        *)
  logtask_buf,   (* the message the log task has received                  *)
  at,            (* where each sender is in svc_syslog_send                *)
  string,        (* its message                                            *)
  output         (* the messages that were put out, in this order          *)

sendvars == <<at, string>>
taskvars == <<log_task, logtask_buf>>
vars     == <<made, logtask_alive, mbf, taskvars, sendvars, output>>

(* logtask_startup has been called; the log task has not run yet.          *)
Init ==
  /\ made = 0
  /\ logtask_alive = TRUE
  /\ mbf = <<>>
  /\ log_task = "receives"
  /\ logtask_buf = NONE
  /\ at = [s \in Sender |-> "idle"]
  /\ string = [s \in Sender |-> NONE]
  /\ output = <<>>
-----------------------------------------------------------------------------
(* Mutated: a task that waits for a message is not looked for.             *)
snd_mbf_stored(m) ==
  /\ Len(mbf) < MBF_LOG
  /\ mbf' = Append(mbf, m)
  /\ UNCHANGED taskvars

(* The message is given to the log task when it waits for one, or stored   *)
(* if there is room (psnd_mbf and log_snd_mbf).                            *)
snd_mbf(m) ==
  \/ /\ log_task = "waits"
     /\ log_task' = "writes" /\ logtask_buf' = m
     /\ UNCHANGED mbf
  \/ /\ log_task # "waits" /\ Len(mbf) < MBF_LOG
     /\ mbf' = Append(mbf, m)
     /\ UNCHANGED taskvars

no_room == log_task # "waits" /\ Len(mbf) = MBF_LOG

sys_write(m) == output' = Append(output, m)

(* A program calls syslog.                                                 *)
syslog(s) ==
  /\ at[s] = "idle" /\ made < MESSAGES
  /\ made' = made + 1
  /\ string' = [string EXCEPT ![s] = made + 1]
  /\ at' = [at EXCEPT ![s] = "calls"]
  /\ UNCHANGED <<logtask_alive, mbf, taskvars, output>>

svc_syslog_send(s) ==
  /\ at[s] = "calls"
  /\ at' = [at EXCEPT ![s] = IF logtask_alive THEN "sends" ELSE "asks_again"]
  /\ UNCHANGED <<made, logtask_alive, mbf, taskvars, string, output>>

svc_psnd_mbf(s) ==
  /\ at[s] = "sends"
  /\ \/ /\ snd_mbf(string[s])
        /\ at' = [at EXCEPT ![s] = "asks_again"]
     \/ /\ no_room
        /\ at' = [at EXCEPT ![s] = "gives_up"]
        /\ UNCHANGED <<mbf, taskvars>>
  /\ UNCHANGED <<made, logtask_alive, string, output>>

(* Mutated: the message that did not fit is forgotten.                     *)
svc_give_up_silently(s) ==
  /\ at[s] = "gives_up"
  /\ at' = [at EXCEPT ![s] = "idle"]
  /\ string' = [string EXCEPT ![s] = NONE]
  /\ logtask_alive' = FALSE
  /\ UNCHANGED <<made, mbf, taskvars, output>>

svc_give_up(s) ==
  /\ at[s] = "gives_up"
  /\ logtask_alive' = FALSE
  /\ at' = [at EXCEPT ![s] = "asks_again"]
  /\ UNCHANGED <<made, mbf, taskvars, string, output>>

svc_write_or_return(s) ==
  /\ at[s] = "asks_again"
  /\ at' = [at EXCEPT ![s] = IF logtask_alive THEN "idle" ELSE "writes"]
  /\ string' = IF logtask_alive THEN [string EXCEPT ![s] = NONE] ELSE string
  /\ UNCHANGED <<made, logtask_alive, mbf, taskvars, output>>

svc_sys_write(s) ==
  /\ at[s] = "writes"
  /\ sys_write(string[s])
  /\ at' = [at EXCEPT ![s] = "idle"]
  /\ string' = [string EXCEPT ![s] = NONE]
  /\ UNCHANGED <<made, logtask_alive, mbf, taskvars>>

(* The kernel puts a message out; with LOG_EMERG it does not use the log   *)
(* task any more.                                                          *)
i_syslog(emergency) ==
  /\ made < MESSAGES
  /\ made' = made + 1
  /\ \/ /\ logtask_alive /\ ~emergency /\ snd_mbf(made + 1)
        /\ UNCHANGED <<logtask_alive, output>>
     \/ /\ ~logtask_alive \/ emergency \/ no_room
        /\ logtask_alive' = FALSE
        /\ sys_write(made + 1)
        /\ UNCHANGED <<mbf, taskvars>>
  /\ UNCHANGED sendvars
-----------------------------------------------------------------------------
rcv_mbf ==
  /\ log_task = "receives"
  /\ IF mbf = <<>> THEN log_task' = "waits" /\ UNCHANGED <<mbf, logtask_buf>>
     ELSE log_task' = "writes" /\ logtask_buf' = Head(mbf) /\ mbf' = Tail(mbf)
  /\ UNCHANGED <<made, logtask_alive, sendvars, output>>

serial_write ==
  /\ log_task = "writes"
  /\ sys_write(logtask_buf)
  /\ log_task' = "receives" /\ logtask_buf' = NONE
  /\ UNCHANGED <<made, logtask_alive, mbf, sendvars>>

(* The wait of the log task is ended by rel_wai: it gives up and calls     *)
(* perror, which is one more message of its own.                           *)
log_task_released ==
  /\ log_task = "waits" /\ made < MESSAGES
  /\ log_task' = "ended"
  /\ logtask_alive' = FALSE
  /\ made' = made + 1
  /\ string' = [string EXCEPT ![LOGGER] = made + 1]
  /\ at' = [at EXCEPT ![LOGGER] = "calls"]
  /\ UNCHANGED <<mbf, logtask_buf, output>>

SendStep(s) ==
  \/ svc_syslog_send(s) \/ svc_psnd_mbf(s) \/ svc_give_up(s)
  \/ svc_write_or_return(s) \/ svc_sys_write(s)

LogTaskStep == rcv_mbf \/ serial_write

Next ==
  \/ \E s \in Caller : syslog(s)
  \/ \E s \in Sender : SendStep(s)
  \/ \E emergency \in BOOLEAN : i_syslog(emergency)
  \/ LogTaskStep \/ log_task_released

Spec == Init /\ [][Next]_vars

-----------------------------------------------------------------------------
(* Every variable has its type.                                            *)
LogTypeOK ==
  /\ made \in 0 .. MESSAGES
  /\ logtask_alive \in BOOLEAN
  /\ Len(mbf) <= MBF_LOG /\ ToSet(mbf) \subseteq 1 .. made
  /\ log_task \in {"receives", "waits", "writes", "ended"}
  /\ logtask_buf \in 0 .. made
  /\ at \in [Sender -> {"idle", "calls", "sends", "gives_up", "asks_again", "writes"}]
  /\ string \in [Sender -> 0 .. made]
  /\ ToSet(output) \subseteq 1 .. made

(* No message is lost as long as the log task has not ended: each one has  *)
(* been put out, or is in the buffer, with the log task or with the sender *)
(* that is still in its call.                                              *)
NothingLost ==
  log_task # "ended" =>
    \A m \in 1 .. made :
      \/ m \in ToSet(output) \cup ToSet(mbf)
      \/ m = logtask_buf
      \/ \E s \in Sender : string[s] = m

(* The log task does not wait while there are messages in the buffer, also *)
(* when the senders have given it up.                                      *)
NoMessageWaits == log_task = "waits" => mbf = <<>>

(* Each message goes one way: to the log task, or directly.                *)
PutOutOnce == IsInjective(output \o mbf)

(* logtask_alive says whether the log task runs, unless there was an       *)
(* emergency: senders use the log task as long as it does.                 *)
AliveMeansRuns == (log_task # "ended") = logtask_alive
=============================================================================
