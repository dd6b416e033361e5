----------------------------- MODULE DeviceProofs -----------------------------
(***************************************************************************)
(* Proofs about the drivers and the system log: 1 the log, 2 files, 3 and  *)
(* 4 the rings and semaphores of serial ports, 5 hardware ports, 6 the     *)
(* port of the simulation, 7 the whole.  The parts do not share state, so  *)
(* each has an invariant of its own, which says nothing while another part *)
(* works.                                                                  *)
(***************************************************************************)
EXTENDS MCDevices, QueueProofs, FiniteSetTheorems

(***************************************************************************)
(* 1. The system log.                                                      *)
(***************************************************************************)
(* The messages that the senders need not care about any more.             *)
placed == ToSet(output) \cup ToSet(mbf) \cup {logtask_buf}

LogTypes ==
  /\ made \in Nat
  /\ mbf \in Seq(Nat) /\ output \in Seq(Nat)
  /\ log_at \in [Log!Sender -> {"idle", "calls", "sends", "gives_up", "asks_again", "writes"}]
  /\ string \in [Log!Sender -> Nat]
  /\ logtask_buf \in Nat

(* What the senders know of their messages: one that asks again whether it *)
(* has to write itself, and need not, has had its message taken.           *)
LogRuns ==
  /\ Log!NoMessageWaits
  /\ log_task \in {"receives", "waits"} => logtask_buf = 0
  /\ \A m \in 1 .. made : m \in placed \/ \E s \in Log!Sender : string[s] = m
  /\ \A s \in Log!Sender :
       /\ log_at[s] = "idle" <=> string[s] = 0
       /\ log_at[s] = "asks_again" /\ logtask_alive => string[s] \in placed

(* The numbers of the messages that are under way.                         *)
LogBounds ==
  /\ made \in 0 .. MESSAGES
  /\ logtask_alive \in BOOLEAN
  /\ log_task \in {"receives", "waits", "writes", "ended"}
  /\ Len(mbf) <= MBF_LOG
  /\ ToSet(mbf) \subseteq 1 .. made /\ ToSet(output) \subseteq 1 .. made
  /\ logtask_buf <= made /\ (log_task = "writes" => logtask_buf # 0)
  /\ \A s \in Log!Sender : string[s] <= made /\ (log_at[s] = "idle" <=> string[s] = 0)

LogInv ==
  part = "system_log" => LogTypes /\ LogBounds /\ (log_task # "ended" => LogRuns)

(* A message at the end of a sequence, and one taken from its front.       *)
LEMMA AppendEntries ==
  ASSUME NEW S, NEW s \in Seq(S), NEW m \in S
  PROVE  Append(s, m) \in Seq(S) /\ ToSet(Append(s, m)) = ToSet(s) \cup {m}
<1>1. /\ Append(s, m) \in Seq(S) /\ Len(Append(s, m)) = Len(s) + 1
      /\ \A i \in 1 .. Len(s) + 1 : Append(s, m)[i] = IF i <= Len(s) THEN s[i] ELSE m
  OBVIOUS
<1>2. \A x : x \in ToSet(Append(s, m)) <=> \E i \in 1 .. Len(s) + 1 : x = Append(s, m)[i]
  BY <1>1 DEF ToSet
<1>3. \A x : x \in ToSet(s) <=> \E i \in 1 .. Len(s) : x = s[i]
  BY DEF ToSet
<1>4. Len(s) \in Nat
  OBVIOUS
<1>5. ASSUME NEW x \in ToSet(Append(s, m)) PROVE x \in ToSet(s) \cup {m}
  BY <1>1, <1>2, <1>3, <1>4
<1>6. ASSUME NEW x \in ToSet(s) \cup {m} PROVE x \in ToSet(Append(s, m))
  <2>1. CASE x = m
    BY <1>1, <1>2, <1>4, <2>1
  <2>2. CASE x \in ToSet(s)
    BY <1>1, <1>2, <1>3, <1>4, <2>2
  <2> QED BY <2>1, <2>2
<1> QED BY <1>1, <1>5, <1>6

(* The entries of a sequence are the first one and those behind it.        *)
LEMMA TailEntries ==
  ASSUME NEW S, NEW s \in Seq(S), s # << >>
  PROVE  Head(s) \in S /\ Tail(s) \in Seq(S) /\ ToSet(s) = {Head(s)} \cup ToSet(Tail(s))
<1>1. /\ Tail(s) \in Seq(S) /\ Len(Tail(s)) = Len(s) - 1 /\ Head(s) = s[1] /\ Head(s) \in S
      /\ Len(s) \in Nat \ {0}
      /\ \A i \in 1 .. Len(s) - 1 : Tail(s)[i] = s[i + 1]
      /\ DOMAIN Tail(s) = 1 .. Len(s) - 1
  OBVIOUS
<1>2. \A x : x \in ToSet(Tail(s)) <=> \E i \in 1 .. Len(s) - 1 : x = Tail(s)[i]
  BY <1>1 DEF ToSet
<1>3. \A x : x \in ToSet(s) <=> \E i \in 1 .. Len(s) : x = s[i]
  BY DEF ToSet
<1>4. ASSUME NEW x \in ToSet(s), x # Head(s) PROVE x \in ToSet(Tail(s))
  <2>1. PICK i \in 1 .. Len(s) : x = s[i]
    BY <1>3, <1>4
  <2>2. i # 1 /\ i - 1 \in 1 .. Len(s) - 1 /\ (i - 1) + 1 = i
    BY <1>1, <1>4, <2>1
  <2> QED BY <1>1, <1>2, <2>1, <2>2
<1>5. ASSUME NEW x \in ToSet(Tail(s)) PROVE x \in ToSet(s)
  <2>1. PICK i \in 1 .. Len(s) - 1 : x = Tail(s)[i]
    BY <1>2, <1>5
  <2> QED BY <1>1, <1>3, <2>1
<1>6. Head(s) \in ToSet(s)
  BY <1>1, <1>3
<1> QED BY <1>1, <1>4, <1>5, <1>6

(* What the steps of the log do to the messages that are placed: they stay *)
(* so, and one may be added.                                               *)
LEMMA SndPlaces ==
  ASSUME LogTypes, Log!NoMessageWaits, log_task \in {"receives", "waits"} => logtask_buf = 0,
         NEW m \in Nat \ {0}, Log!snd_mbf(m)
  PROVE  /\ mbf' \in Seq(Nat) /\ logtask_buf' \in Nat
         /\ Log!NoMessageWaits'
         /\ log_task' \in {"receives", "waits"} => logtask_buf' = 0
         /\ m \in ToSet(mbf') \/ m = logtask_buf'
         /\ ToSet(mbf) \subseteq ToSet(mbf')
         /\ logtask_buf # 0 => logtask_buf' = logtask_buf
<1>1. CASE log_task = "waits"
  BY <1>1 DEF LogTypes, Log!snd_mbf, Log!NoMessageWaits
<1>2. CASE log_task # "waits"
  <2>1. mbf' = Append(mbf, m) /\ log_task' = log_task /\ logtask_buf' = logtask_buf
    BY <1>2 DEF Log!snd_mbf, Log!taskvars
  <2>2. mbf' \in Seq(Nat) /\ ToSet(mbf') = ToSet(mbf) \cup {m}
    <3>1. mbf \in Seq(Nat) /\ m \in Nat
      BY DEF LogTypes
    <3> QED BY <2>1, <3>1, AppendEntries
  <2> QED BY <1>2, <2>1, <2>2 DEF LogTypes, Log!NoMessageWaits
<1> QED BY <1>1, <1>2

(* The steps of the log keep the invariant.                                *)
LEMMA LogTypesKept ==
  ASSUME LogTypes, Log!Next
  PROVE  LogTypes' /\ (log_task' # "ended" => log_task # "ended")
<1>n. made + 1 \in Nat /\ 0 \in Nat
  BY DEF LogTypes
<1>s. ASSUME NEW m \in Nat, Log!snd_mbf(m)
      PROVE  mbf' \in Seq(Nat) /\ logtask_buf' \in Nat /\ (log_task' # "ended" => log_task # "ended")
  <2>1. mbf \in Seq(Nat) /\ logtask_buf \in Nat
    BY DEF LogTypes
  <2>2. Append(mbf, m) \in Seq(Nat)
    BY <2>1
  <2> QED BY <1>s, <2>1, <2>2 DEF Log!snd_mbf, Log!taskvars
<1>w. ASSUME NEW m \in Nat, Log!sys_write(m)
      PROVE  output' \in Seq(Nat)
  BY <1>w DEF Log!sys_write, LogTypes
<1> USE DEF LogTypes
<1>1. ASSUME NEW s \in Caller, Log!syslog(s) PROVE LogTypes' /\ (log_task' # "ended" => log_task # "ended")
  BY <1>1, <1>n DEF Log!syslog, Log!taskvars, Log!Sender
<1>2. ASSUME NEW s \in Log!Sender, Log!SendStep(s)
      PROVE  LogTypes' /\ (log_task' # "ended" => log_task # "ended")
  <2>1. CASE Log!svc_syslog_send(s)
    BY <2>1 DEF Log!svc_syslog_send, Log!taskvars
  <2>2. CASE Log!svc_psnd_mbf(s)
    <3>1. CASE Log!snd_mbf(string[s]) /\ log_at' = [log_at EXCEPT ![s] = "asks_again"]
      BY <1>s, <2>2, <3>1 DEF Log!svc_psnd_mbf
    <3>2. CASE Log!no_room /\ log_at' = [log_at EXCEPT ![s] = "gives_up"] /\ UNCHANGED <<mbf, Log!taskvars>>
      BY <2>2, <3>2 DEF Log!svc_psnd_mbf, Log!taskvars
    <3> QED BY <2>2, <3>1, <3>2 DEF Log!svc_psnd_mbf
  <2>3. CASE Log!svc_give_up(s)
    BY <2>3 DEF Log!svc_give_up, Log!taskvars
  <2>4. CASE Log!svc_write_or_return(s)
    BY <2>4, <1>n DEF Log!svc_write_or_return, Log!taskvars, Log!NONE
  <2>5. CASE Log!svc_sys_write(s)
    BY <2>5, <1>n, <1>w DEF Log!svc_sys_write, Log!taskvars, Log!NONE
  <2> QED BY <1>2, <2>1, <2>2, <2>3, <2>4, <2>5 DEF Log!SendStep
<1>3. ASSUME NEW emergency \in BOOLEAN, Log!i_syslog(emergency)
      PROVE  LogTypes' /\ (log_task' # "ended" => log_task # "ended")
  <2>1. made' = made + 1 /\ log_at' = log_at /\ string' = string
    BY <1>3 DEF Log!i_syslog, Log!sendvars
  <2>2. CASE Log!snd_mbf(made + 1) /\ output' = output
    BY <1>n, <1>s, <2>1, <2>2
  <2>3. CASE Log!sys_write(made + 1) /\ UNCHANGED <<mbf, Log!taskvars>>
    BY <1>n, <1>w, <2>1, <2>3 DEF Log!taskvars
  <2> QED BY <1>3, <2>2, <2>3 DEF Log!i_syslog
<1>4. CASE Log!rcv_mbf
  BY <1>4, TailEntries DEF Log!rcv_mbf, Log!sendvars
<1>5. CASE Log!serial_write
  BY <1>5, <1>n, <1>w DEF Log!serial_write, Log!sendvars, Log!NONE
<1>6. CASE Log!log_task_released
  BY <1>6, <1>n DEF Log!log_task_released, Log!Sender
<1> QED BY <1>1, <1>2, <1>3, <1>4, <1>5, <1>6 DEF Log!Next, Log!LogTaskStep

(* And as long as the log task runs no message gets out of sight.          *)
LEMMA LogRunsKept ==
  ASSUME LogTypes, LogRuns, Log!Next, log_task' # "ended"
  PROVE  LogRuns'
<1> DEFINE Keeps == \A m \in Nat \ {0} : m \in placed => m \in placed'
<1>t. /\ made \in Nat /\ made + 1 \in Nat /\ made + 1 # 0 /\ logtask_buf \in Nat
      /\ mbf \in Seq(Nat) /\ output \in Seq(Nat)
      /\ string \in [Log!Sender -> Nat]
      /\ log_at \in [Log!Sender -> {"idle", "calls", "sends", "gives_up", "asks_again", "writes"}]
  BY DEF LogTypes
<1>r. /\ Log!NoMessageWaits
      /\ log_task \in {"receives", "waits"} => logtask_buf = 0
      /\ \A m \in 1 .. made : m \in placed \/ \E s \in Log!Sender : string[s] = m
      /\ \A s \in Log!Sender :
           /\ log_at[s] = "idle" <=> string[s] = 0
           /\ log_at[s] = "asks_again" /\ logtask_alive => string[s] \in placed
  BY DEF LogRuns
(* Steps that do not take a message along.                                 *)
<1>p. ASSUME UNCHANGED <<mbf, output, logtask_buf>> PROVE placed' = placed
  BY <1>p DEF placed
<1>s. ASSUME NEW m \in Nat \ {0}, Log!snd_mbf(m), UNCHANGED output
      PROVE  /\ Keeps /\ m \in placed' /\ Log!NoMessageWaits'
             /\ log_task' \in {"receives", "waits"} => logtask_buf' = 0
  BY <1>s, <1>r, SndPlaces DEF placed
<1>w. ASSUME NEW m \in Nat, Log!sys_write(m)
      PROVE  ToSet(output') = ToSet(output) \cup {m}
  BY <1>w, <1>t, AppendEntries DEF Log!sys_write
<1>1. ASSUME NEW s \in Caller, Log!syslog(s) PROVE LogRuns'
  <2>1. /\ log_at[s] = "idle" /\ made' = made + 1 /\ s \in Log!Sender
        /\ string' = [string EXCEPT ![s] = made + 1] /\ log_at' = [log_at EXCEPT ![s] = "calls"]
        /\ UNCHANGED <<logtask_alive, mbf, log_task, logtask_buf, output>>
    BY <1>1 DEF Log!syslog, Log!taskvars, Log!Sender
  <2>2. ASSUME NEW m \in 1 .. made' PROVE m \in placed' \/ \E u \in Log!Sender : string'[u] = m
    <3>1. CASE m = made + 1
      BY <1>t, <2>1, <3>1
    <3>2. CASE m # made + 1
      <4>1. m \in 1 .. made /\ m # 0
        BY <1>t, <2>1, <3>2
      <4>2. CASE \E u \in Log!Sender : string[u] = m
        BY <1>r, <1>t, <2>1, <4>1, <4>2
      <4> QED BY <1>p, <1>r, <2>1, <4>1, <4>2
    <3> QED BY <3>1, <3>2
  <2>3. ASSUME NEW u \in Log!Sender
        PROVE  /\ log_at'[u] = "idle" <=> string'[u] = 0
               /\ log_at'[u] = "asks_again" /\ logtask_alive' => string'[u] \in placed'
    BY <1>p, <1>r, <1>t, <2>1
  <2> QED BY <1>r, <2>1, <2>2, <2>3 DEF LogRuns, Log!NoMessageWaits
(* A sender goes on: its message is placed by now, or remains its own.     *)
<1>g. ASSUME NEW s \in Log!Sender, Keeps, made' = made, logtask_alive' => logtask_alive,
             string' = string \/ (string[s] \in placed' /\ string' = [string EXCEPT ![s] = 0]),
             NEW place \in {"idle", "sends", "gives_up", "asks_again", "writes"},
             log_at' = [log_at EXCEPT ![s] = place], log_at[s] # "idle",
             place = "idle" <=> string' # string,
             place = "asks_again" /\ logtask_alive' => string[s] \in placed'
      PROVE  /\ \A m \in 1 .. made' : m \in placed' \/ \E u \in Log!Sender : string'[u] = m
             /\ \A u \in Log!Sender :
                  /\ log_at'[u] = "idle" <=> string'[u] = 0
                  /\ log_at'[u] = "asks_again" /\ logtask_alive' => string'[u] \in placed'
  <2>1. string[s] # 0 /\ string[s] \in Nat
    BY <1>g, <1>r, <1>t
  <2>2. ASSUME NEW m \in 1 .. made' PROVE m \in placed' \/ \E u \in Log!Sender : string'[u] = m
    <3>1. m \in 1 .. made /\ m \in Nat \ {0}
      BY <1>g, <1>t
    <3>2. CASE m \in placed
      BY <1>g, <3>1, <3>2
    <3>3. ASSUME NEW u \in Log!Sender, string[u] = m PROVE m \in placed' \/ \E v \in Log!Sender : string'[v] = m
      BY <1>g, <1>t, <3>3
    <3> QED BY <1>r, <3>1, <3>2, <3>3
  <2>3. ASSUME NEW u \in Log!Sender
        PROVE  /\ log_at'[u] = "idle" <=> string'[u] = 0
               /\ log_at'[u] = "asks_again" /\ logtask_alive' => string'[u] \in placed'
    <3>1. CASE u = s
      <4>1. log_at'[s] = place
        BY <1>g, <1>t
      <4>2. CASE string' = string
        BY <1>g, <2>1, <3>1, <4>1, <4>2
      <4>3. CASE string' = [string EXCEPT ![s] = 0] /\ string' # string
        BY <1>g, <1>t, <3>1, <4>1, <4>3
      <4> QED BY <1>g, <4>2, <4>3
    <3>2. CASE u # s
      <4>1. log_at'[u] = log_at[u] /\ string'[u] = string[u]
        BY <1>g, <1>t, <3>2
      <4>2. CASE string[u] = 0
        BY <1>r, <4>1, <4>2
      <4>3. CASE string[u] # 0
        <5>1. string[u] \in Nat \ {0}
          BY <1>t, <4>3
        <5> QED BY <1>g, <1>r, <4>1, <5>1
      <4> QED BY <4>2, <4>3
    <3> QED BY <3>1, <3>2
  <2> QED BY <2>2, <2>3
<1>2. ASSUME NEW s \in Log!Sender, Log!SendStep(s) PROVE LogRuns'
  <2>0. /\ log_at[s] # "idle" => string[s] \in Nat \ {0}
        /\ UNCHANGED <<mbf, output, logtask_buf>> => Keeps
    BY <1>p, <1>r, <1>t
  <2>1. CASE Log!svc_syslog_send(s)
    <3>1. /\ log_at[s] = "calls" /\ UNCHANGED <<made, logtask_alive, mbf, logtask_buf, log_task, string, output>>
          /\ log_at' = [log_at EXCEPT ![s] = IF logtask_alive THEN "sends" ELSE "asks_again"]
      BY <2>1 DEF Log!svc_syslog_send, Log!taskvars
    <3>2. CASE logtask_alive
      BY <1>g, <1>r, <2>0, <3>1, <3>2 DEF LogRuns, Log!NoMessageWaits
    <3>3. CASE ~logtask_alive
      BY <1>g, <1>r, <2>0, <3>1, <3>3 DEF LogRuns, Log!NoMessageWaits
    <3> QED BY <3>2, <3>3
  <2>2. CASE Log!svc_psnd_mbf(s)
    <3>1. log_at[s] = "sends" /\ UNCHANGED <<made, logtask_alive, string, output>>
      BY <2>2 DEF Log!svc_psnd_mbf
    <3>2. CASE Log!snd_mbf(string[s]) /\ log_at' = [log_at EXCEPT ![s] = "asks_again"]
      <4>1. /\ Keeps /\ string[s] \in placed' /\ Log!NoMessageWaits'
            /\ log_task' \in {"receives", "waits"} => logtask_buf' = 0
        BY <1>s, <2>0, <3>1, <3>2
      <4> QED BY <1>g, <3>1, <3>2, <4>1 DEF LogRuns
    <3>3. CASE log_at' = [log_at EXCEPT ![s] = "gives_up"] /\ UNCHANGED <<mbf, log_task, logtask_buf>>
      BY <1>g, <1>r, <2>0, <3>1, <3>3 DEF LogRuns, Log!NoMessageWaits
    <3> QED BY <2>2, <3>2, <3>3 DEF Log!svc_psnd_mbf, Log!taskvars
  <2>3. CASE Log!svc_give_up(s)
    <3>1. /\ log_at[s] = "gives_up" /\ UNCHANGED <<made, mbf, logtask_buf, log_task, string, output>>
          /\ log_at' = [log_at EXCEPT ![s] = "asks_again"] /\ logtask_alive' = FALSE
      BY <2>3 DEF Log!svc_give_up, Log!taskvars
    <3> QED BY <1>g, <1>r, <2>0, <3>1 DEF LogRuns, Log!NoMessageWaits
  <2>4. CASE Log!svc_write_or_return(s)
    <3>1. /\ log_at[s] = "asks_again" /\ UNCHANGED <<made, logtask_alive, mbf, logtask_buf, log_task, output>>
          /\ log_at' = [log_at EXCEPT ![s] = IF logtask_alive THEN "idle" ELSE "writes"]
          /\ string' = IF logtask_alive THEN [string EXCEPT ![s] = 0] ELSE string
      BY <2>4 DEF Log!svc_write_or_return, Log!taskvars, Log!NONE
    <3>2. CASE logtask_alive
      <4>1. string[s] # 0 /\ string' # string /\ string[s] \in placed'
        BY <1>p, <1>r, <1>t, <3>1, <3>2
      <4> QED BY <1>g, <1>r, <2>0, <3>1, <3>2, <4>1 DEF LogRuns, Log!NoMessageWaits
    <3>3. CASE ~logtask_alive
      BY <1>g, <1>r, <2>0, <3>1, <3>3 DEF LogRuns, Log!NoMessageWaits
    <3> QED BY <3>2, <3>3
  <2>5. CASE Log!svc_sys_write(s)
    <3>1. /\ log_at[s] = "writes" /\ UNCHANGED <<made, logtask_alive, mbf, logtask_buf, log_task>>
          /\ log_at' = [log_at EXCEPT ![s] = "idle"] /\ string' = [string EXCEPT ![s] = 0]
          /\ Log!sys_write(string[s])
      BY <2>5 DEF Log!svc_sys_write, Log!taskvars, Log!NONE
    <3>2. Keeps /\ string[s] \in placed' /\ string[s] # 0 /\ string' # string
      BY <1>t, <1>w, <2>0, <3>1 DEF placed
    <3> QED BY <1>g, <1>r, <3>1, <3>2 DEF LogRuns, Log!NoMessageWaits
  <2> QED BY <1>2, <2>1, <2>2, <2>3, <2>4, <2>5 DEF Log!SendStep
<1>3. ASSUME NEW emergency \in BOOLEAN, Log!i_syslog(emergency) PROVE LogRuns'
  <2>1. made' = made + 1 /\ log_at' = log_at /\ string' = string
    BY <1>3 DEF Log!i_syslog, Log!sendvars
  <2>2. /\ Keeps /\ made' \in placed' /\ Log!NoMessageWaits' /\ (logtask_alive' => logtask_alive)
        /\ log_task' \in {"receives", "waits"} => logtask_buf' = 0
    <3>1. CASE Log!snd_mbf(made + 1) /\ UNCHANGED <<logtask_alive, output>>
      BY <1>s, <1>t, <2>1, <3>1
    <3>2. CASE Log!sys_write(made + 1) /\ UNCHANGED <<mbf, Log!taskvars>> /\ logtask_alive' = FALSE
      BY <1>r, <1>t, <1>w, <2>1, <3>2 DEF placed, Log!taskvars, Log!NoMessageWaits
    <3> QED BY <1>3, <3>1, <3>2 DEF Log!i_syslog
  <2>3. ASSUME NEW m \in 1 .. made' PROVE m \in placed' \/ \E u \in Log!Sender : string'[u] = m
    <3>1. m = made' \/ (m \in 1 .. made /\ m \in Nat \ {0})
      BY <1>t, <2>1
    <3> QED BY <1>r, <2>1, <2>2, <3>1
  <2>4. ASSUME NEW u \in Log!Sender
        PROVE  /\ log_at'[u] = "idle" <=> string'[u] = 0
               /\ log_at'[u] = "asks_again" /\ logtask_alive' => string'[u] \in placed'
    <3>1. string[u] \in Nat
      BY <1>t
    <3> QED BY <1>r, <2>1, <2>2, <3>1
  <2> QED BY <2>2, <2>3, <2>4 DEF LogRuns
(* The log task moves the messages on.                                     *)
<1>m. ASSUME Keeps, UNCHANGED <<made, log_at, string, logtask_alive>>
      PROVE  /\ \A m \in 1 .. made' : m \in placed' \/ \E u \in Log!Sender : string'[u] = m
             /\ \A u \in Log!Sender :
                  /\ log_at'[u] = "idle" <=> string'[u] = 0
                  /\ log_at'[u] = "asks_again" /\ logtask_alive' => string'[u] \in placed'
  <2>1. ASSUME NEW m \in 1 .. made PROVE m \in Nat \ {0}
    BY <1>t
  <2>2. ASSUME NEW u \in Log!Sender PROVE string[u] \in Nat
    BY <1>t
  <2> QED BY <1>m, <1>r, <2>1, <2>2
<1>4. CASE Log!rcv_mbf
  <2>1. log_task = "receives" /\ logtask_buf = 0 /\ UNCHANGED <<made, logtask_alive, log_at, string, output>>
    BY <1>4, <1>r DEF Log!rcv_mbf, Log!sendvars
  <2>2. CASE mbf = << >>
    <3>1. log_task' = "waits" /\ mbf' = mbf /\ logtask_buf' = logtask_buf
      BY <1>4, <2>2 DEF Log!rcv_mbf
    <3> QED BY <1>m, <1>p, <2>1, <2>2, <3>1 DEF LogRuns, Log!NoMessageWaits
  <2>3. CASE mbf # << >>
    <3>1. log_task' = "writes" /\ logtask_buf' = Head(mbf) /\ mbf' = Tail(mbf)
      BY <1>4, <2>3 DEF Log!rcv_mbf
    <3>2. ToSet(mbf) = {logtask_buf'} \cup ToSet(mbf')
      BY <1>t, <2>3, <3>1, TailEntries
    <3>3. Keeps
      BY <2>1, <3>2 DEF placed
    <3> QED BY <1>m, <2>1, <3>1, <3>3 DEF LogRuns, Log!NoMessageWaits
  <2> QED BY <2>2, <2>3
<1>5. CASE Log!serial_write
  <2>1. /\ log_task' = "receives" /\ logtask_buf' = 0 /\ Log!sys_write(logtask_buf)
        /\ UNCHANGED <<made, logtask_alive, log_at, string, mbf>>
    BY <1>5 DEF Log!serial_write, Log!sendvars, Log!NONE
  <2>2. Keeps
    BY <1>t, <1>w, <2>1 DEF placed
  <2> QED BY <1>m, <2>1, <2>2 DEF LogRuns, Log!NoMessageWaits
<1>6. CASE Log!log_task_released
  BY <1>6 DEF Log!log_task_released
<1> QED BY <1>1, <1>2, <1>3, <1>4, <1>5, <1>6 DEF Log!Next, Log!LogTaskStep

(* Messages are taken along by the two ways that there are.                *)
LEMMA SndBounds ==
  ASSUME DevicesAssumption, LogTypes, LogBounds, NEW last \in Nat, made <= last,
         NEW m \in 1 .. last, Log!snd_mbf(m)
  PROVE  /\ log_task' \in {"receives", "waits", "writes", "ended"}
         /\ Len(mbf') <= MBF_LOG /\ ToSet(mbf') \subseteq 1 .. last
         /\ logtask_buf' <= last /\ (log_task' = "writes" => logtask_buf' # 0)
<1>1. /\ mbf \in Seq(Nat) /\ made \in Nat /\ m \in Nat \ {0} /\ MBF_LOG \in Nat /\ Len(mbf) \in Nat
      /\ logtask_buf \in Nat /\ logtask_buf <= made /\ logtask_buf <= last
      /\ log_task \in {"receives", "waits", "writes", "ended"} /\ Len(mbf) <= MBF_LOG
      /\ ToSet(mbf) \subseteq 1 .. made /\ ToSet(mbf) \subseteq 1 .. last
      /\ log_task = "writes" => logtask_buf # 0
  BY DEF LogTypes, LogBounds, DevicesAssumption, Log!SystemLogAssumption
<1>2. CASE log_task = "waits"
  BY <1>1, <1>2 DEF Log!snd_mbf
<1>3. CASE log_task # "waits"
  <2>1. mbf' = Append(mbf, m) /\ UNCHANGED <<log_task, logtask_buf>> /\ Len(mbf) < MBF_LOG
    BY <1>3 DEF Log!snd_mbf, Log!taskvars
  <2>2. ToSet(mbf') = ToSet(mbf) \cup {m}
    <3>1. mbf \in Seq(Nat) /\ m \in Nat
      BY <1>1
    <3> QED BY <2>1, <3>1, AppendEntries
  <2>3. Len(mbf') <= MBF_LOG
    BY <1>1, <2>1
  <2> QED BY <1>1, <2>1, <2>2, <2>3
<1> QED BY <1>2, <1>3

(* What is written to the port has a number in use.                        *)
LEMMA WriteBounds ==
  ASSUME LogTypes, LogBounds, NEW last \in Nat, made <= last,
         NEW m \in 1 .. last, Log!sys_write(m)
  PROVE  ToSet(output') \subseteq 1 .. last
<1>1. output \in Seq(Nat) /\ made \in Nat /\ m \in Nat /\ ToSet(output) \subseteq 1 .. made
  BY DEF LogTypes, LogBounds
<1>2. ToSet(output') = ToSet(output) \cup {m}
  BY <1>1, AppendEntries DEF Log!sys_write
<1> QED BY <1>1, <1>2

(* The steps of the log keep the numbers.                                  *)
LEMMA LogBoundsKept ==
  ASSUME DevicesAssumption, LogTypes, LogBounds, Log!Next
  PROVE  LogBounds'
<1>t. /\ made \in Nat /\ made + 1 \in Nat /\ logtask_buf \in Nat /\ MESSAGES \in Nat
      /\ string \in [Log!Sender -> Nat] /\ mbf \in Seq(Nat)
      /\ log_at \in [Log!Sender -> {"idle", "calls", "sends", "gives_up", "asks_again", "writes"}]
  BY DEF LogTypes, DevicesAssumption, Log!SystemLogAssumption
<1>b. /\ made \in 0 .. MESSAGES
      /\ logtask_alive \in BOOLEAN
      /\ log_task \in {"receives", "waits", "writes", "ended"}
      /\ Len(mbf) <= MBF_LOG
      /\ ToSet(mbf) \subseteq 1 .. made /\ ToSet(output) \subseteq 1 .. made
      /\ logtask_buf <= made /\ (log_task = "writes" => logtask_buf # 0)
      /\ \A s \in Log!Sender : string[s] <= made /\ (log_at[s] = "idle" <=> string[s] = 0)
  BY DEF LogBounds
(* A message is made.                                                      *)
<1>m. ASSUME made' = made + 1, made < MESSAGES
      PROVE  /\ made' \in 0 .. MESSAGES /\ logtask_buf <= made' /\ made <= made'
             /\ \A s \in Log!Sender : string[s] <= made'
             /\ ToSet(mbf) \subseteq 1 .. made' /\ ToSet(output) \subseteq 1 .. made'
             /\ made' \in 1 .. made' /\ made' # 0 /\ made' \in Nat
  <2>1. \A n \in Nat : n <= made => n <= made'
    BY <1>m, <1>t
  <2>2. \A n \in 1 .. made : n \in 1 .. made'
    BY <1>m, <1>t
  <2>3. made' \in 0 .. MESSAGES /\ made <= made' /\ made' \in 1 .. made' /\ made' # 0
    BY <1>m, <1>t
  <2> QED BY <1>b, <1>t, <2>1, <2>2, <2>3
<1>1. ASSUME NEW s \in Log!Sender, made' = made + 1, made < MESSAGES,
             string' = [string EXCEPT ![s] = made + 1], log_at' = [log_at EXCEPT ![s] = "calls"],
             logtask_alive' \in BOOLEAN, log_task' \in {"receives", "waits", "writes", "ended"},
             log_task' = "writes" => log_task = "writes",
             UNCHANGED <<mbf, logtask_buf, output>>
      PROVE  LogBounds'
  <2>1. \A u \in Log!Sender : /\ string'[u] = IF u = s THEN made' ELSE string[u]
                              /\ log_at'[u] = IF u = s THEN "calls" ELSE log_at[u]
    BY <1>1, <1>t
  <2>2. \A u \in Log!Sender : string'[u] <= made' /\ (log_at'[u] = "idle" <=> string'[u] = 0)
    BY <1>b, <1>m, <1>1, <2>1
  <2> QED BY <1>b, <1>m, <1>1, <2>2 DEF LogBounds
<1>2. ASSUME NEW s \in Caller, Log!syslog(s) PROVE LogBounds'
  <2>1. /\ s \in Log!Sender /\ made' = made + 1 /\ made < MESSAGES
        /\ string' = [string EXCEPT ![s] = made + 1] /\ log_at' = [log_at EXCEPT ![s] = "calls"]
        /\ UNCHANGED <<logtask_alive, log_task, mbf, logtask_buf, output>>
    BY <1>2 DEF Log!syslog, Log!taskvars, Log!Sender
  <2> QED BY <1>b, <1>1, <2>1
<1>3. CASE Log!log_task_released
  <2>1. /\ "log_task" \in Log!Sender /\ made' = made + 1 /\ made < MESSAGES
        /\ string' = [string EXCEPT !["log_task"] = made + 1]
        /\ log_at' = [log_at EXCEPT !["log_task"] = "calls"]
        /\ logtask_alive' = FALSE /\ log_task' = "ended"
        /\ UNCHANGED <<mbf, logtask_buf, output>>
    BY <1>3 DEF Log!log_task_released, Log!Sender, Log!LOGGER
  <2> QED BY <1>1, <2>1
(* A sender goes on.                                                       *)
<1>g. ASSUME NEW s \in Log!Sender, log_at[s] # "idle",
             NEW place \in {"idle", "sends", "gives_up", "asks_again", "writes"},
             log_at' = [log_at EXCEPT ![s] = place], made' = made,
             string' = [string EXCEPT ![s] = IF place = "idle" THEN 0 ELSE string[s]]
      PROVE  \A u \in Log!Sender : string'[u] <= made' /\ (log_at'[u] = "idle" <=> string'[u] = 0)
  <2>1. \A u \in Log!Sender :
          /\ string'[u] = IF u = s /\ place = "idle" THEN 0 ELSE string[u]
          /\ log_at'[u] = IF u = s THEN place ELSE log_at[u]
    BY <1>g, <1>t
  <2> QED BY <1>b, <1>g, <1>t, <2>1
<1>4. ASSUME NEW s \in Log!Sender, Log!SendStep(s) PROVE LogBounds'
  <2>0. /\ log_at[s] # "idle" => string[s] \in 1 .. made
        /\ string = [string EXCEPT ![s] = string[s]]
    BY <1>b, <1>t
  <2>1. CASE Log!svc_syslog_send(s)
    <3>1. /\ log_at[s] = "calls" /\ UNCHANGED <<made, logtask_alive, mbf, logtask_buf, log_task, string, output>>
          /\ log_at' = [log_at EXCEPT ![s] = IF logtask_alive THEN "sends" ELSE "asks_again"]
      BY <2>1 DEF Log!svc_syslog_send, Log!taskvars
    <3>2. \A u \in Log!Sender : string'[u] <= made' /\ (log_at'[u] = "idle" <=> string'[u] = 0)
      <4>1. CASE logtask_alive
        BY <1>g, <2>0, <3>1, <4>1
      <4>2. CASE ~logtask_alive
        BY <1>g, <2>0, <3>1, <4>2
      <4> QED BY <4>1, <4>2
    <3> QED BY <1>b, <3>1, <3>2 DEF LogBounds
  <2>2. CASE Log!svc_psnd_mbf(s)
    <3>1. log_at[s] = "sends" /\ UNCHANGED <<made, logtask_alive, string, output>>
      BY <2>2 DEF Log!svc_psnd_mbf
    <3>2. CASE Log!snd_mbf(string[s]) /\ log_at' = [log_at EXCEPT ![s] = "asks_again"]
      <4>1. \A u \in Log!Sender : string'[u] <= made' /\ (log_at'[u] = "idle" <=> string'[u] = 0)
        BY <1>g, <2>0, <3>1, <3>2
      <4>2. /\ log_task' \in {"receives", "waits", "writes", "ended"}
            /\ Len(mbf') <= MBF_LOG /\ ToSet(mbf') \subseteq 1 .. made
            /\ logtask_buf' <= made /\ (log_task' = "writes" => logtask_buf' # 0)
        <5>1. made <= made
          BY <1>t
        <5> QED BY <1>t, <2>0, <3>1, <3>2, <5>1, SndBounds
      <4> QED BY <1>b, <3>1, <4>1, <4>2 DEF LogBounds
    <3>3. CASE log_at' = [log_at EXCEPT ![s] = "gives_up"] /\ UNCHANGED <<mbf, log_task, logtask_buf>>
      <4>1. \A u \in Log!Sender : string'[u] <= made' /\ (log_at'[u] = "idle" <=> string'[u] = 0)
        BY <1>g, <2>0, <3>1, <3>3
      <4> QED BY <1>b, <3>1, <3>3, <4>1 DEF LogBounds
    <3> QED BY <2>2, <3>2, <3>3 DEF Log!svc_psnd_mbf, Log!taskvars
  <2>3. CASE Log!svc_give_up(s)
    <3>1. /\ log_at[s] = "gives_up" /\ UNCHANGED <<made, mbf, logtask_buf, log_task, string, output>>
          /\ log_at' = [log_at EXCEPT ![s] = "asks_again"] /\ logtask_alive' = FALSE
      BY <2>3 DEF Log!svc_give_up, Log!taskvars
    <3>2. \A u \in Log!Sender : string'[u] <= made' /\ (log_at'[u] = "idle" <=> string'[u] = 0)
      BY <1>g, <2>0, <3>1
    <3> QED BY <1>b, <3>1, <3>2 DEF LogBounds
  <2>4. CASE Log!svc_write_or_return(s)
    <3>1. /\ log_at[s] = "asks_again" /\ UNCHANGED <<made, logtask_alive, mbf, logtask_buf, log_task, output>>
          /\ log_at' = [log_at EXCEPT ![s] = IF logtask_alive THEN "idle" ELSE "writes"]
          /\ string' = IF logtask_alive THEN [string EXCEPT ![s] = 0] ELSE string
      BY <2>4 DEF Log!svc_write_or_return, Log!taskvars, Log!NONE
    <3>2. \A u \in Log!Sender : string'[u] <= made' /\ (log_at'[u] = "idle" <=> string'[u] = 0)
      <4>1. CASE logtask_alive
        BY <1>g, <2>0, <3>1, <4>1
      <4>2. CASE ~logtask_alive
        BY <1>g, <2>0, <3>1, <4>2
      <4> QED BY <4>1, <4>2
    <3> QED BY <1>b, <3>1, <3>2 DEF LogBounds
  <2>5. CASE Log!svc_sys_write(s)
    <3>1. /\ log_at[s] = "writes" /\ UNCHANGED <<made, logtask_alive, mbf, logtask_buf, log_task>>
          /\ log_at' = [log_at EXCEPT ![s] = "idle"] /\ string' = [string EXCEPT ![s] = 0]
          /\ Log!sys_write(string[s])
      BY <2>5 DEF Log!svc_sys_write, Log!taskvars, Log!NONE
    <3>2. \A u \in Log!Sender : string'[u] <= made' /\ (log_at'[u] = "idle" <=> string'[u] = 0)
      BY <1>g, <2>0, <3>1
    <3>3. ToSet(output') \subseteq 1 .. made
      <4>1. made <= made
        BY <1>t
      <4> QED BY <1>t, <2>0, <3>1, <4>1, WriteBounds
    <3> QED BY <1>b, <3>1, <3>2, <3>3 DEF LogBounds
  <2> QED BY <1>4, <2>1, <2>2, <2>3, <2>4, <2>5 DEF Log!SendStep
<1>5. ASSUME NEW emergency \in BOOLEAN, Log!i_syslog(emergency) PROVE LogBounds'
  <2>1. made' = made + 1 /\ made < MESSAGES /\ log_at' = log_at /\ string' = string
    BY <1>5 DEF Log!i_syslog, Log!sendvars
  <2>2. CASE Log!snd_mbf(made + 1) /\ UNCHANGED <<logtask_alive, output>>
    <3>1. /\ log_task' \in {"receives", "waits", "writes", "ended"}
          /\ Len(mbf') <= MBF_LOG /\ ToSet(mbf') \subseteq 1 .. made + 1
          /\ logtask_buf' <= made + 1 /\ (log_task' = "writes" => logtask_buf' # 0)
      <4>1. made <= made + 1 /\ made + 1 \in 1 .. made + 1
        BY <1>t
      <4> QED BY <1>t, <2>2, <4>1, SndBounds
    <3> QED BY <1>b, <1>m, <2>1, <2>2, <3>1 DEF LogBounds
  <2>3. CASE Log!sys_write(made + 1) /\ UNCHANGED <<mbf, Log!taskvars>> /\ logtask_alive' = FALSE
    <3>1. ToSet(output') \subseteq 1 .. made + 1
      <4>1. made <= made + 1 /\ made + 1 \in 1 .. made + 1
        BY <1>t
      <4> QED BY <1>t, <2>3, <4>1, WriteBounds
    <3> QED BY <1>b, <1>m, <2>1, <2>3, <3>1 DEF LogBounds, Log!taskvars
  <2> QED BY <1>5, <2>2, <2>3 DEF Log!i_syslog
<1>6. CASE Log!rcv_mbf
  <2>1. log_task = "receives" /\ UNCHANGED <<made, logtask_alive, log_at, string, output>>
    BY <1>6 DEF Log!rcv_mbf, Log!sendvars
  <2>2. CASE mbf = << >>
    <3>1. log_task' = "waits" /\ mbf' = mbf /\ logtask_buf' = logtask_buf
      BY <1>6, <2>2 DEF Log!rcv_mbf
    <3> QED BY <1>b, <2>1, <3>1 DEF LogBounds
  <2>3. CASE mbf # << >>
    <3>1. log_task' = "writes" /\ logtask_buf' = Head(mbf) /\ mbf' = Tail(mbf)
      BY <1>6, <2>3 DEF Log!rcv_mbf
    <3>2. ToSet(mbf) = {logtask_buf'} \cup ToSet(mbf')
      BY <1>t, <2>3, <3>1, TailEntries
    <3>3. Len(mbf') = Len(mbf) - 1 /\ Len(mbf) \in Nat /\ MBF_LOG \in Nat
      BY <1>t, <2>3, <3>1 DEF DevicesAssumption, Log!SystemLogAssumption
    <3>4. logtask_buf' \in 1 .. made /\ ToSet(mbf') \subseteq 1 .. made
      BY <1>b, <3>2
    <3>5. Len(mbf') <= MBF_LOG /\ logtask_buf' <= made /\ logtask_buf' # 0
      BY <1>b, <1>t, <3>3, <3>4
    <3> QED BY <1>b, <2>1, <3>1, <3>4, <3>5 DEF LogBounds
  <2> QED BY <2>2, <2>3
<1>7. CASE Log!serial_write
  <2>1. /\ log_task = "writes" /\ log_task' = "receives" /\ logtask_buf' = 0
        /\ Log!sys_write(logtask_buf)
        /\ UNCHANGED <<made, logtask_alive, log_at, string, mbf>>
    BY <1>7 DEF Log!serial_write, Log!sendvars, Log!NONE
  <2>2. ToSet(output') \subseteq 1 .. made
    <3>1. made <= made /\ logtask_buf \in 1 .. made
      BY <1>b, <1>t, <2>1
    <3> QED BY <1>t, <2>1, <3>1, WriteBounds
  <2>3. 0 <= made
    BY <1>t
  <2> QED BY <1>b, <2>1, <2>2, <2>3 DEF LogBounds
<1> QED BY <1>2, <1>3, <1>4, <1>5, <1>6, <1>7 DEF Log!Next, Log!LogTaskStep

(* What the module promises follows.                                       *)
LEMMA LogSays ==
  ASSUME DevicesAssumption, LogInv
  PROVE  LogComplete
<1>1. \A s : Log!ToSet(s) = ToSet(s)
  BY DEF Log!ToSet, ToSet
<1>2. ASSUME part = "system_log", log_task # "ended"
      PROVE  Log!NothingLost /\ Log!NoMessageWaits
  <2>1. LogRuns
    BY <1>2 DEF LogInv
  <2> QED BY <1>1, <2>1 DEF LogRuns, placed, Log!NothingLost
<1>3. log_task = "ended" => Log!NothingLost /\ Log!NoMessageWaits
  BY DEF Log!NothingLost, Log!NoMessageWaits
<1>4. ASSUME part = "system_log" PROVE Log!LogTypeOK
  <2>1. LogTypes /\ LogBounds
    BY <1>4 DEF LogInv
  <2>2. logtask_buf \in 0 .. made /\ string \in [Log!Sender -> 0 .. made]
    BY <2>1 DEF LogTypes, LogBounds
  <2> QED BY <1>1, <2>1, <2>2 DEF LogTypes, LogBounds, Log!LogTypeOK
<1> QED BY <1>2, <1>3, <1>4 DEF LogComplete

(* The log begins with nothing.                                            *)
LEMMA LogStart ==
  ASSUME DevicesAssumption, Log!Init
  PROVE  LogTypes /\ LogBounds /\ LogRuns
<1>1. << >> \in Seq(Nat) /\ ToSet(<< >>) = {} /\ 1 .. 0 = {} /\ Len(<< >>) = 0
  BY DEF ToSet
<1>2. LogTypes /\ LogRuns
  BY <1>1 DEF Log!Init, LogTypes, LogRuns, Log!NoMessageWaits, Log!NONE
<1>3. MESSAGES \in Nat /\ MBF_LOG \in Nat
  BY DEF DevicesAssumption, Log!SystemLogAssumption
<1>4. LogBounds
  BY <1>1, <1>3 DEF Log!Init, LogBounds, Log!NONE
<1> QED BY <1>2, <1>4

(***************************************************************************)
(* 2. Blocking calls on files.  The assumption that calls may name the     *)
(* task itself is needed: without it a call that gets its result at once   *)
(* would sleep for ever.                                                   *)
(***************************************************************************)
FilesTypes ==
  /\ ready \in [File -> Nat]
  /\ sigio_task \in {"sleeps", "waits", "walks"}
  /\ q \in Nat \ {0}
  /\ sem \in {0, 1}
  /\ nb_at \in [FileTask -> Files!Places]
  /\ args \in [FileTask -> File]
  /\ result \in [FileTask -> {"none", "own_try", "callback"}]
  /\ wupcnt \in [FileTask -> Nat]

(* The semaphore has a unit, or one of those that use the queue has it;    *)
(* and who waits for it waits while it has none.                           *)
SemHeld ==
  /\ sem = 0 <=> sigio_task = "walks" \/ \E t \in FileTask : nb_at[t] = "has_sem"
  /\ \A t \in FileTask : nb_at[t] = "has_sem" =>
       sigio_task # "walks" /\ \A u \in FileTask : nb_at[u] = "has_sem" => u = t
  /\ sem_queue \in Queue(FileTask \cup {"bsd_sigio"})
  /\ \A t \in FileTask : t \in ToSet(sem_queue) <=> nb_at[t] = "waits"
  /\ "bsd_sigio" \in ToSet(sem_queue) <=> sigio_task = "waits"
  /\ sem_queue # << >> => sem = 0

(* The tasks whose result came with a wakeup: wup_tsk does nothing where   *)
(* it is refused.                                                          *)
Woken(res) == res = "callback" \/ (res = "own_try" /\ ~CHK_SELF)

(* A block is in the queue from the time it is put in until its call has a *)
(* result; a task that was woken before it sleeps finds its wakeup.        *)
CallsRun ==
  /\ sigio_queue \in Queue(FileTask)
  /\ \A t \in FileTask :
       /\ t \in ToSet(sigio_queue) <=> nb_at[t] \in {"sleeps", "asleep"} /\ result[t] = "none"
       /\ nb_at[t] \in {"tries", "enqueues", "waits", "has_sem"} => result[t] = "none"
       /\ nb_at[t] = "asleep" => ~Woken(result[t])
       /\ nb_at[t] = "returns" => result[t] # "none"
       /\ wupcnt[t] = IF nb_at[t] = "sleeps" /\ Woken(result[t]) THEN 1 ELSE 0

(* How far the bounds go.                                                  *)
FilesBounds ==
  /\ ready \in [File -> 0 .. READY]
  /\ nb_sigio \in BOOLEAN
  /\ q \in 1 .. Cardinality(FileTask) + 1

FilesInv == part = "nonblocking_io" => FilesTypes /\ FilesBounds /\ SemHeld /\ CallsRun

(* The name of the task of bsd_sigio.c.                                    *)
LEMMA FilesConstants ==
  ASSUME DevicesAssumption
  PROVE  "bsd_sigio" \notin FileTask /\ IsFiniteSet(FileTask)
<1>1. "bsd_sigio" \notin FileTask
  BY Zenon DEF DevicesAssumption, Files!NonblockingAssumption, Files!SIGIO_TASK
<1>2. Files!IsFiniteSet(FileTask)
  BY Zenon DEF DevicesAssumption, Files!NonblockingAssumption
<1>3. IsFiniteSet(FileTask)
  BY <1>2 DEF Files!IsFiniteSet, IsFiniteSet
<1> QED BY <1>1, <1>3

(* An entry of a queue that is taken out by its place.                     *)
LEMMA QueueRemoveAt ==
  ASSUME NEW S, NEW s \in Queue(S), NEW i \in 1 .. Len(s)
  PROVE  /\ RemoveAt(s, i) \in Queue(S) /\ s[i] \in S /\ s[i] \in ToSet(s)
         /\ ToSet(RemoveAt(s, i)) = ToSet(s) \ {s[i]}
<1>1. /\ s \in Seq(S) /\ \A j, k \in 1 .. Len(s) : s[j] = s[k] => j = k
      /\ s[i] \in ToSet(s)
  BY QueueEntries
<1>2. PICK j \in 1 .. Len(s) : s[j] = s[i] /\ queue_delete(s, s[i]) = RemoveAt(s, j)
  BY <1>1, QueueDeleteAt
<1>3. j = i
  BY <1>1, <1>2
<1> QED BY <1>1, <1>2, <1>3, QueueDelete

(* The semaphore is given back by the task of bsd_sigio.c or by the task   *)
(* that has it, and whoever waits first is given it.                       *)
LEMMA HandsOn ==
  ASSUME DevicesAssumption, FilesTypes, SemHeld, sem = 0,
         NEW place \in [FileTask -> Files!Places], NEW walks \in {"sleeps", "waits"},
         \A t \in FileTask : place[t] # "has_sem" /\ (place[t] = "waits" <=> nb_at[t] = "waits"),
         walks = "waits" <=> sigio_task = "waits",
         Files!sig_sem, nb_at' = Files!handed_on(place), sigio_task' = Files!next_sigio_task(walks)
  PROVE  /\ SemHeld' /\ nb_at' \in [FileTask -> Files!Places]
         /\ sigio_task' \in {"sleeps", "waits", "walks"} /\ sem' \in {0, 1}
         /\ \A t \in FileTask :
              nb_at'[t] = place[t] \/ (place[t] = "waits" /\ nb_at'[t] = "has_sem")
<1>c. "bsd_sigio" \notin FileTask
  BY FilesConstants
<1>s. /\ sem_queue \in Queue(FileTask \cup {"bsd_sigio"})
      /\ \A t \in FileTask : t \in ToSet(sem_queue) <=> nb_at[t] = "waits"
      /\ "bsd_sigio" \in ToSet(sem_queue) <=> sigio_task = "waits"
  BY DEF SemHeld
<1>1. CASE sem_queue = << >>
  <2>1. /\ sem' = 1 /\ sem_queue' = << >> /\ nb_at' = place /\ sigio_task' = walks
    BY <1>1 DEF Files!sig_sem, Files!handed_on, Files!next_sigio_task
  <2>2. sigio_task' # "walks" /\ \A t \in FileTask : nb_at'[t] # "has_sem"
    BY <2>1
  <2>3. \A t \in FileTask : t \in ToSet(sem_queue') <=> nb_at'[t] = "waits"
    BY <1>1, <1>s, <2>1
  <2>4. "bsd_sigio" \in ToSet(sem_queue') <=> sigio_task' = "waits"
    BY <1>1, <1>s, <2>1
  <2>5. sem_queue' \in Queue(FileTask \cup {"bsd_sigio"})
    BY <1>1, <1>s, <2>1
  <2> QED BY <2>1, <2>2, <2>3, <2>4, <2>5 DEF SemHeld
<1>2. CASE sem_queue # << >>
  <2> DEFINE h == Head(sem_queue)
  <2>1. /\ Tail(sem_queue) \in Queue(FileTask \cup {"bsd_sigio"}) /\ h \in ToSet(sem_queue)
        /\ ToSet(Tail(sem_queue)) = ToSet(sem_queue) \ {h}
    BY <1>s, <1>2, QueueTail
  <2>2. h \in FileTask \cup {"bsd_sigio"}
    BY <1>s, <2>1, QueueEntries, QueueTail DEF ToSet
  <2>3. /\ sem_queue' = Tail(sem_queue) /\ sem' = 0
        /\ nb_at' = IF h # "bsd_sigio" THEN [place EXCEPT ![h] = "has_sem"] ELSE place
        /\ sigio_task' = IF h = "bsd_sigio" THEN "walks" ELSE walks
    BY <1>2 DEF Files!sig_sem, Files!handed_on, Files!next_sigio_task, Files!SIGIO_TASK
  <2> HIDE DEF h
  <2>4. CASE h = "bsd_sigio"
    <3>1. nb_at' = place /\ sigio_task' = "walks"
      BY <2>3, <2>4
    <3>2. \A t \in FileTask : t \in ToSet(sem_queue') <=> nb_at'[t] = "waits"
      BY <1>c, <1>s, <2>1, <2>3, <2>4, <3>1
    <3>3. "bsd_sigio" \notin ToSet(sem_queue')
      BY <2>1, <2>3, <2>4
    <3> QED BY <2>1, <2>3, <3>1, <3>2, <3>3 DEF SemHeld
  <2>5. CASE h \in FileTask
    <3>1. /\ nb_at' = [place EXCEPT ![h] = "has_sem"] /\ sigio_task' = walks /\ place[h] = "waits"
      BY <1>c, <1>s, <2>1, <2>3, <2>5
    <3>2. \A t \in FileTask : nb_at'[t] = IF t = h THEN "has_sem" ELSE place[t]
      BY <3>1
    <3>3. \A t \in FileTask : t \in ToSet(sem_queue') <=> nb_at'[t] = "waits"
      BY <1>s, <2>1, <2>3, <3>2
    <3>4. "bsd_sigio" \in ToSet(sem_queue') <=> sigio_task' = "waits"
      BY <1>c, <1>s, <2>1, <2>3, <2>5, <3>1
    <3>5. \A t \in FileTask : nb_at'[t] = "has_sem" <=> t = h
      BY <3>2
    <3>6. nb_at' \in [FileTask -> Files!Places]
      BY <2>5, <3>1 DEF Files!Places
    <3> QED BY <2>1, <2>3, <2>5, <3>1, <3>2, <3>3, <3>4, <3>5, <3>6 DEF SemHeld
  <2> QED BY <2>2, <2>4, <2>5
<1> QED BY <1>1, <1>2

(* The steps that do not touch the semaphore.                              *)
LEMMA SemKept ==
  ASSUME SemHeld, UNCHANGED <<sem, sem_queue, sigio_task>>,
         \A t \in FileTask : nb_at'[t] = nb_at[t]
           \/ (nb_at[t] \notin {"has_sem", "waits"} /\ nb_at'[t] \notin {"has_sem", "waits"})
  PROVE  SemHeld'
<1>1. \A t \in FileTask : /\ nb_at'[t] = "has_sem" <=> nb_at[t] = "has_sem"
                          /\ nb_at'[t] = "waits" <=> nb_at[t] = "waits"
  OBVIOUS
<1> QED BY <1>1 DEF SemHeld

(* The steps of a task in its call.                                        *)
LEMMA TaskStepKeeps ==
  ASSUME DevicesAssumption, FilesTypes, SemHeld, CallsRun,
         NEW t \in FileTask, Files!TaskStep(t)
  PROVE  FilesTypes' /\ SemHeld' /\ CallsRun'
<1>t. /\ ready \in [File -> Nat] /\ sigio_task \in {"sleeps", "waits", "walks"}
      /\ q \in Nat \ {0} /\ sem \in {0, 1}
      /\ nb_at \in [FileTask -> Files!Places] /\ args \in [FileTask -> File]
      /\ result \in [FileTask -> {"none", "own_try", "callback"}] /\ wupcnt \in [FileTask -> Nat]
  BY DEF FilesTypes
<1>r. /\ sigio_queue \in Queue(FileTask)
      /\ \A u \in FileTask :
           /\ u \in ToSet(sigio_queue) <=> nb_at[u] \in {"sleeps", "asleep"} /\ result[u] = "none"
           /\ nb_at[u] \in {"tries", "enqueues", "waits", "has_sem"} => result[u] = "none"
           /\ nb_at[u] = "asleep" => ~Woken(result[u])
           /\ nb_at[u] = "returns" => result[u] # "none"
           /\ wupcnt[u] = IF nb_at[u] = "sleeps" /\ Woken(result[u]) THEN 1 ELSE 0
  BY DEF CallsRun
<1>s. sigio_task # "walks"
  BY DEF Files!TaskStep, Files!nb_call, Files!nb_try, Files!enqueue_wai_sem,
         Files!enqueue_sigioeb, Files!nb_slp_tsk, Files!nb_return, Files!others_run
<1>1. CASE Files!nb_call(t)
  <2>1. /\ nb_at[t] = "idle" /\ nb_at' = [nb_at EXCEPT ![t] = "tries"]
        /\ result' = [result EXCEPT ![t] = "none"]
        /\ UNCHANGED <<ready, sigio_task, q, sigio_queue, sem, sem_queue, wupcnt>>
    BY <1>1 DEF Files!nb_call, Files!sigiovars, Files!queuevars
  <2>2. args' \in [FileTask -> File]
    BY <1>1, <1>t DEF Files!nb_call
  <2>3. SemHeld'
    BY <1>t, <2>1, SemKept
  <2>4. CallsRun'
    BY <1>r, <1>t, <2>1 DEF CallsRun, Woken
  <2> QED BY <1>t, <2>1, <2>2, <2>3, <2>4 DEF FilesTypes, Files!Places
<1>2. CASE Files!nb_try(t)
  <2>0. nb_at[t] = "tries" /\ UNCHANGED <<sigio_task, q, sigio_queue, sem, sem_queue, args>>
    BY <1>2 DEF Files!nb_try, Files!sigiovars, Files!queuevars
  <2>1. CASE Files!nb_callback(t, TRUE)
    <3>1. /\ nb_at' = [nb_at EXCEPT ![t] = "sleeps"]
          /\ result' = [result EXCEPT ![t] = "own_try"]
          /\ wupcnt' = IF CHK_SELF THEN wupcnt ELSE [wupcnt EXCEPT ![t] = @ + 1]
      BY <2>1 DEF Files!nb_callback
    <3>w. wupcnt[t] = 0 /\ wupcnt' \in [FileTask -> Nat]
      BY <1>r, <1>t, <2>0, <3>1
    <3>2. ready' \in [File -> Nat]
      BY <1>t, <2>1 DEF Files!nb_callback
    <3>3. SemHeld'
      BY <1>t, <2>0, <3>1, SemKept
    <3>4. CallsRun'
      BY <1>r, <1>t, <2>0, <3>1, <3>w DEF CallsRun, Woken
    <3> QED BY <1>t, <2>0, <3>1, <3>2, <3>3, <3>4, <3>w DEF FilesTypes, Files!Places
  <2>2. CASE nb_at' = [nb_at EXCEPT ![t] = "enqueues"] /\ UNCHANGED <<ready, result, wupcnt>>
    <3>3. SemHeld'
      BY <1>t, <2>0, <2>2, SemKept
    <3>4. CallsRun'
      BY <1>r, <1>t, <2>0, <2>2 DEF CallsRun
    <3> QED BY <1>t, <2>0, <2>2, <3>3, <3>4 DEF FilesTypes, Files!Places
  <2> QED BY <1>2, <2>1, <2>2 DEF Files!nb_try
<1>3. CASE Files!enqueue_wai_sem(t)
  <2>0. /\ nb_at[t] = "enqueues"
        /\ UNCHANGED <<ready, sigio_task, q, sigio_queue, args, result, wupcnt>>
    BY <1>3 DEF Files!enqueue_wai_sem, Files!sigiovars
  <2>1. /\ sem = 0 <=> \E u \in FileTask : nb_at[u] = "has_sem"
        /\ \A u \in FileTask : nb_at[u] = "has_sem" => \A v \in FileTask : nb_at[v] = "has_sem" => u = v
        /\ sem_queue \in Queue(FileTask \cup {"bsd_sigio"})
        /\ \A u \in FileTask : u \in ToSet(sem_queue) <=> nb_at[u] = "waits"
        /\ "bsd_sigio" \in ToSet(sem_queue) <=> sigio_task = "waits"
        /\ sem_queue # << >> => sem = 0
    BY <1>s DEF SemHeld
  <2>2. CASE sem > 0
    <3>1. sem' = 0 /\ sem = 1 /\ nb_at' = [nb_at EXCEPT ![t] = "has_sem"] /\ sem_queue' = sem_queue
      BY <1>3, <1>t, <2>2 DEF Files!enqueue_wai_sem
    <3>2. \A u \in FileTask : nb_at'[u] = IF u = t THEN "has_sem" ELSE nb_at[u]
      BY <1>t, <3>1
    <3>3. \A u \in FileTask : nb_at'[u] = "has_sem" <=> u = t
      BY <2>1, <3>1, <3>2
    <3>4. SemHeld'
      BY <1>s, <2>0, <2>1, <3>1, <3>2, <3>3 DEF SemHeld
    <3>5. CallsRun'
      BY <1>r, <1>t, <2>0, <3>2 DEF CallsRun
    <3> QED BY <1>t, <2>0, <3>1, <3>4, <3>5 DEF FilesTypes, Files!Places
  <2>3. CASE ~(sem > 0)
    <3>1. /\ sem' = sem /\ sem = 0 /\ nb_at' = [nb_at EXCEPT ![t] = "waits"]
          /\ sem_queue' = Append(sem_queue, t)
      BY <1>3, <1>t, <2>3 DEF Files!enqueue_wai_sem
    <3>2. \A u \in FileTask : nb_at'[u] = IF u = t THEN "waits" ELSE nb_at[u]
      BY <1>t, <3>1
    <3>3. t \in (FileTask \cup {"bsd_sigio"}) \ ToSet(sem_queue) /\ t # "bsd_sigio"
      BY <2>0, <2>1, FilesConstants
    <3>4. /\ sem_queue' \in Queue(FileTask \cup {"bsd_sigio"})
          /\ ToSet(sem_queue') = ToSet(sem_queue) \cup {t}
      BY <2>1, <3>1, <3>3, QueueAppend
    <3>5. \A u \in FileTask : nb_at'[u] = "has_sem" <=> nb_at[u] = "has_sem"
      BY <2>0, <3>2
    <3>6. SemHeld'
      BY <1>s, <2>0, <2>1, <3>1, <3>2, <3>3, <3>4, <3>5 DEF SemHeld
    <3>7. CallsRun'
      BY <1>r, <1>t, <2>0, <3>2 DEF CallsRun
    <3> QED BY <1>t, <2>0, <3>1, <3>6, <3>7 DEF FilesTypes, Files!Places
  <2> QED BY <2>2, <2>3
<1>4. CASE Files!enqueue_sigioeb(t)
  <2> DEFINE place == [nb_at EXCEPT ![t] = "sleeps"]
  <2>1. /\ nb_at[t] = "has_sem" /\ sigio_queue' = Append(sigio_queue, t) /\ Files!sig_sem
        /\ nb_at' = Files!handed_on(place) /\ sigio_task' = Files!next_sigio_task(sigio_task)
        /\ UNCHANGED <<ready, q, args, result, wupcnt>>
    BY <1>4 DEF Files!enqueue_sigioeb
  <2>2. /\ sem = 0 /\ place \in [FileTask -> Files!Places]
        /\ \A u \in FileTask : place[u] = IF u = t THEN "sleeps" ELSE nb_at[u]
        /\ \A u \in FileTask : place[u] # "has_sem" /\ (place[u] = "waits" <=> nb_at[u] = "waits")
    BY <1>t, <2>1 DEF SemHeld, Files!Places
  <2>3. sigio_task \in {"sleeps", "waits"}
    BY <1>s, <1>t
  <2> HIDE DEF place
  <2>4. /\ SemHeld' /\ nb_at' \in [FileTask -> Files!Places]
        /\ sigio_task' \in {"sleeps", "waits", "walks"} /\ sem' \in {0, 1}
        /\ \A u \in FileTask :
             nb_at'[u] = place[u] \/ (place[u] = "waits" /\ nb_at'[u] = "has_sem")
    BY <2>1, <2>2, <2>3, HandsOn
  <2>5. /\ sigio_queue' \in Queue(FileTask)
        /\ ToSet(sigio_queue') = ToSet(sigio_queue) \cup {t}
    <3>1. t \in FileTask \ ToSet(sigio_queue)
      BY <1>r, <2>1
    <3> QED BY <1>r, <2>1, <3>1, QueueAppend
  <2>6. CallsRun'
    <3>1. ASSUME NEW u \in FileTask
          PROVE  /\ u \in ToSet(sigio_queue') <=> nb_at'[u] \in {"sleeps", "asleep"} /\ result[u] = "none"
                 /\ nb_at'[u] \in {"tries", "enqueues", "waits", "has_sem"} => result[u] = "none"
                 /\ nb_at'[u] = "asleep" => ~Woken(result[u])
                 /\ nb_at'[u] = "returns" => result[u] # "none"
                 /\ wupcnt[u] = IF nb_at'[u] = "sleeps" /\ Woken(result[u]) THEN 1 ELSE 0
      <4>1. CASE u = t
        <5>1. nb_at'[u] = "sleeps" /\ result[u] = "none" /\ wupcnt[u] = 0 /\ ~Woken(result[u])
          BY <1>r, <2>1, <2>2, <2>4, <4>1 DEF Woken
        <5> QED BY <2>5, <4>1, <5>1
      <4>2. CASE u # t
        <5>1. nb_at'[u] = nb_at[u] \/ (nb_at[u] = "waits" /\ nb_at'[u] = "has_sem")
          BY <2>2, <2>4, <4>2
        <5>2. u \in ToSet(sigio_queue') <=> u \in ToSet(sigio_queue)
          BY <2>5, <4>2
        <5> QED BY <1>r, <5>1, <5>2
      <4> QED BY <4>1, <4>2
    <3> QED BY <2>1, <2>5, <3>1 DEF CallsRun
  <2> QED BY <1>t, <2>1, <2>4, <2>6 DEF FilesTypes
<1>5. CASE Files!nb_slp_tsk(t)
  <2>0. /\ nb_at[t] = "sleeps"
        /\ UNCHANGED <<ready, sigio_task, q, sigio_queue, sem, sem_queue, args, result>>
    BY <1>5 DEF Files!nb_slp_tsk, Files!sigiovars, Files!queuevars
  <2>1. CASE wupcnt[t] > 0
    <3>1. nb_at' = [nb_at EXCEPT ![t] = "returns"] /\ wupcnt' = [wupcnt EXCEPT ![t] = @ - 1]
      BY <1>5, <2>1 DEF Files!nb_slp_tsk
    <3>2. result[t] # "none" /\ wupcnt[t] = 1
      BY <1>r, <2>0, <2>1 DEF Woken
    <3>3. SemHeld'
      BY <1>t, <2>0, <3>1, SemKept
    <3>4. \A u \in FileTask : /\ nb_at'[u] = IF u = t THEN "returns" ELSE nb_at[u]
                              /\ wupcnt'[u] = IF u = t THEN 0 ELSE wupcnt[u]
      BY <1>t, <3>1, <3>2
    <3>5. CallsRun'
      BY <1>r, <2>0, <3>2, <3>4 DEF CallsRun
    <3>6. wupcnt' \in [FileTask -> Nat]
      BY <1>t, <3>1, <3>2
    <3> QED BY <1>t, <2>0, <3>1, <3>3, <3>5, <3>6 DEF FilesTypes, Files!Places
  <2>2. CASE ~(wupcnt[t] > 0)
    <3>1. nb_at' = [nb_at EXCEPT ![t] = "asleep"] /\ wupcnt' = wupcnt
      BY <1>5, <2>2 DEF Files!nb_slp_tsk
    <3>2. ~Woken(result[t]) /\ wupcnt[t] = 0
      BY <1>r, <2>0, <2>2
    <3>3. SemHeld'
      BY <1>t, <2>0, <3>1, SemKept
    <3>4. CallsRun'
      BY <1>r, <1>t, <2>0, <3>1, <3>2 DEF CallsRun
    <3> QED BY <1>t, <2>0, <3>1, <3>3, <3>4 DEF FilesTypes, Files!Places
  <2> QED BY <2>1, <2>2
<1>6. CASE Files!nb_return(t)
  <2>1. /\ nb_at[t] = "returns" /\ nb_at' = [nb_at EXCEPT ![t] = "idle"]
        /\ UNCHANGED <<ready, sigio_task, q, sigio_queue, sem, sem_queue, args, result, wupcnt>>
    BY <1>6 DEF Files!nb_return, Files!sigiovars, Files!queuevars
  <2>2. SemHeld'
    BY <1>t, <2>1, SemKept
  <2>3. CallsRun'
    BY <1>r, <1>t, <2>1 DEF CallsRun
  <2> QED BY <1>t, <2>1, <2>2, <2>3 DEF FilesTypes, Files!Places
<1> QED BY <1>1, <1>2, <1>3, <1>4, <1>5, <1>6 DEF Files!TaskStep

(* The steps of the task of bsd_sigio.c.                                   *)
LEMMA SigioStepKeeps ==
  ASSUME DevicesAssumption, FilesTypes, SemHeld, CallsRun, Files!SigioStep
  PROVE  FilesTypes' /\ SemHeld' /\ CallsRun'
<1>t. /\ ready \in [File -> Nat] /\ sigio_task \in {"sleeps", "waits", "walks"}
      /\ q \in Nat \ {0} /\ sem \in {0, 1}
      /\ nb_at \in [FileTask -> Files!Places] /\ args \in [FileTask -> File]
      /\ result \in [FileTask -> {"none", "own_try", "callback"}] /\ wupcnt \in [FileTask -> Nat]
  BY DEF FilesTypes
<1>r. /\ sigio_queue \in Queue(FileTask)
      /\ \A u \in FileTask :
           /\ u \in ToSet(sigio_queue) <=> nb_at[u] \in {"sleeps", "asleep"} /\ result[u] = "none"
           /\ nb_at[u] \in {"tries", "enqueues", "waits", "has_sem"} => result[u] = "none"
           /\ nb_at[u] = "asleep" => ~Woken(result[u])
           /\ nb_at[u] = "returns" => result[u] # "none"
           /\ wupcnt[u] = IF nb_at[u] = "sleeps" /\ Woken(result[u]) THEN 1 ELSE 0
  BY DEF CallsRun
<1>c. "bsd_sigio" \notin FileTask
  BY FilesConstants
<1>1. CASE Files!bsd_sigio_task
  <2>0. /\ sigio_task = "sleeps" /\ q' = 1
        /\ UNCHANGED <<ready, sigio_queue, nb_at, args, result, wupcnt>>
    BY <1>1 DEF Files!bsd_sigio_task, Files!taskvars
  <2>1. CallsRun'
    BY <2>0 DEF CallsRun
  <2>2. CASE sem > 0
    <3>1. sem = 1 /\ sem' = 0 /\ sigio_task' = "walks" /\ sem_queue' = sem_queue
      BY <1>1, <1>t, <2>2 DEF Files!bsd_sigio_task
    <3>2. SemHeld'
      BY <2>0, <3>1 DEF SemHeld
    <3> QED BY <1>t, <2>0, <2>1, <3>1, <3>2 DEF FilesTypes
  <2>3. CASE ~(sem > 0)
    <3>1. /\ sem = 0 /\ sem' = sem /\ sigio_task' = "waits"
          /\ sem_queue' = Append(sem_queue, "bsd_sigio")
      BY <1>1, <1>t, <2>3 DEF Files!bsd_sigio_task, Files!SIGIO_TASK
    <3>2. /\ sem_queue' \in Queue(FileTask \cup {"bsd_sigio"})
          /\ ToSet(sem_queue') = ToSet(sem_queue) \cup {"bsd_sigio"}
      <4>1. /\ sem_queue \in Queue(FileTask \cup {"bsd_sigio"})
            /\ "bsd_sigio" \in (FileTask \cup {"bsd_sigio"}) \ ToSet(sem_queue)
        BY <2>0 DEF SemHeld
      <4> QED BY <3>1, <4>1, QueueAppend
    <3>3. SemHeld'
      BY <1>c, <2>0, <3>1, <3>2 DEF SemHeld
    <3> QED BY <1>t, <2>0, <2>1, <3>1, <3>3 DEF FilesTypes
  <2> QED BY <2>2, <2>3
<1>2. CASE Files!call_event
  <2>0. /\ sigio_task = "walks" /\ q \in 1 .. Len(sigio_queue)
        /\ UNCHANGED <<sigio_task, sem, sem_queue, args>>
    BY <1>2, <1>t, <1>r, QueueEntries DEF Files!call_event
  <2> DEFINE t == sigio_queue[q]
  <2>1. /\ RemoveAt(sigio_queue, q) \in Queue(FileTask) /\ t \in FileTask /\ t \in ToSet(sigio_queue)
        /\ ToSet(RemoveAt(sigio_queue, q)) = ToSet(sigio_queue) \ {t}
    BY <1>r, <2>0, QueueRemoveAt
  <2>2. CASE /\ Files!nb_callback(t, FALSE)
             /\ sigio_queue' = Files!queue_delete(q)
             /\ q' = Files!next_block(TRUE)
    <3>1. sigio_queue' = RemoveAt(sigio_queue, q) /\ q' = q
      BY <2>2 DEF Files!queue_delete, Files!next_block, Files!RemoveAt, RemoveAt
    <3> HIDE DEF t
    <3>2. /\ ready' = [ready EXCEPT ![args[t]] = @ - 1] /\ ready[args[t]] > 0
          /\ result' = [result EXCEPT ![t] = "callback"]
      BY <2>2 DEF Files!nb_callback
    <3>3. args[t] \in File /\ ready[args[t]] \in Nat
      BY <1>t, <2>1
    <3>4. ready' \in [File -> Nat]
      BY <1>t, <3>2, <3>3
    <3>5. nb_at[t] \in {"sleeps", "asleep"} /\ result[t] = "none" /\ wupcnt[t] = 0
      BY <1>r, <2>1 DEF Woken
    <3>6. \/ /\ nb_at[t] = "asleep" /\ nb_at' = [nb_at EXCEPT ![t] = "returns"] /\ wupcnt' = wupcnt
          \/ /\ nb_at[t] = "sleeps" /\ nb_at' = nb_at
             /\ wupcnt' = [wupcnt EXCEPT ![t] = 1]
      BY <1>t, <2>1, <2>2, <3>5 DEF Files!nb_callback
    <3>7. SemHeld'
      BY <1>t, <2>0, <3>5, <3>6, SemKept
    <3>8. CASE nb_at[t] = "asleep" /\ nb_at' = [nb_at EXCEPT ![t] = "returns"] /\ wupcnt' = wupcnt
      <4>1. CallsRun'
        BY <1>r, <1>t, <2>1, <3>1, <3>2, <3>5, <3>8 DEF CallsRun, Woken
      <4> QED BY <1>t, <2>0, <3>1, <3>2, <3>4, <3>7, <3>8, <4>1 DEF FilesTypes, Files!Places
    <3>9. CASE nb_at[t] = "sleeps" /\ nb_at' = nb_at /\ wupcnt' = [wupcnt EXCEPT ![t] = 1]
      <4>1. CallsRun'
        BY <1>r, <1>t, <2>1, <3>1, <3>2, <3>5, <3>9 DEF CallsRun, Woken
      <4> QED BY <1>t, <2>0, <3>1, <3>2, <3>4, <3>7, <3>9, <4>1 DEF FilesTypes, Files!Places
    <3> QED BY <3>6, <3>8, <3>9
  <2>3. CASE /\ q' = Files!next_block(FALSE)
             /\ UNCHANGED <<ready, sigio_queue, nb_at, result, wupcnt>>
    <3>1. q' = q + 1 /\ q + 1 \in Nat \ {0}
      BY <1>t, <2>3 DEF Files!next_block
    <3>2. SemHeld'
      BY <1>t, <2>0, <2>3, SemKept
    <3>3. CallsRun'
      BY <2>3 DEF CallsRun
    <3> QED BY <1>t, <2>0, <2>3, <3>1, <3>2, <3>3 DEF FilesTypes
  <2> QED BY <1>2, <2>2, <2>3 DEF Files!call_event
<1>3. CASE Files!walk_ends
  <2>1. /\ sigio_task = "walks" /\ Files!sig_sem /\ nb_at' = Files!handed_on(nb_at)
        /\ sigio_task' = "sleeps"
        /\ UNCHANGED <<ready, q, sigio_queue, args, result, wupcnt>>
    BY <1>3 DEF Files!walk_ends
  <2>2. /\ sem = 0 /\ \A u \in FileTask : nb_at[u] # "has_sem"
    BY <2>1 DEF SemHeld
  <2>3. sigio_task' = Files!next_sigio_task("sleeps")
    <3>1. "bsd_sigio" \notin ToSet(sem_queue) /\ sem_queue \in Queue(FileTask \cup {"bsd_sigio"})
      BY <2>1 DEF SemHeld
    <3>2. sem_queue # << >> => Head(sem_queue) # "bsd_sigio"
      BY <3>1, QueueTail
    <3> QED BY <2>1, <3>2 DEF Files!next_sigio_task, Files!SIGIO_TASK
  <2>4. /\ SemHeld' /\ nb_at' \in [FileTask -> Files!Places]
        /\ sigio_task' \in {"sleeps", "waits", "walks"} /\ sem' \in {0, 1}
        /\ \A u \in FileTask :
             nb_at'[u] = nb_at[u] \/ (nb_at[u] = "waits" /\ nb_at'[u] = "has_sem")
    <3>1. /\ \A u \in FileTask : nb_at[u] # "has_sem" /\ (nb_at[u] = "waits" <=> nb_at[u] = "waits")
          /\ "sleeps" = "waits" <=> sigio_task = "waits"
      BY <2>1, <2>2
    <3> QED BY <1>t, <2>1, <2>2, <2>3, <3>1, HandsOn
  <2>5. CallsRun'
    <3>1. ASSUME NEW u \in FileTask
          PROVE  /\ u \in ToSet(sigio_queue) <=> nb_at'[u] \in {"sleeps", "asleep"} /\ result[u] = "none"
                 /\ nb_at'[u] \in {"tries", "enqueues", "waits", "has_sem"} => result[u] = "none"
                 /\ nb_at'[u] = "asleep" => ~Woken(result[u])
                 /\ nb_at'[u] = "returns" => result[u] # "none"
                 /\ wupcnt[u] = IF nb_at'[u] = "sleeps" /\ Woken(result[u]) THEN 1 ELSE 0
      BY <1>r, <2>4
    <3> QED BY <1>r, <2>1, <3>1 DEF CallsRun
  <2> QED BY <1>t, <2>1, <2>4, <2>5 DEF FilesTypes
<1> QED BY <1>1, <1>2, <1>3 DEF Files!SigioStep

(* So does every step of the files.                                        *)
LEMMA FilesKept ==
  ASSUME DevicesAssumption, FilesTypes, SemHeld, CallsRun, Files!Next
  PROVE  FilesTypes' /\ SemHeld' /\ CallsRun'
<1>1. ASSUME NEW t \in FileTask, Files!TaskStep(t) PROVE FilesTypes' /\ SemHeld' /\ CallsRun'
  BY <1>1, TaskStepKeeps
<1>2. CASE Files!SigioStep
  BY <1>2, SigioStepKeeps
<1>3. ASSUME NEW f \in File, Files!file_ready(f) PROVE FilesTypes' /\ SemHeld' /\ CallsRun'
  <2>1. UNCHANGED <<sigio_task, q, sigio_queue, sem, sem_queue, nb_at, args, result, wupcnt>>
    BY <1>3 DEF Files!file_ready, Files!queuevars, Files!taskvars
  <2>2. ready' \in [File -> Nat]
    <3>1. ready \in [File -> Nat] /\ ready[f] + 1 \in Nat
      BY DEF FilesTypes
    <3> QED BY <1>3, <3>1 DEF Files!file_ready
  <2> QED BY <2>1, <2>2 DEF FilesTypes, SemHeld, CallsRun
<1> QED BY <1>1, <1>2, <1>3 DEF Files!Next

(* What the module promises follows.                                       *)
LEMMA FilesSay ==
  ASSUME DevicesAssumption, FilesInv
  PROVE  CallsGetResults
<1> SUFFICES ASSUME part = "nonblocking_io"
             PROVE  /\ Files!NonblockingTypeOK
                    /\ Files!ReturnsWithResult /\ Files!ResultWakes
                    /\ Files!QueuedBlocksLive /\ Files!OneUserOfQueue
  BY DEF CallsGetResults
<1>1. FilesTypes /\ FilesBounds /\ SemHeld /\ CallsRun
  BY DEF FilesInv
<1>t. Files!NonblockingTypeOK
  <2>1. \A s : Files!ToSet(s) = ToSet(s)
    BY DEF Files!ToSet, ToSet
  <2>2. Files!Cardinality(FileTask) = Cardinality(FileTask)
    BY DEF Files!Cardinality, Cardinality
  <2>3. wupcnt \in [FileTask -> 0 .. 1]
    <3>1. \A t \in FileTask : wupcnt[t] \in 0 .. 1
      BY <1>1 DEF CallsRun
    <3> QED BY <1>1, <3>1 DEF FilesTypes
  <2>4. ToSet(sigio_queue) \subseteq FileTask /\ ToSet(sem_queue) \subseteq FileTask \cup {Files!SIGIO_TASK}
    <3>1. sigio_queue \in Queue(FileTask) /\ sem_queue \in Queue(FileTask \cup {"bsd_sigio"})
      BY <1>1 DEF CallsRun, SemHeld
    <3>2. sigio_queue \in Seq(FileTask) /\ sem_queue \in Seq(FileTask \cup {"bsd_sigio"})
      BY <3>1, QueueEntries
    <3> QED BY <3>2 DEF ToSet, Files!SIGIO_TASK
  <2> QED BY <1>1, <2>1, <2>2, <2>3, <2>4 DEF FilesTypes, FilesBounds, Files!NonblockingTypeOK
<1>2. Files!ReturnsWithResult /\ Files!ResultWakes
  BY <1>1 DEF CallsRun, FilesTypes, Woken, Files!ReturnsWithResult, Files!ResultWakes
<1>3. Files!QueuedBlocksLive
  <2>1. Files!IsInjective(sigio_queue) <=> IsInjective(sigio_queue)
    BY DEF Files!IsInjective, IsInjective
  <2>2. Files!ToSet(sigio_queue) = ToSet(sigio_queue)
    BY DEF Files!ToSet, ToSet
  <2>3. IsInjective(sigio_queue)
    BY <1>1 DEF CallsRun, Queue
  <2> QED BY <1>1, <2>1, <2>2, <2>3 DEF CallsRun, Files!QueuedBlocksLive
<1>4. Files!OneUserOfQueue
  <2> DEFINE holders == {t \in FileTask : nb_at[t] = "has_sem"}
  <2>1. sem \in {0, 1} /\ sigio_task \in {"sleeps", "waits", "walks"}
    BY <1>1 DEF FilesTypes
  <2>c. Files!Cardinality(holders) = Cardinality(holders)
    BY DEF Files!Cardinality, Cardinality
  <2>2. CASE \E t \in FileTask : nb_at[t] = "has_sem"
    <3>1. PICK t \in FileTask : nb_at[t] = "has_sem"
      BY <2>2
    <3>2. holders = {t} /\ sem = 0 /\ sigio_task # "walks"
      BY <1>1, <3>1 DEF SemHeld
    <3>3. Cardinality(holders) = 1
      BY <3>2, FS_Singleton
    <3> QED BY <2>c, <3>2, <3>3 DEF Files!OneUserOfQueue
  <2>3. CASE ~\E t \in FileTask : nb_at[t] = "has_sem"
    <3>1. holders = {} /\ (sem = 0 <=> sigio_task = "walks")
      BY <1>1, <2>3 DEF SemHeld
    <3>2. Cardinality(holders) = 0
      BY <3>1, FS_EmptySet
    <3> QED BY <2>1, <2>c, <3>1, <3>2 DEF Files!OneUserOfQueue
  <2> QED BY <2>2, <2>3
<1> QED BY <1>t, <1>2, <1>3, <1>4

(* The files begin with nothing.                                           *)
LEMMA FilesStart ==
  ASSUME DevicesAssumption, Files!Init
  PROVE  FilesTypes /\ FilesBounds /\ SemHeld /\ CallsRun
<1>1. << >> \in Seq(FileTask) /\ << >> \in Seq(FileTask \cup {"bsd_sigio"}) /\ Len(<< >>) = 0
  OBVIOUS
<1>2. << >> \in Queue(FileTask) /\ << >> \in Queue(FileTask \cup {"bsd_sigio"}) /\ ToSet(<< >>) = {}
  BY <1>1 DEF Queue, IsInjective, ToSet
<1>3. FilesTypes
  BY DEF Files!Init, FilesTypes, Files!Places
<1>4. SemHeld
  BY <1>2 DEF Files!Init, SemHeld
<1>5. CallsRun
  BY <1>2 DEF Files!Init, CallsRun, Woken
<1>6. FilesBounds
  <2>1. READY \in Nat /\ Cardinality(FileTask) \in Nat
    BY FilesConstants, FS_CardinalityType DEF DevicesAssumption, Files!NonblockingAssumption
  <2>2. 0 \in 0 .. READY /\ 1 \in 1 .. Cardinality(FileTask) + 1
    BY <2>1
  <2> QED BY <2>2 DEF Files!Init, FilesBounds
<1> QED BY <1>3, <1>4, <1>5, <1>6

(* A queue has no more entries than there are.                             *)
LEMMA QueueLength ==
  ASSUME NEW S, IsFiniteSet(S), NEW s \in Queue(S)
  PROVE  Len(s) <= Cardinality(S) /\ Cardinality(S) \in Nat
<1>1. /\ s \in Seq(S) /\ Len(s) \in Nat /\ s \in [1 .. Len(s) -> S]
      /\ \A j, k \in 1 .. Len(s) : s[j] = s[k] => j = k
  BY QueueEntries
<1>2. IsFiniteSet(1 .. Len(s)) /\ Cardinality(1 .. Len(s)) = Len(s)
  <2>1. 1 \in Int /\ Len(s) \in Int /\ (IF 1 > Len(s) THEN 0 ELSE Len(s) - 1 + 1) = Len(s)
    BY <1>1
  <2> QED BY <2>1, FS_Interval
<1>3. Cardinality(S) \in Nat
  BY FS_CardinalityType
<1>4. ~(Cardinality(S) < Cardinality(1 .. Len(s)))
  BY <1>1, <1>2, FS_PigeonHole
<1> QED BY <1>1, <1>2, <1>3, <1>4

(* The steps keep the bounds.                                              *)
LEMMA FilesBoundsKept ==
  ASSUME DevicesAssumption, FilesTypes, CallsRun, FilesBounds, Files!Next
  PROVE  FilesBounds'
<1>t. /\ ready \in [File -> 0 .. READY] /\ nb_sigio \in BOOLEAN
      /\ q \in 1 .. Cardinality(FileTask) + 1 /\ READY \in Nat \ {0}
      /\ args \in [FileTask -> File]
  BY DEF FilesBounds, FilesTypes, DevicesAssumption, Files!NonblockingAssumption
<1>q. /\ Len(sigio_queue) <= Cardinality(FileTask) /\ Cardinality(FileTask) \in Nat
      /\ Len(sigio_queue) \in Nat
      /\ \A i \in 1 .. Len(sigio_queue) : sigio_queue[i] \in FileTask
  <2>1. sigio_queue \in Queue(FileTask) /\ IsFiniteSet(FileTask)
    BY FilesConstants DEF CallsRun
  <2> QED BY <2>1, QueueLength, QueueEntries
<1>c. ASSUME NEW t \in FileTask, NEW self, Files!nb_callback(t, self)
      PROVE  ready' \in [File -> 0 .. READY]
  <2>1. /\ ready[args[t]] > 0 /\ args[t] \in File
        /\ ready' = [ready EXCEPT ![args[t]] = ready[args[t]] - 1]
    BY <1>c, <1>t DEF Files!nb_callback
  <2>2. ready[args[t]] - 1 \in 0 .. READY
    BY <1>t, <2>1
  <2> QED BY <1>t, <2>1, <2>2
<1>1. ASSUME NEW t \in FileTask, Files!TaskStep(t) PROVE FilesBounds'
  <2>1. UNCHANGED <<nb_sigio, q>>
    BY <1>1 DEF Files!TaskStep, Files!nb_call, Files!nb_try, Files!enqueue_wai_sem,
                Files!enqueue_sigioeb, Files!nb_slp_tsk, Files!nb_return, Files!sigiovars
  <2>2. ready' = ready \/ Files!nb_callback(t, TRUE)
    BY <1>1 DEF Files!TaskStep, Files!nb_call, Files!nb_try, Files!enqueue_wai_sem,
                Files!enqueue_sigioeb, Files!nb_slp_tsk, Files!nb_return
  <2> QED BY <1>c, <1>t, <2>1, <2>2 DEF FilesBounds
<1>2. CASE Files!bsd_sigio_task
  <2>1. nb_sigio' = FALSE /\ q' = 1 /\ ready' = ready /\ 1 \in 1 .. Cardinality(FileTask) + 1
    BY <1>2, <1>q DEF Files!bsd_sigio_task
  <2> QED BY <1>t, <2>1 DEF FilesBounds
<1>3. CASE Files!call_event
  <2>1. q \in 1 .. Len(sigio_queue) /\ nb_sigio' = nb_sigio
    BY <1>3, <1>t, <1>q DEF Files!call_event
  <2>2. q' \in {q, q + 1} /\ (ready' = ready \/ Files!nb_callback(sigio_queue[q], FALSE))
    BY <1>3 DEF Files!call_event, Files!next_block
  <2>3. q' \in 1 .. Cardinality(FileTask) + 1
    BY <1>t, <1>q, <2>1, <2>2
  <2> QED BY <1>c, <1>t, <1>q, <2>1, <2>2, <2>3 DEF FilesBounds
<1>4. CASE Files!walk_ends
  BY <1>4, <1>t DEF Files!walk_ends, FilesBounds
<1>5. ASSUME NEW f \in File, Files!file_ready(f) PROVE FilesBounds'
  <2>1. /\ nb_sigio' = TRUE /\ q' = q
        /\ ready' = [ready EXCEPT ![f] = IF ready[f] < READY THEN ready[f] + 1 ELSE ready[f]]
    BY <1>5 DEF Files!file_ready
  <2>2. ready[f] \in 0 .. READY
    BY <1>t
  <2>3. (IF ready[f] < READY THEN ready[f] + 1 ELSE ready[f]) \in 0 .. READY
    BY <1>t, <2>2
  <2> QED BY <1>t, <2>1, <2>3 DEF FilesBounds
<1> QED BY <1>1, <1>2, <1>3, <1>4, <1>5 DEF Files!Next, Files!SigioStep

(***************************************************************************)
(* 3. The rings and the semaphores of a serial port.                       *)
(***************************************************************************)
(* The place in the buffer that is i places behind the place p.            *)
Slot(p, i) == IF p + i < SERIAL_BUFSZ THEN p + i ELSE p + i - SERIAL_BUFSZ

(* The number of characters between two pointers.                          *)
Between(p, w) == IF w >= p THEN w - p ELSE w - p + SERIAL_BUFSZ

Size(r) == Len(Port!contents(r))

Char == 0 .. LAST - 1

(* The characters of r are numbered from behind base on, up to top.        *)
Numbered(r, base, top) ==
  /\ \A i \in 1 .. Size(r) : Port!contents(r)[i] = (base + i) % LAST
  /\ top = (base + Size(r)) % LAST

(* The sizes, and the tasks of a port.                                     *)
LEMMA PortConstants ==
  ASSUME DevicesAssumption
  PROVE  /\ SERIAL_BUFSZ \in Nat \ {0, 1} /\ LAST \in Nat \ {0, 1}
         /\ IsFiniteSet(PortTask)
         /\ 0 \in Char /\ SERIAL_BUFSZ - 1 \in Nat
<1>1. SERIAL_BUFSZ \in Nat \ {0, 1} /\ LAST \in Nat \ {0, 1}
  BY DEF DevicesAssumption, Port!SerialPortAssumption
<1>2. Port!IsFiniteSet(PortTask)
  BY Zenon DEF DevicesAssumption, Port!SerialPortAssumption
<1>3. IsFiniteSet(PortTask)
  BY <1>2 DEF Port!IsFiniteSet, IsFiniteSet
<1> QED BY <1>1, <1>3 DEF Char

(* What is modulo the bound stays so when one is counted at a time.        *)
LEMMA ModularStep ==
  ASSUME NEW n \in Nat \ {0}, NEW a \in Nat, NEW b \in Nat
  PROVE  /\ a % n \in 0 .. n - 1
         /\ ((a % n) + b) % n = (a + b) % n
         /\ a < n => a % n = a
<1>1. a % n \in 0 .. n - 1 /\ a = n * (a \div n) + (a % n) /\ a \div n \in Nat
  OBVIOUS
<1> DEFINE c == a % n
           k == a \div n
           s == c + b
<1>2. s \in Nat /\ s % n \in 0 .. n - 1 /\ s = n * (s \div n) + (s % n) /\ s \div n \in Nat
  BY <1>1
<1>3. a + b = n * k + s
  BY <1>1
<1> HIDE DEF c, k
<1>4. k \in Nat /\ c \in Nat
  BY <1>1 DEF c, k
<1> HIDE DEF s
<1> DEFINE m == s \div n
           r == s % n
<1>5. m \in Nat /\ r \in 0 .. n - 1 /\ s = n * m + r
  BY <1>2
<1> HIDE DEF m, r
<1>6. a + b = n * (k + m) + r
  BY <1>3, <1>4, <1>5
<1>7. (n * (k + m) + r) % n = r
  <2>1. k + m \in Nat
    BY <1>4, <1>5
  <2>2. ASSUME NEW j \in Nat, NEW e \in 0 .. n - 1 PROVE (n * j + e) % n = e
    OBVIOUS
  <2> QED BY <1>5, <2>1, <2>2
<1>8. (a + b) % n = r
  BY <1>6, <1>7
<1>9. (c + b) % n = r
  BY DEF s, r
<1>10. a < n => a % n = a
  OBVIOUS
<1> QED BY <1>1, <1>8, <1>9, <1>10 DEF c

(* With the bound of the numbers of characters.                            *)
LEMMA Modular ==
  ASSUME DevicesAssumption, NEW a \in Nat, NEW b \in Nat
  PROVE  ((a % LAST) + b) % LAST = (a + b) % LAST /\ a % LAST \in Char
<1>1. LAST \in Nat \ {0}
  BY PortConstants
<1> QED BY <1>1, ModularStep DEF Char

(* The next place of a pointer, and the number of characters between two.  *)
LEMMA PointersMove ==
  ASSUME DevicesAssumption, NEW p \in 0 .. SERIAL_BUFSZ - 1, NEW w \in 0 .. SERIAL_BUFSZ - 1
  PROVE  /\ Slot(w, 1) \in 0 .. SERIAL_BUFSZ - 1
         /\ Between(p, w) # SERIAL_BUFSZ - 1 => Between(p, Slot(w, 1)) = Between(p, w) + 1
         /\ Between(p, w) # 0 => Between(Slot(p, 1), w) = Between(p, w) - 1
<1>b. SERIAL_BUFSZ \in Nat \ {0, 1}
  BY PortConstants
<1>1. Slot(w, 1) = IF w + 1 < SERIAL_BUFSZ THEN w + 1 ELSE 0
  BY <1>b DEF Slot
<1>2. Slot(p, 1) = IF p + 1 < SERIAL_BUFSZ THEN p + 1 ELSE 0
  BY <1>b DEF Slot
<1>3. Between(p, w) # SERIAL_BUFSZ - 1 => Between(p, Slot(w, 1)) = Between(p, w) + 1
  <2>1. CASE w + 1 < SERIAL_BUFSZ
    BY <1>b, <1>1, <2>1 DEF Between
  <2>2. CASE ~(w + 1 < SERIAL_BUFSZ)
    BY <1>b, <1>1, <2>2 DEF Between
  <2> QED BY <2>1, <2>2
<1>4. Between(p, w) # 0 => Between(Slot(p, 1), w) = Between(p, w) - 1
  <2>1. CASE p + 1 < SERIAL_BUFSZ
    BY <1>b, <1>2, <2>1 DEF Between
  <2>2. CASE ~(p + 1 < SERIAL_BUFSZ)
    BY <1>b, <1>2, <2>2 DEF Between
  <2> QED BY <2>1, <2>2
<1> QED BY <1>b, <1>1, <1>3, <1>4

(* The fields of a ring.                                                   *)
LEMMA RingFields ==
  ASSUME DevicesAssumption, NEW r \in Port!Ring
  PROVE  /\ r.buffer \in [0 .. SERIAL_BUFSZ - 1 -> Char]
         /\ r.read_ptr \in 0 .. SERIAL_BUFSZ - 1 /\ r.write_ptr \in 0 .. SERIAL_BUFSZ - 1
         /\ r = [buffer |-> r.buffer, read_ptr |-> r.read_ptr, write_ptr |-> r.write_ptr]
BY DEF Port!Ring, Char

(* What a ring holds, without the remainders.                              *)
LEMMA RingContents ==
  ASSUME DevicesAssumption, NEW r \in Port!Ring
  PROVE  /\ Size(r) = Between(r.read_ptr, r.write_ptr)
         /\ Size(r) \in 0 .. SERIAL_BUFSZ - 1
         /\ Port!contents(r) \in Seq(Char)
         /\ DOMAIN Port!contents(r) = 1 .. Size(r)
         /\ \A i \in 1 .. Size(r) :
              Port!contents(r)[i] = r.buffer[Slot(r.read_ptr, i - 1)]
<1> DEFINE B == SERIAL_BUFSZ
           p == r.read_ptr
           w == r.write_ptr
           n == (w - p) % B
<1>1. /\ B \in Nat \ {0, 1} /\ p \in 0 .. B - 1 /\ w \in 0 .. B - 1
      /\ r.buffer \in [0 .. B - 1 -> Char]
  BY PortConstants, RingFields
<1>2. Port!contents(r) = [i \in 1 .. n |-> r.buffer[(p + i - 1) % B]]
  BY DEF Port!contents
<1> HIDE DEF B, p, w
<1>3. n = Between(p, w) /\ n \in 0 .. B - 1
  <2>1. CASE w >= p
    <3>1. w - p \in 0 .. B - 1
      BY <1>1, <2>1
    <3>2. (w - p) % B = w - p
      BY <1>1, <3>1
    <3> QED BY <2>1, <3>1, <3>2 DEF Between
  <2>2. CASE w < p
    <3>1. w - p \in -B .. -1 /\ w - p + B \in 0 .. B - 1 /\ ~(w >= p)
      BY <1>1, <2>2
    <3>2. (w - p) % B = w - p + B
      BY <1>1, <3>1
    <3> QED BY <3>1, <3>2 DEF Between, B
  <2> QED BY <1>1, <2>1, <2>2
<1> HIDE DEF n
<1>4. ASSUME NEW i \in 1 .. n
      PROVE  (p + i - 1) % B = Slot(p, i - 1) /\ Slot(p, i - 1) \in 0 .. B - 1
  <2>1. i \in Int /\ 1 <= i /\ i <= B - 1 /\ i - 1 \in 0 .. B - 2
    BY <1>1, <1>3
  <2>2. CASE p + i - 1 < B
    <3>1. p + i - 1 \in 0 .. B - 1 /\ p + (i - 1) = p + i - 1
      BY <1>1, <2>1, <2>2
    <3>2. (p + i - 1) % B = p + i - 1
      BY <1>1, <3>1
    <3> QED BY <1>1, <2>2, <3>1, <3>2 DEF Slot, B
  <2>3. CASE ~(p + i - 1 < B)
    <3>1. /\ p + i - 1 \in B .. 2 * B - 1 /\ p + (i - 1) = p + i - 1
          /\ p + i - 1 - B \in 0 .. B - 1
      BY <1>1, <2>1, <2>3
    <3>2. (p + i - 1) % B = p + i - 1 - B
      BY <1>1, <3>1
    <3> QED BY <1>1, <2>3, <3>1, <3>2 DEF Slot, B
  <2> QED BY <2>2, <2>3
<1>5. n \in Nat
  BY <1>1, <1>3
<1>6. Port!contents(r) \in Seq(Char) /\ Len(Port!contents(r)) = n
  <2>1. \A i \in 1 .. n : r.buffer[(p + i - 1) % B] \in Char
    BY <1>1, <1>4
  <2>2. Port!contents(r) \in [1 .. n -> Char]
    BY <1>2, <2>1
  <2> QED BY <1>5, <2>2
<1>7. \A i \in 1 .. n : Port!contents(r)[i] = r.buffer[Slot(p, i - 1)]
  BY <1>2, <1>4
<1>8. DOMAIN Port!contents(r) = 1 .. n
  BY <1>2
<1> QED BY <1>3, <1>6, <1>7, <1>8 DEF Size, B, p, w

(* Empty and full rings, and the next place in the buffer.                 *)
LEMMA RingEnds ==
  ASSUME DevicesAssumption, NEW r \in Port!Ring
  PROVE  /\ Port!is_empty(r) <=> Size(r) = 0
         /\ Port!is_full(r) <=> Size(r) = SERIAL_BUFSZ - 1
<1>1. /\ SERIAL_BUFSZ \in Nat \ {0, 1} /\ r.read_ptr \in 0 .. SERIAL_BUFSZ - 1
      /\ r.write_ptr \in 0 .. SERIAL_BUFSZ - 1
  BY PortConstants, RingFields
<1>2. Size(r) = Between(r.read_ptr, r.write_ptr)
  BY RingContents
<1>3. Port!is_empty(r) <=> Size(r) = 0
  BY <1>1, <1>2 DEF Between, Port!is_empty
<1>4. Port!is_full(r) <=> Size(r) = SERIAL_BUFSZ - 1
  BY <1>1, <1>2 DEF Between, Port!is_full, Port!inc
<1> QED BY <1>3, <1>4

(* A character is put into a ring that is not full.                        *)
LEMMA RingPut ==
  ASSUME DevicesAssumption, NEW r \in Port!Ring, ~Port!is_full(r), NEW c \in Char
  PROVE  /\ Port!put(r, c) \in Port!Ring
         /\ Size(Port!put(r, c)) = Size(r) + 1
         /\ \A i \in 1 .. Size(r) + 1 : Port!contents(Port!put(r, c))[i] =
              IF i <= Size(r) THEN Port!contents(r)[i] ELSE c
<1> DEFINE B == SERIAL_BUFSZ
           p == r.read_ptr
           w == r.write_ptr
           s == Port!put(r, c)
           n == Size(r)
<1>1. /\ B \in Nat \ {0, 1} /\ p \in 0 .. B - 1 /\ w \in 0 .. B - 1
      /\ r.buffer \in [0 .. B - 1 -> Char]
  BY PortConstants, RingFields
<1>2. /\ s.buffer = [r.buffer EXCEPT ![w] = c] /\ s.read_ptr = p /\ s.write_ptr = Port!inc(w)
  BY DEF Port!put, Port!Ring
<1>3. Port!inc(w) = Slot(w, 1) /\ Port!inc(w) \in 0 .. B - 1
  BY <1>1 DEF Port!inc, Slot
<1>4. s \in Port!Ring
  <2>1. [r.buffer EXCEPT ![w] = c] \in [0 .. SERIAL_BUFSZ - 1 -> 0 .. LAST - 1]
    BY <1>1 DEF Char
  <2>2. s = [[r EXCEPT !.buffer = [r.buffer EXCEPT ![w] = c]] EXCEPT !.write_ptr = Port!inc(w)]
    BY DEF Port!put, Port!Ring
  <2> HIDE DEF s
  <2> QED BY <1>3, <2>1, <2>2 DEF Port!Ring
<1>5. /\ n = Between(p, w) /\ n \in 0 .. B - 2
      /\ Size(s) = Between(p, Port!inc(w)) /\ Size(s) \in 0 .. B - 1
  BY <1>1, <1>2, <1>4, RingContents, RingEnds
<1>6. Size(s) = n + 1
  <2>1. Between(p, w) # SERIAL_BUFSZ - 1
    BY <1>1, <1>5
  <2>2. Between(p, Slot(w, 1)) = Between(p, w) + 1
    BY <1>1, <2>1, PointersMove
  <2> QED BY <1>3, <1>5, <2>2
<1> HIDE DEF B, p, w, s, n
<1>7. Slot(p, n) = w
  BY <1>1, <1>5 DEF Between, Slot, B
<1>8. ASSUME NEW i \in 1 .. n + 1
      PROVE  Port!contents(s)[i] = IF i <= n THEN Port!contents(r)[i] ELSE c
  <2>1. Port!contents(s)[i] = s.buffer[Slot(p, i - 1)]
    <3>1. i \in 1 .. Size(s)
      BY <1>6
    <3> QED BY <1>2, <1>4, <3>1, RingContents
  <2>2. CASE i = n + 1
    <3>1. i - 1 = n /\ ~(i <= n)
      BY <1>5, <2>2
    <3>2. s.buffer[w] = c
      BY <1>1, <1>2
    <3> QED BY <1>7, <2>1, <3>1, <3>2
  <2>3. CASE i # n + 1
    <3>1. i \in 1 .. n /\ i <= n /\ i - 1 \in 0 .. n - 1
      BY <1>5, <2>3
    <3>2. Slot(p, i - 1) # w /\ Slot(p, i - 1) \in 0 .. B - 1
      BY <1>1, <1>5, <1>7, <3>1 DEF Slot, B
    <3>3. s.buffer[Slot(p, i - 1)] = r.buffer[Slot(p, i - 1)]
      BY <1>1, <1>2, <3>2
    <3>4. Port!contents(r)[i] = r.buffer[Slot(p, i - 1)]
      BY <3>1, RingContents DEF n, p
    <3> QED BY <2>1, <3>1, <3>3, <3>4
  <2> QED BY <2>2, <2>3
<1> QED BY <1>4, <1>6, <1>8 DEF s, n

(* The first character is taken from a ring that is not empty.             *)
LEMMA RingRest ==
  ASSUME DevicesAssumption, NEW r \in Port!Ring, ~Port!is_empty(r)
  PROVE  /\ Port!rest(r) \in Port!Ring
         /\ Size(r) \in Nat \ {0} /\ Size(Port!rest(r)) = Size(r) - 1
         /\ Port!first(r) = Port!contents(r)[1] /\ Port!first(r) \in Char
         /\ \A i \in 1 .. Size(r) - 1 :
              Port!contents(Port!rest(r))[i] = Port!contents(r)[i + 1]
<1> DEFINE B == SERIAL_BUFSZ
           p == r.read_ptr
           w == r.write_ptr
           s == Port!rest(r)
           n == Size(r)
<1>1. /\ B \in Nat \ {0, 1} /\ p \in 0 .. B - 1 /\ w \in 0 .. B - 1
      /\ r.buffer \in [0 .. B - 1 -> Char]
  BY PortConstants, RingFields
<1>2. /\ s.buffer = r.buffer /\ s.read_ptr = Port!inc(p) /\ s.write_ptr = w
      /\ s = [buffer |-> s.buffer, read_ptr |-> s.read_ptr, write_ptr |-> s.write_ptr]
  BY RingFields DEF Port!rest
<1>3. Port!inc(p) = Slot(p, 1) /\ Port!inc(p) \in 0 .. B - 1
  BY <1>1 DEF Port!inc, Slot
<1>4. s \in Port!Ring
  BY <1>1, <1>2, <1>3 DEF Port!Ring, Char
<1>5. /\ n = Between(p, w) /\ n \in 1 .. B - 1
      /\ Size(s) = Between(Port!inc(p), w) /\ Size(s) \in 0 .. B - 1
  BY <1>1, <1>2, <1>4, RingContents, RingEnds
<1>6. Port!first(r) = r.buffer[p]
  BY DEF Port!first
<1>7. Size(s) = n - 1
  <2>1. Between(p, w) # 0
    BY <1>1, <1>5
  <2>2. Between(Slot(p, 1), w) = Between(p, w) - 1
    BY <1>1, <2>1, PointersMove
  <2> QED BY <1>3, <1>5, <2>2
<1> HIDE DEF B, p, w, s, n
<1>8. Port!first(r) = Port!contents(r)[1] /\ Port!first(r) \in Char
  <2>1. 1 \in 1 .. n /\ 1 - 1 = 0 /\ Slot(p, 0) = p
    BY <1>1, <1>5 DEF Slot, B
  <2>2. Port!contents(r)[1] = r.buffer[Slot(p, 0)]
    BY <2>1, RingContents DEF n, p
  <2> QED BY <1>1, <1>6, <2>1, <2>2
<1>9. ASSUME NEW i \in 1 .. n - 1 PROVE Port!contents(s)[i] = Port!contents(r)[i + 1]
  <2>1. /\ i \in 1 .. Size(s) /\ i + 1 \in 1 .. n /\ i + 1 - 1 = i
        /\ i \in Int /\ 1 <= i /\ i <= B - 2
    BY <1>1, <1>5, <1>7
  <2>2. Port!contents(s)[i] = s.buffer[Slot(Port!inc(p), i - 1)]
    BY <1>2, <1>4, <2>1, RingContents
  <2>3. Port!contents(r)[i + 1] = r.buffer[Slot(p, i)]
    <3>1. \A j \in 1 .. n : Port!contents(r)[j] = r.buffer[Slot(p, j - 1)]
      BY RingContents DEF n, p
    <3>2. Port!contents(r)[i + 1] = r.buffer[Slot(p, i + 1 - 1)]
      BY <2>1, <3>1
    <3> QED BY <2>1, <3>2
  <2>4. Slot(Port!inc(p), i - 1) = Slot(p, i)
    BY <1>1, <1>3, <2>1 DEF Slot, B
  <2> QED BY <1>2, <2>2, <2>3, <2>4
<1> QED BY <1>4, <1>5, <1>7, <1>8, <1>9 DEF s, n

(* The numbers go on when a character is put into a ring or taken.         *)
LEMMA NumberedPut ==
  ASSUME DevicesAssumption, NEW r \in Port!Ring, ~Port!is_full(r),
         NEW base \in Char, NEW top \in Char, Numbered(r, base, top)
  PROVE  /\ Port!put(r, Port!next(top)) \in Port!Ring /\ Port!next(top) \in Char
         /\ Size(Port!put(r, Port!next(top))) = Size(r) + 1
         /\ Numbered(Port!put(r, Port!next(top)), base, Port!next(top))
<1> DEFINE n == Size(r)
           c == Port!next(top)
           s == Port!put(r, c)
<1>1. LAST \in Nat \ {0, 1} /\ base \in Nat /\ top \in Nat /\ n \in Nat
  BY PortConstants, RingContents DEF Char
<1>2. /\ \A i \in 1 .. n : Port!contents(r)[i] = (base + i) % LAST
      /\ top = (base + n) % LAST
  BY DEF Numbered
<1>3. c = (base + (n + 1)) % LAST /\ c \in Char
  <2>1. c = (top + 1) % LAST
    BY DEF Port!next
  <2>2. base + n \in Nat /\ (base + n) + 1 = base + (n + 1) /\ 1 \in Nat
    BY <1>1
  <2>3. /\ (((base + n) % LAST) + 1) % LAST = ((base + n) + 1) % LAST
        /\ (base + (n + 1)) % LAST \in Char
    <3>1. base + (n + 1) \in Nat /\ 0 \in Nat
      BY <1>1
    <3> QED BY <2>2, <3>1, Modular
  <2> QED BY <1>2, <2>1, <2>2, <2>3
<1>4. /\ s \in Port!Ring /\ Size(s) = n + 1
      /\ \A i \in 1 .. n + 1 : Port!contents(s)[i] = IF i <= n THEN Port!contents(r)[i] ELSE c
  BY <1>3, RingPut
<1> HIDE DEF n, c, s
<1>5. ASSUME NEW i \in 1 .. Size(s) PROVE Port!contents(s)[i] = (base + i) % LAST
  <2>1. CASE i <= n
    BY <1>1, <1>2, <1>4, <2>1
  <2>2. CASE ~(i <= n)
    <3>1. i = n + 1
      BY <1>1, <1>4, <2>2
    <3> QED BY <1>3, <1>4, <2>2, <3>1
  <2> QED BY <2>1, <2>2
<1>6. Numbered(s, base, c)
  BY <1>3, <1>4, <1>5 DEF Numbered
<1> QED BY <1>3, <1>4, <1>6 DEF n, c, s

(* The character taken is the next one, and the others follow it.          *)
LEMMA NumberedRest ==
  ASSUME DevicesAssumption, NEW r \in Port!Ring, ~Port!is_empty(r),
         NEW base \in Char, NEW top \in Char, Numbered(r, base, top)
  PROVE  /\ Port!rest(r) \in Port!Ring /\ Port!first(r) = Port!next(base) /\ Port!first(r) \in Char
         /\ Size(Port!rest(r)) = Size(r) - 1 /\ Size(r) \in Nat \ {0}
         /\ Numbered(Port!rest(r), Port!first(r), top)
<1> DEFINE n == Size(r)
           c == Port!first(r)
           s == Port!rest(r)
<1>1. LAST \in Nat \ {0, 1} /\ base \in Nat /\ top \in Nat
  BY PortConstants DEF Char
<1>2. /\ \A i \in 1 .. n : Port!contents(r)[i] = (base + i) % LAST
      /\ top = (base + n) % LAST
  BY DEF Numbered
<1>3. /\ s \in Port!Ring /\ n \in Nat \ {0} /\ Size(s) = n - 1
      /\ c = Port!contents(r)[1] /\ c \in Char
      /\ \A i \in 1 .. n - 1 : Port!contents(s)[i] = Port!contents(r)[i + 1]
  BY RingRest
<1>4. c = (base + 1) % LAST /\ c = Port!next(base)
  BY <1>2, <1>3 DEF Port!next
<1> HIDE DEF n, c, s
<1>5. ASSUME NEW j \in Nat PROVE (c + j) % LAST = (base + (j + 1)) % LAST
  <2>1. base + 1 \in Nat /\ (base + 1) + j = base + (j + 1)
    BY <1>1
  <2> QED BY <1>4, <2>1, Modular
<1>6. ASSUME NEW i \in 1 .. Size(s) PROVE Port!contents(s)[i] = (c + i) % LAST
  <2>1. i \in 1 .. n - 1 /\ i \in Nat /\ i + 1 \in 1 .. n
    BY <1>3
  <2> QED BY <1>2, <1>3, <1>5, <2>1
<1>7. top = (c + Size(s)) % LAST
  <2>1. n - 1 \in Nat /\ (n - 1) + 1 = n
    BY <1>3
  <2> QED BY <1>2, <1>3, <1>5, <2>1
<1>8. Numbered(s, c, top)
  BY <1>6, <1>7 DEF Numbered
<1> QED BY <1>3, <1>4, <1>8 DEF n, c, s

(* An empty ring has no characters to be numbered.                         *)
LEMMA NumberedEmpty ==
  ASSUME DevicesAssumption, NEW r \in Port!Ring, Port!is_empty(r), NEW base \in Char
  PROVE  Size(r) = 0 /\ Numbered(r, base, base)
<1>1. LAST \in Nat \ {0, 1} /\ base \in Nat /\ base < LAST
  BY PortConstants DEF Char
<1>2. Size(r) = 0
  BY RingEnds
<1>3. (base + 0) % LAST = base
  <2>1. base + 0 = base
    BY <1>1
  <2> QED BY <1>1, <2>1, ModularStep
<1> QED BY <1>2, <1>3 DEF Numbered

(* How many tasks are at a place.                                          *)
Count(place, p) == Cardinality({t \in PortTask : place[t] = p})

(* n is the count of a semaphore that has given total - n units to tasks,  *)
(* which are at go with them; a task waits only while there is no unit.    *)
Given(total, n, place, go, wait) ==
  /\ n \in Nat
  /\ n + Count(place, go) = total
  /\ \A t \in PortTask : place[t] = wait => n = 0

(* As many tasks are at a place when none comes or leaves.                 *)
LEMMA CountKept ==
  ASSUME NEW place, NEW next, NEW p, \A t \in PortTask : next[t] = p <=> place[t] = p
  PROVE  Count(next, p) = Count(place, p)
<1>1. {t \in PortTask : next[t] = p} = {t \in PortTask : place[t] = p}
  OBVIOUS
<1> QED BY <1>1 DEF Count

(* One task comes to a place, or leaves it.                                *)
LEMMA CountComes ==
  ASSUME DevicesAssumption, NEW place, NEW next, NEW p, NEW t \in PortTask,
         place[t] # p, next[t] = p, \A u \in PortTask \ {t} : next[u] = p <=> place[u] = p
  PROVE  Count(next, p) = Count(place, p) + 1 /\ Count(place, p) \in Nat
<1> DEFINE S == {u \in PortTask : place[u] = p}
<1>1. {u \in PortTask : next[u] = p} = S \cup {t} /\ t \notin S
  OBVIOUS
<1>2. IsFiniteSet(S)
  <2>1. S \in SUBSET PortTask /\ IsFiniteSet(PortTask)
    BY PortConstants
  <2> QED BY <2>1, FS_Subset
<1>3. Cardinality(S \cup {t}) = Cardinality(S) + 1 /\ Cardinality(S) \in Nat
  BY <1>1, <1>2, FS_AddElement, FS_CardinalityType
<1> QED BY <1>1, <1>3 DEF Count

(* The number of tasks at a place is a natural number.                     *)
LEMMA CountNat ==
  ASSUME DevicesAssumption, NEW place, NEW p
  PROVE  Count(place, p) \in Nat
<1>1. {u \in PortTask : place[u] = p} \in SUBSET PortTask /\ IsFiniteSet(PortTask)
  BY PortConstants
<1>2. IsFiniteSet({u \in PortTask : place[u] = p})
  BY <1>1, FS_Subset
<1> QED BY <1>2, FS_CardinalityType DEF Count

(* Steps of tasks elsewhere keep what a semaphore has given.               *)
LEMMA GivenKept ==
  ASSUME NEW total, NEW n, NEW place, NEW next, NEW go, NEW wait,
         Given(total, n, place, go, wait),
         \A t \in PortTask : (next[t] = go <=> place[t] = go) /\ (next[t] = wait <=> place[t] = wait)
  PROVE  Given(total, n, next, go, wait)
<1>1. Count(next, go) = Count(place, go)
  BY CountKept
<1> QED BY <1>1 DEF Given

(* A task asks for a unit: wai_sem.                                        *)
LEMMA GivenAsked ==
  ASSUME DevicesAssumption, NEW total, NEW n, NEW place, NEW next, NEW go, NEW wait, go # wait,
         Given(total, n, place, go, wait), NEW t \in PortTask, place[t] \notin {go, wait},
         next[t] = IF n > 0 THEN go ELSE wait, \A u \in PortTask \ {t} : next[u] = place[u]
  PROVE  Given(total, IF n > 0 THEN n - 1 ELSE 0, next, go, wait)
<1>1. n \in Nat /\ n + Count(place, go) = total /\ Count(place, go) \in Nat
  BY CountNat DEF Given
<1>2. CASE n > 0
  <2>1. Count(next, go) = Count(place, go) + 1
    BY <1>2, CountComes
  <2>2. n - 1 \in Nat /\ n - 1 + Count(next, go) = total
    BY <1>1, <1>2, <2>1
  <2>3. ASSUME NEW u \in PortTask, next[u] = wait PROVE FALSE
    <3>1. u # t
      BY <1>2, <2>3
    <3> QED BY <1>1, <1>2, <2>3, <3>1 DEF Given
  <2> QED BY <1>2, <2>2, <2>3 DEF Given
<1>3. CASE ~(n > 0)
  <2>1. n = 0 /\ next[t] = wait
    BY <1>1, <1>3
  <2>2. Count(next, go) = Count(place, go)
    <3>1. \A u \in PortTask : next[u] = go <=> place[u] = go
      BY <2>1
    <3> QED BY <3>1, CountKept
  <2> QED BY <1>1, <1>3, <2>1, <2>2 DEF Given
<1> QED BY <1>2, <1>3

(* A task that was at go is elsewhere, and does not wait.                  *)
Leaves(t, place, next, go, wait) ==
  /\ place[t] = go /\ next[t] \notin {go, wait}
  /\ \A u \in PortTask \ {t} : next[u] = place[u]

(* A task has used its unit and goes elsewhere.                            *)
LEMMA GivenUsed ==
  ASSUME DevicesAssumption, NEW total, NEW n, NEW place, NEW next, NEW go, NEW wait,
         Given(total, n, place, go, wait), NEW t \in PortTask, Leaves(t, place, next, go, wait)
  PROVE  Given(total - 1, n, next, go, wait) /\ total \in Nat \ {0} /\ n < total
<1>1. n \in Nat /\ n + Count(place, go) = total
  BY DEF Given
<1>0. /\ place[t] = go /\ next[t] \notin {go, wait}
      /\ \A u \in PortTask \ {t} : next[u] = place[u]
  BY DEF Leaves
<1>2. Count(place, go) = Count(next, go) + 1 /\ Count(next, go) \in Nat
  BY <1>0, CountComes
<1>3. n + Count(next, go) = total - 1 /\ total \in Nat \ {0} /\ n < total
  BY <1>1, <1>2
<1>4. \A u \in PortTask : next[u] = wait => n = 0
  BY <1>0 DEF Given
<1> QED BY <1>1, <1>3, <1>4 DEF Given

(* A unit comes: sig_sem gives it to one that waits, or keeps it.          *)
LEMMA GivenSignalled ==
  ASSUME DevicesAssumption, NEW total, NEW n, NEW place \in [PortTask -> Port!PlacesOfTasks],
         NEW next, NEW go \in Port!PlacesOfTasks, NEW wait, go # wait,
         Given(total, n, place, go, wait), next \in Port!signalled(place, go, wait)
  PROVE  /\ Given(total + 1, Port!sig_sem(n, place, wait), next, go, wait)
         /\ next \in [PortTask -> Port!PlacesOfTasks]
         /\ \A t \in PortTask : next[t] = place[t] \/ (place[t] = wait /\ next[t] = go)
<1>1. /\ n \in Nat /\ n + Count(place, go) = total /\ Count(place, go) \in Nat
      /\ total \in Int
  BY CountNat DEF Given
<1>2. CASE Port!waiters(place, wait) = {}
  <2>1. next = place /\ Port!sig_sem(n, place, wait) = n + 1
    BY <1>2 DEF Port!signalled, Port!sig_sem
  <2>2. \A t \in PortTask : place[t] # wait
    BY <1>2 DEF Port!waiters
  <2>3. n + 1 \in Nat /\ n + 1 + Count(place, go) = total + 1
    BY <1>1
  <2> QED BY <2>1, <2>2, <2>3 DEF Given
<1>3. CASE Port!waiters(place, wait) # {}
  <2>1. PICK t \in PortTask : place[t] = wait /\ next = [place EXCEPT ![t] = go]
    BY <1>3 DEF Port!signalled, Port!waiters
  <2>2. n = 0 /\ Port!sig_sem(n, place, wait) = n
    BY <1>3, <2>1 DEF Port!sig_sem, Given
  <2>3. next[t] = go /\ place[t] # go /\ \A u \in PortTask \ {t} : next[u] = place[u]
    BY <2>1
  <2>4. Count(next, go) = Count(place, go) + 1
    <3>1. \A u \in PortTask \ {t} : next[u] = go <=> place[u] = go
      BY <2>3
    <3>2. place[t] # go /\ next[t] = go
      BY <2>3
    <3> QED BY <3>1, <3>2, CountComes
  <2>5. next \in [PortTask -> Port!PlacesOfTasks]
    BY <2>1
  <2>6. n + Count(next, go) = total + 1
    BY <1>1, <2>4
  <2>7. \A u \in PortTask : next[u] = place[u] \/ (place[u] = wait /\ next[u] = go)
    BY <2>1, <2>3
  <2> QED BY <1>1, <2>2, <2>5, <2>6, <2>7 DEF Given
<1> QED BY <1>2, <1>3

(***************************************************************************)
(* 4. What tasks, the handler and the callback do to the rings and to the  *)
(* semaphores of a port, of hardware or simulated.                         *)
(***************************************************************************)
Needed(place) ==
  \A t \in PortTask : place[t] \in {"more", "writing", "waits_out"} => left[t] # 0

PortTypes ==
  /\ in_ring \in Port!Ring /\ out_ring \in Port!Ring
  /\ at \in [PortTask -> Port!PlacesOfTasks]
  /\ left \in [PortTask -> 0 .. 2]
  /\ flowc \in Flowc
  /\ ixon_stopped \in BOOLEAN /\ ixoff_stopped \in BOOLEAN
  /\ ixoff_send \in {"none", "START", "STOP"} /\ told \in {"START", "STOP"}
  /\ received \in Char /\ taken \in Char /\ written \in Char /\ sent \in Char
  /\ \A t \in PortTask : at[t] \in {"more", "writing", "waits_out"} => left[t] # 0

Room(r) == SERIAL_BUFSZ - 1 - Size(r)

(* The semaphores and the rings: what PortGoesOn says of them.             *)
PortCounts ==
  /\ Given(Size(in_ring), in_sem, at, "reading", "waits_in")
  /\ Given(Room(out_ring), out_sem, at, "writing", "waits_out")

InputRight  == Numbered(in_ring, taken, received)
OutputRight == Numbered(out_ring, sent, written)

(* The calls up to the point where a task has its unit or waits for it.    *)
PortCall(t) ==
  Port!serial_read(t) \/ Port!serial_write(t) \/ Port!write_next(t) \/ Port!serial_ioctl(t)

(* They keep types and counts.                                             *)
LEMMA CallsKeep ==
  ASSUME DevicesAssumption, PortTypes, PortCounts, NEW t \in PortTask, PortCall(t), told' = told
  PROVE  PortTypes' /\ PortCounts'
<1>t. /\ at \in [PortTask -> Port!PlacesOfTasks] /\ left \in [PortTask -> 0 .. 2]
      /\ \A u \in PortTask : at[u] \in {"more", "writing", "waits_out"} => left[u] # 0
  BY DEF PortTypes
<1>c. /\ Given(Size(in_ring), in_sem, at, "reading", "waits_in")
      /\ Given(Room(out_ring), out_sem, at, "writing", "waits_out")
  BY DEF PortCounts
<1>1. CASE Port!serial_read(t)
  <2>1. /\ at[t] = "idle" /\ in_sem' = IF in_sem > 0 THEN in_sem - 1 ELSE 0
        /\ at' = [at EXCEPT ![t] = IF in_sem > 0 THEN "reading" ELSE "waits_in"]
        /\ UNCHANGED <<in_ring, out_ring, out_sem, left, flowc, ixon_stopped, ixoff_stopped,
                       ixoff_send, received, taken, written, sent>>
    BY <1>1 DEF Port!serial_read, Port!wai_sem, Port!ringvars, Port!ixvars, Port!countvars
  <2>2. /\ at'[t] = IF in_sem > 0 THEN "reading" ELSE "waits_in"
        /\ \A u \in PortTask \ {t} : at'[u] = at[u]
        /\ at' \in [PortTask -> Port!PlacesOfTasks]
    BY <1>t, <2>1 DEF Port!PlacesOfTasks
  <2>3. Given(Size(in_ring), in_sem', at', "reading", "waits_in")
    BY <1>c, <2>1, <2>2, GivenAsked
  <2>4. Given(Room(out_ring), out_sem, at', "writing", "waits_out")
    <3>1. \A u \in PortTask : /\ at'[u] = "writing" <=> at[u] = "writing"
                              /\ at'[u] = "waits_out" <=> at[u] = "waits_out"
      BY <2>1, <2>2
    <3> QED BY <1>c, <3>1, GivenKept
  <2>5. PortCounts'
    BY <2>1, <2>3, <2>4 DEF PortCounts, Room, Size
  <2>6. \A u \in PortTask : at'[u] \in {"more", "writing", "waits_out"} => left[u] # 0
    BY <1>t, <2>2
  <2> QED BY <2>1, <2>2, <2>5, <2>6 DEF PortTypes
<1>2. ASSUME Port!serial_write(t) \/ Port!write_next(t) PROVE PortTypes' /\ PortCounts'
  <2>1. /\ at[t] \in {"idle", "more"} /\ out_sem' = IF out_sem > 0 THEN out_sem - 1 ELSE 0
        /\ at' = [at EXCEPT ![t] = IF out_sem > 0 THEN "writing" ELSE "waits_out"]
        /\ UNCHANGED <<in_ring, out_ring, in_sem, flowc, ixon_stopped, ixoff_stopped,
                       ixoff_send, received, taken, written, sent>>
    BY <1>2 DEF Port!serial_write, Port!write_next, Port!wai_sem, Port!ringvars, Port!ixvars,
                Port!countvars
  <2>2. /\ at'[t] = IF out_sem > 0 THEN "writing" ELSE "waits_out"
        /\ \A u \in PortTask \ {t} : at'[u] = at[u]
        /\ at' \in [PortTask -> Port!PlacesOfTasks]
    BY <1>t, <2>1 DEF Port!PlacesOfTasks
  <2>3. Given(Room(out_ring), out_sem', at', "writing", "waits_out")
    BY <1>c, <2>1, <2>2, GivenAsked
  <2>4. Given(Size(in_ring), in_sem, at', "reading", "waits_in")
    <3>1. \A u \in PortTask : /\ at'[u] = "reading" <=> at[u] = "reading"
                              /\ at'[u] = "waits_in" <=> at[u] = "waits_in"
      BY <2>1, <2>2
    <3> QED BY <1>c, <3>1, GivenKept
  <2>5. PortCounts'
    BY <2>1, <2>3, <2>4 DEF PortCounts, Room, Size
  <2>6. left' \in [PortTask -> 0 .. 2] /\ left'[t] # 0 /\ \A u \in PortTask \ {t} : left'[u] = left[u]
    <3>1. CASE Port!serial_write(t)
      BY <1>t, <3>1 DEF Port!serial_write
    <3>2. CASE Port!write_next(t)
      BY <1>t, <3>2 DEF Port!write_next
    <3> QED BY <1>2, <3>1, <3>2
  <2>7. \A u \in PortTask : at'[u] \in {"more", "writing", "waits_out"} => left'[u] # 0
    BY <1>t, <2>2, <2>6
  <2> QED BY <2>1, <2>2, <2>5, <2>6, <2>7 DEF PortTypes
<1>3. CASE Port!serial_ioctl(t)
  <2>1. flowc' \in Flowc
    BY <1>3 DEF Port!serial_ioctl
  <2>2. UNCHANGED <<in_ring, out_ring, in_sem, out_sem, at, left, ixon_stopped, ixoff_stopped,
                    ixoff_send, received, taken, written, sent>>
    BY <1>3 DEF Port!serial_ioctl, Port!ringvars, Port!semvars, Port!callvars, Port!countvars
  <2>3. PortCounts'
    BY <2>2 DEF PortCounts, Room, Size
  <2> QED BY <2>1, <2>2, <2>3 DEF PortTypes
<1> QED BY <1>1, <1>2, <1>3 DEF PortCall

(* What a call leaves alone.                                               *)
LEMMA CallsLeave ==
  ASSUME NEW t \in PortTask, PortCall(t)
  PROVE  UNCHANGED <<in_ring, out_ring, ixon_stopped, ixoff_stopped, ixoff_send, received, taken,
                     written, sent>>
BY DEF PortCall, Port!serial_read, Port!serial_write, Port!write_next, Port!serial_ioctl,
       Port!ringvars, Port!semvars, Port!callvars, Port!ixvars, Port!countvars

(* A task reads the character it has got past the semaphore for.           *)
LEMMA ReadsOne ==
  ASSUME DevicesAssumption, PortTypes, PortCounts, InputRight, NEW t \in PortTask,
         at[t] = "reading", in_ring' = Port!rest(in_ring), taken' = Port!first(in_ring),
         Port!read_done(t), UNCHANGED <<out_ring, in_sem, out_sem, received>>
  PROVE  /\ in_ring' \in Port!Ring /\ taken' \in Char /\ Size(in_ring') = Size(in_ring) - 1
         /\ at' \in [PortTask -> Port!PlacesOfTasks] /\ left' \in [PortTask -> 0 .. 2]
         /\ Needed(at)'
         /\ PortCounts' /\ InputRight'
<1>t. /\ at \in [PortTask -> Port!PlacesOfTasks] /\ left \in [PortTask -> 0 .. 2]
      /\ \A u \in PortTask : at[u] \in {"more", "writing", "waits_out"} => left[u] # 0
      /\ in_ring \in Port!Ring /\ taken \in Char /\ received \in Char
  BY DEF PortTypes
<1>c. /\ Given(Size(in_ring), in_sem, at, "reading", "waits_in")
      /\ Given(Room(out_ring), out_sem, at, "writing", "waits_out")
  BY DEF PortCounts
<1>1. PICK n \in 0 .. 2 : /\ left' = [left EXCEPT ![t] = n]
                          /\ at' = [at EXCEPT ![t] = IF n = 0 THEN "idle" ELSE "more"]
  BY DEF Port!read_done
<1>2. /\ at' \in [PortTask -> Port!PlacesOfTasks] /\ left' \in [PortTask -> 0 .. 2]
      /\ at'[t] = (IF n = 0 THEN "idle" ELSE "more") /\ left'[t] = n
      /\ \A u \in PortTask \ {t} : at'[u] = at[u] /\ left'[u] = left[u]
  BY <1>1, <1>t DEF Port!PlacesOfTasks
<1>3. \A u \in PortTask : at'[u] \in {"more", "writing", "waits_out"} => left'[u] # 0
  BY <1>2, <1>t
<1>4. Given(Size(in_ring) - 1, in_sem, at', "reading", "waits_in") /\ Size(in_ring) # 0
  <2>1. Leaves(t, at, at', "reading", "waits_in")
    BY <1>2 DEF Leaves
  <2>2. Given(Size(in_ring) - 1, in_sem, at', "reading", "waits_in") /\ Size(in_ring) \in Nat \ {0}
    BY <1>c, <2>1, GivenUsed
  <2> QED BY <2>2
<1>5. ~Port!is_empty(in_ring)
  BY <1>4, <1>t, RingEnds
<1>6. /\ in_ring' \in Port!Ring /\ taken' \in Char /\ Size(in_ring') = Size(in_ring) - 1
      /\ Numbered(in_ring', taken', received)
  <2>1. Numbered(in_ring, taken, received)
    BY DEF InputRight
  <2> QED BY <1>t, <1>5, <2>1, NumberedRest DEF Size
<1>7. Given(Room(out_ring), out_sem, at', "writing", "waits_out")
  <2>1. \A u \in PortTask : /\ at'[u] = "writing" <=> at[u] = "writing"
                            /\ at'[u] = "waits_out" <=> at[u] = "waits_out"
    BY <1>2
  <2> QED BY <1>c, <2>1, GivenKept
<1>8. PortCounts'
  BY <1>4, <1>6, <1>7 DEF PortCounts, Room, Size
<1> QED BY <1>2, <1>3, <1>6, <1>8 DEF InputRight, Numbered, Size, Needed

(* A task writes a character, into the buffer or past it.                  *)
PutsIn(t) ==
  /\ out_ring' = Port!put(out_ring, written') /\ at' = Port!write_done(t)
  /\ UNCHANGED <<out_sem, sent>>

PutsOut(t) ==
  /\ out_ring' = out_ring /\ sent' = written'
  /\ at' \in Port!signalled(Port!write_done(t), "writing", "waits_out")
  /\ out_sem' = Port!sig_sem(out_sem, Port!write_done(t), "waits_out")

(* One that it puts past the buffer leaves in order if the buffer is empty. *)
LEMMA WritesOne ==
  ASSUME DevicesAssumption, PortTypes, PortCounts, NEW t \in PortTask, at[t] = "writing",
         written' = Port!next(written), left' = [left EXCEPT ![t] = @ - 1],
         UNCHANGED <<in_ring, in_sem>>, PutsIn(t) \/ PutsOut(t)
  PROVE  /\ out_ring' \in Port!Ring /\ written' \in Char /\ sent' \in Char
         /\ at' \in [PortTask -> Port!PlacesOfTasks] /\ left' \in [PortTask -> 0 .. 2]
         /\ Needed(at)'
         /\ PortCounts'
         /\ PutsIn(t) \/ Port!is_empty(out_ring) => (OutputRight => OutputRight')
<1>t. /\ at \in [PortTask -> Port!PlacesOfTasks] /\ left \in [PortTask -> 0 .. 2]
      /\ \A u \in PortTask : at[u] \in {"more", "writing", "waits_out"} => left[u] # 0
      /\ out_ring \in Port!Ring /\ written \in Char /\ sent \in Char
  BY DEF PortTypes
<1>c. /\ Given(Size(in_ring), in_sem, at, "reading", "waits_in")
      /\ Given(Room(out_ring), out_sem, at, "writing", "waits_out")
  BY DEF PortCounts
<1> DEFINE done == Port!write_done(t)
<1>1. /\ done \in [PortTask -> Port!PlacesOfTasks] /\ left' \in [PortTask -> 0 .. 2]
      /\ done[t] = (IF left[t] = 1 THEN "idle" ELSE "more") /\ left'[t] = left[t] - 1
      /\ \A u \in PortTask \ {t} : done[u] = at[u] /\ left'[u] = left[u]
  <2>1. left[t] \in 1 .. 2 /\ left[t] - 1 \in 0 .. 2
    BY <1>t
  <2> QED BY <1>t, <2>1 DEF Port!write_done, Port!PlacesOfTasks
<1> HIDE DEF done
<1>2. \A u \in PortTask : done[u] \in {"more", "writing", "waits_out"} => left'[u] # 0
  <2>1. left[t] \in 1 .. 2
    BY <1>t
  <2> QED BY <1>1, <1>t, <2>1
<1>3. written' \in Char
  <2>1. written \in Nat /\ 1 \in Nat
    BY <1>t, PortConstants DEF Char
  <2>2. LAST \in Nat \ {0} /\ written + 1 \in Nat
    BY <2>1, PortConstants
  <2> QED BY <2>2, Modular DEF Port!next
<1>4. /\ Given(Room(out_ring) - 1, out_sem, done, "writing", "waits_out")
      /\ Room(out_ring) \in Nat \ {0}
  <2>1. Leaves(t, at, done, "writing", "waits_out")
    BY <1>1 DEF Leaves
  <2> QED BY <1>c, <2>1, GivenUsed
<1>5. Given(Size(in_ring), in_sem, done, "reading", "waits_in")
  <2>1. \A u \in PortTask : /\ done[u] = "reading" <=> at[u] = "reading"
                            /\ done[u] = "waits_in" <=> at[u] = "waits_in"
    BY <1>1
  <2> QED BY <1>c, <2>1, GivenKept
<1>6. CASE PutsIn(t)
  <2>0. /\ out_ring' = Port!put(out_ring, written') /\ at' = done
        /\ UNCHANGED <<out_sem, sent>>
    BY <1>6 DEF PutsIn, done
  <2>1. ~Port!is_full(out_ring)
    <3>1. Size(out_ring) # SERIAL_BUFSZ - 1
      BY <1>4, <1>t, RingContents, PortConstants DEF Room
    <3> QED BY <1>t, <3>1, RingEnds
  <2>2. out_ring' \in Port!Ring /\ Size(out_ring') = Size(out_ring) + 1
    BY <1>3, <2>0, <1>t, <2>1, RingPut
  <2>3. Room(out_ring') = Room(out_ring) - 1 /\ Size(out_ring') # 0
    BY <1>t, <2>2, RingContents, PortConstants DEF Room
  <2>4. OutputRight => Numbered(out_ring', sent, written')
    BY <2>0, <1>t, <2>1, NumberedPut DEF OutputRight
  <2>5. PortCounts'
    BY <1>4, <1>5, <2>0, <2>3 DEF PortCounts, Room, Size
  <2> QED BY <1>1, <1>2, <1>3, <2>0, <1>t, <2>2, <2>4, <2>5
          DEF OutputRight, Numbered, Size, Needed
<1>7. CASE ~PutsIn(t)
  <2>9. /\ out_ring' = out_ring /\ sent' = written'
        /\ at' \in Port!signalled(done, "writing", "waits_out")
        /\ out_sem' = Port!sig_sem(out_sem, done, "waits_out")
    BY <1>7 DEF PutsOut, done
  <2>0. Room(out_ring) - 1 \in Int /\ Room(out_ring) - 1 + 1 = Room(out_ring)
    BY <1>4
  <2>1. /\ Given(Room(out_ring), out_sem', at', "writing", "waits_out")
        /\ at' \in [PortTask -> Port!PlacesOfTasks]
        /\ \A u \in PortTask : at'[u] = done[u] \/ (done[u] = "waits_out" /\ at'[u] = "writing")
    <3>1. "writing" \in Port!PlacesOfTasks /\ "writing" # "waits_out"
      BY DEF Port!PlacesOfTasks
    <3>2. Given(Room(out_ring) - 1 + 1, Port!sig_sem(out_sem, done, "waits_out"), at', "writing",
                "waits_out")
      BY <1>1, <1>4, <2>9, <3>1, GivenSignalled
    <3>3. at' \in [PortTask -> Port!PlacesOfTasks]
      BY <1>1, <1>4, <2>9, <3>1, GivenSignalled
    <3>4. \A u \in PortTask : at'[u] = done[u] \/ (done[u] = "waits_out" /\ at'[u] = "writing")
      BY <1>1, <2>9 DEF Port!signalled, Port!waiters
    <3> QED BY <2>9, <2>0, <3>2, <3>3, <3>4
  <2>2. Given(Size(in_ring), in_sem, at', "reading", "waits_in")
    <3>1. \A u \in PortTask : /\ at'[u] = "reading" <=> done[u] = "reading"
                              /\ at'[u] = "waits_in" <=> done[u] = "waits_in"
      BY <2>1
    <3> QED BY <1>5, <3>1, GivenKept
  <2>3. PortCounts'
    BY <2>9, <2>1, <2>2 DEF PortCounts, Room, Size
  <2>4. \A u \in PortTask : at'[u] \in {"more", "writing", "waits_out"} => left'[u] # 0
    BY <1>2, <2>1
  <2>5. Port!is_empty(out_ring) => OutputRight'
    <3>1. Port!is_empty(out_ring) => Numbered(out_ring, written', written')
      BY <1>3, <1>t, NumberedEmpty
    <3> QED BY <2>9, <3>1 DEF OutputRight, Numbered, Size
  <2> QED BY <1>1, <1>3, <1>7, <2>9, <1>t, <2>1, <2>3, <2>4, <2>5 DEF Needed
<1> QED BY <1>6, <1>7

(* The handler stores a character that came in.                            *)
LEMMA Stores ==
  ASSUME DevicesAssumption, PortTypes, PortCounts, InputRight, ~Port!is_full(in_ring),
         in_ring' = Port!put(in_ring, Port!next(received)), received' = Port!next(received),
         NEW place \in Port!signalled(at, "reading", "waits_in"),
         in_sem' = Port!sig_sem(in_sem, at, "waits_in")
  PROVE  /\ in_ring' \in Port!Ring /\ received' \in Char
         /\ Numbered(in_ring', taken, received')
         /\ place \in [PortTask -> Port!PlacesOfTasks] /\ Needed(place)
         /\ Given(Size(in_ring'), in_sem', place, "reading", "waits_in")
         /\ Given(Room(out_ring), out_sem, place, "writing", "waits_out")
<1>t. /\ at \in [PortTask -> Port!PlacesOfTasks]
      /\ \A u \in PortTask : at[u] \in {"more", "writing", "waits_out"} => left[u] # 0
      /\ in_ring \in Port!Ring /\ taken \in Char /\ received \in Char
  BY DEF PortTypes
<1>c. /\ Given(Size(in_ring), in_sem, at, "reading", "waits_in")
      /\ Given(Room(out_ring), out_sem, at, "writing", "waits_out")
  BY DEF PortCounts
<1>1. /\ in_ring' \in Port!Ring /\ received' \in Char /\ Size(in_ring') = Size(in_ring) + 1
      /\ Numbered(in_ring', taken, received')
  <2>1. Numbered(in_ring, taken, received)
    BY DEF InputRight
  <2> QED BY <1>t, <2>1, NumberedPut DEF Size
<1>2. /\ Given(Size(in_ring) + 1, in_sem', place, "reading", "waits_in")
      /\ place \in [PortTask -> Port!PlacesOfTasks]
      /\ \A u \in PortTask : place[u] = at[u] \/ (at[u] = "waits_in" /\ place[u] = "reading")
  <2>1. "reading" \in Port!PlacesOfTasks /\ "reading" # "waits_in" /\ Size(in_ring) \in Int
    BY <1>t, RingContents DEF Port!PlacesOfTasks
  <2>2. Given(Size(in_ring) + 1, Port!sig_sem(in_sem, at, "waits_in"), place, "reading",
              "waits_in")
    BY <1>t, <1>c, <2>1, GivenSignalled
  <2>3. place \in [PortTask -> Port!PlacesOfTasks]
    BY <1>t, <1>c, <2>1, GivenSignalled
  <2>4. \A u \in PortTask : place[u] = at[u] \/ (at[u] = "waits_in" /\ place[u] = "reading")
    BY <1>t DEF Port!signalled, Port!waiters
  <2> QED BY <2>2, <2>3, <2>4
<1>3. Given(Room(out_ring), out_sem, place, "writing", "waits_out")
  <2>1. \A u \in PortTask : /\ place[u] = "writing" <=> at[u] = "writing"
                            /\ place[u] = "waits_out" <=> at[u] = "waits_out"
    BY <1>2
  <2> QED BY <1>c, <2>1, GivenKept
<1>4. Needed(place)
  BY <1>2, <1>t DEF Needed
<1> QED BY <1>1, <1>2, <1>3, <1>4

(* The handler sends the first character of the buffer; the tasks are at   *)
(* place by then.                                                          *)
LEMMA Sends ==
  ASSUME DevicesAssumption, out_ring \in Port!Ring, sent \in Char, written \in Char,
         NEW place \in [PortTask -> Port!PlacesOfTasks], Needed(place),
         NEW chars, NEW n, Given(chars, n, place, "reading", "waits_in"),
         Given(Room(out_ring), out_sem, place, "writing", "waits_out"),
         ~Port!is_empty(out_ring), out_ring' = Port!rest(out_ring), sent' = Port!first(out_ring),
         at' \in Port!signalled(place, "writing", "waits_out"),
         out_sem' = Port!sig_sem(out_sem, place, "waits_out"), left' = left
  PROVE  /\ out_ring' \in Port!Ring /\ sent' \in Char
         /\ at' \in [PortTask -> Port!PlacesOfTasks] /\ Needed(at)'
         /\ Given(chars, n, at', "reading", "waits_in")
         /\ Given(Room(out_ring'), out_sem', at', "writing", "waits_out")
         /\ OutputRight => Numbered(out_ring', sent', written)
<1>1. /\ out_ring' \in Port!Ring /\ sent' \in Char /\ Size(out_ring) \in Nat \ {0}
      /\ Size(out_ring') = Size(out_ring) - 1
  BY RingRest
<1>2. OutputRight => Numbered(out_ring', sent', written)
  BY NumberedRest DEF OutputRight
<1>3. Room(out_ring') = Room(out_ring) + 1 /\ Room(out_ring) \in Int
  BY <1>1, PortConstants DEF Room
<1>4. /\ Given(Room(out_ring) + 1, Port!sig_sem(out_sem, place, "waits_out"), at', "writing", "waits_out")
      /\ at' \in [PortTask -> Port!PlacesOfTasks]
      /\ \A u \in PortTask : at'[u] = place[u] \/ (place[u] = "waits_out" /\ at'[u] = "writing")
  <2>1. "writing" \in Port!PlacesOfTasks /\ "writing" # "waits_out"
    BY DEF Port!PlacesOfTasks
  <2>2. Given(Room(out_ring) + 1, Port!sig_sem(out_sem, place, "waits_out"), at', "writing",
              "waits_out")
    BY <2>1, GivenSignalled
  <2>3. at' \in [PortTask -> Port!PlacesOfTasks]
    BY <2>1, GivenSignalled
  <2>4. \A u \in PortTask : at'[u] = place[u] \/ (place[u] = "waits_out" /\ at'[u] = "writing")
    BY DEF Port!signalled, Port!waiters
  <2> QED BY <2>2, <2>3, <2>4
<1>5. Given(chars, n, at', "reading", "waits_in")
  <2>1. \A u \in PortTask : /\ at'[u] = "reading" <=> place[u] = "reading"
                            /\ at'[u] = "waits_in" <=> place[u] = "waits_in"
    BY <1>4
  <2> QED BY <2>1, GivenKept
<1>6. Needed(at)'
  BY <1>4 DEF Needed
<1> QED BY <1>1, <1>2, <1>3, <1>4, <1>5, <1>6

(* What the handler, or one round of the callback, does to the input ring, *)
(* and leaves the tasks at place; and then to the output ring.             *)
Got(place) ==
  \/ /\ ~Port!is_full(in_ring)
     /\ in_ring' = Port!put(in_ring, Port!next(received)) /\ received' = Port!next(received)
     /\ place \in Port!signalled(at, "reading", "waits_in")
     /\ in_sem' = Port!sig_sem(in_sem, at, "waits_in")
  \/ place = at /\ UNCHANGED <<in_ring, in_sem, received>>

Gave(place) ==
  \/ /\ ~Port!is_empty(out_ring)
     /\ out_ring' = Port!rest(out_ring) /\ sent' = Port!first(out_ring)
     /\ at' \in Port!signalled(place, "writing", "waits_out")
     /\ out_sem' = Port!sig_sem(out_sem, place, "waits_out")
  \/ at' = place /\ UNCHANGED <<out_ring, out_sem, sent>>

(* The input half keeps the count of the tasks in either semaphore.        *)
LEMMA GotKeeps ==
  ASSUME DevicesAssumption, PortTypes, PortCounts, InputRight, NEW place, Got(place)
  PROVE  /\ in_ring' \in Port!Ring /\ received' \in Char /\ Numbered(in_ring', taken, received')
         /\ place \in [PortTask -> Port!PlacesOfTasks] /\ Needed(place)
         /\ Given(Size(in_ring'), in_sem', place, "reading", "waits_in")
         /\ Given(Room(out_ring), out_sem, place, "writing", "waits_out")
<1>1. CASE place = at /\ UNCHANGED <<in_ring, in_sem, received>>
  BY <1>1 DEF PortTypes, PortCounts, InputRight, Needed
<1>2. CASE ~(place = at /\ UNCHANGED <<in_ring, in_sem, received>>)
  <2>1. /\ ~Port!is_full(in_ring)
        /\ in_ring' = Port!put(in_ring, Port!next(received)) /\ received' = Port!next(received)
        /\ place \in Port!signalled(at, "reading", "waits_in")
        /\ in_sem' = Port!sig_sem(in_sem, at, "waits_in")
    BY <1>2, Zenon DEF Got
  <2> QED BY <2>1, Stores
<1> QED BY <1>1, <1>2

(* And so does the whole round.                                            *)
LEMMA RoundKeeps ==
  ASSUME DevicesAssumption, PortTypes, PortCounts, InputRight, NEW place, Got(place), Gave(place),
         UNCHANGED <<left, taken, written>>
  PROVE  /\ in_ring' \in Port!Ring /\ received' \in Char
         /\ out_ring' \in Port!Ring /\ sent' \in Char
         /\ at' \in [PortTask -> Port!PlacesOfTasks] /\ Needed(at)'
         /\ PortCounts' /\ InputRight' /\ (OutputRight => OutputRight')
<1>1. /\ in_ring' \in Port!Ring /\ received' \in Char /\ Numbered(in_ring', taken, received')
      /\ place \in [PortTask -> Port!PlacesOfTasks] /\ Needed(place)
      /\ Given(Size(in_ring'), in_sem', place, "reading", "waits_in")
      /\ Given(Room(out_ring), out_sem, place, "writing", "waits_out")
  BY GotKeeps
<1>t. out_ring \in Port!Ring /\ sent \in Char /\ written \in Char /\ left' = left
  BY DEF PortTypes
<1>2. /\ out_ring' \in Port!Ring /\ sent' \in Char
      /\ at' \in [PortTask -> Port!PlacesOfTasks] /\ Needed(at)'
      /\ Given(Size(in_ring'), in_sem', at', "reading", "waits_in")
      /\ Given(Room(out_ring'), out_sem', at', "writing", "waits_out")
      /\ OutputRight => Numbered(out_ring', sent', written)
  <2>1. CASE at' = place /\ UNCHANGED <<out_ring, out_sem, sent>>
    BY <1>1, <1>t, <2>1 DEF OutputRight, Needed
  <2>2. CASE ~(at' = place /\ UNCHANGED <<out_ring, out_sem, sent>>)
    <3>1. /\ ~Port!is_empty(out_ring)
          /\ out_ring' = Port!rest(out_ring) /\ sent' = Port!first(out_ring)
          /\ at' \in Port!signalled(place, "writing", "waits_out")
          /\ out_sem' = Port!sig_sem(out_sem, place, "waits_out")
      BY <2>2, Zenon DEF Gave
    <3> DEFINE chars == Size(in_ring')
               n == in_sem'
    <3>2. Given(chars, n, place, "reading", "waits_in")
      BY <1>1
    <3> HIDE DEF chars, n
    <3>3. /\ out_ring' \in Port!Ring /\ sent' \in Char
          /\ at' \in [PortTask -> Port!PlacesOfTasks] /\ Needed(at)'
          /\ Given(chars, n, at', "reading", "waits_in")
          /\ Given(Room(out_ring'), out_sem', at', "writing", "waits_out")
          /\ OutputRight => Numbered(out_ring', sent', written)
      BY <1>1, <1>t, <3>1, <3>2, Sends
    <3> QED BY <3>3 DEF chars, n
  <2> QED BY <2>1, <2>2
<1>3. PortCounts'
  BY <1>2 DEF PortCounts, Room, Size
<1>4. InputRight' /\ (OutputRight => OutputRight')
  BY <1>1, <1>2 DEF InputRight, OutputRight, Numbered, Size
<1> QED BY <1>1, <1>2, <1>3, <1>4

(***************************************************************************)
(* 5. The hardware port.                                                   *)
(***************************************************************************)
HardTypes ==
  /\ init_flag \in BOOLEAN /\ send_enabled \in BOOLEAN /\ tx_busy \in BOOLEAN
  /\ tx_int \in BOOLEAN
  /\ rx \in {"none", "char", "START", "STOP"}

(* Sending is enabled as long as there is something to send, and as long   *)
(* as it is enabled an interrupt is to come.                               *)
SendingRight ==
  init_flag =>
    /\ send_enabled => tx_busy \/ tx_int
    /\ ixoff_send # "none" \/ (~ixon_stopped /\ ~Port!is_empty(out_ring)) => send_enabled

Unused == ~init_flag => \A t \in PortTask : at[t] = "idle"

HardInv ==
  /\ PortTypes /\ PortCounts /\ InputRight /\ OutputRight
  /\ HardTypes /\ Unused /\ SendingRight /\ Port!ToldRight

(* The calls of tasks change nothing that sending depends on.              *)
LEMMA HardCalls ==
  ASSUME DevicesAssumption, HardInv, NEW t \in PortTask, init_flag, PortCall(t),
         UNCHANGED <<init_flag, send_enabled, Port!rawvars>>
  PROVE  HardInv'
<1>1. /\ UNCHANGED <<init_flag, send_enabled, rx, tx_busy, tx_int, told>>
      /\ UNCHANGED <<in_ring, out_ring, ixon_stopped, ixoff_stopped, ixoff_send, received, taken,
                     written, sent>>
  BY CallsLeave DEF Port!rawvars
<1>2. PortTypes' /\ PortCounts'
  BY <1>1, CallsKeep DEF HardInv
<1>3. InputRight' /\ OutputRight'
  BY <1>1 DEF HardInv, InputRight, OutputRight, Numbered, Size
<1>4. HardTypes' /\ Unused'
  BY <1>1 DEF HardInv, HardTypes, Unused
<1>5. SendingRight' /\ Port!ToldRight'
  BY <1>1 DEF HardInv, SendingRight, Port!ToldRight, Port!is_empty
<1> QED BY <1>2, <1>3, <1>4, <1>5 DEF HardInv

(* serial_read_one                                                         *)
LEMMA HardReads ==
  ASSUME DevicesAssumption, HardInv, NEW t \in PortTask, Port!serial_read_one(t)
  PROVE  HardInv'
<1>1. /\ at[t] = "reading" /\ in_ring' = Port!rest(in_ring) /\ taken' = Port!first(in_ring)
      /\ Port!read_done(t)
      /\ UNCHANGED <<out_ring, in_sem, out_sem, flowc, ixon_stopped, received, written, sent,
                     init_flag, rx, tx_int>>
  BY DEF Port!serial_read_one, Port!semvars
<1>2. /\ in_ring' \in Port!Ring /\ taken' \in Char
      /\ at' \in [PortTask -> Port!PlacesOfTasks] /\ left' \in [PortTask -> 0 .. 2]
      /\ Needed(at)' /\ PortCounts' /\ InputRight'
  BY <1>1, ReadsOne DEF HardInv
<1>3. init_flag
  BY <1>1, Zenon DEF HardInv, Unused
<1>4. \/ /\ ixoff_stopped' = FALSE /\ send_enabled' = TRUE /\ Port!puts_first
         /\ ixoff_send' = ixoff_send /\ tx_busy' = TRUE /\ told' = "START"
      \/ /\ ixoff_stopped' = FALSE /\ send_enabled' = TRUE /\ ~Port!puts_first
         /\ ixoff_send' = "START" /\ tx_busy' = tx_busy /\ told' = told
      \/ UNCHANGED <<ixoff_stopped, send_enabled, ixoff_send, tx_busy, told>>
  <2>1. tx_busy \in BOOLEAN
    BY DEF HardInv, HardTypes
  <2>2. CASE Port!may_start(Port!rest(in_ring))
    <3>1. /\ ixoff_stopped' = FALSE /\ send_enabled' = TRUE
          /\ ixoff_send' = IF Port!puts_first THEN ixoff_send ELSE "START"
          /\ tx_busy' = (tx_busy \/ Port!puts_first)
          /\ told' = IF Port!puts_first THEN "START" ELSE told
      BY <2>2 DEF Port!serial_read_one
    <3>2. CASE Port!puts_first
      BY <3>1, <3>2
    <3>3. CASE ~Port!puts_first
      <4>1. tx_busy' = tx_busy
        BY <2>1, <3>1, <3>3, Zenon
      <4> QED BY <3>1, <3>3, <4>1
    <3> QED BY <3>2, <3>3
  <2>3. CASE ~Port!may_start(Port!rest(in_ring))
    BY <2>3 DEF Port!serial_read_one
  <2> QED BY <2>2, <2>3
<1>5. PortTypes' /\ OutputRight'
  <2>1. /\ ixoff_stopped' \in BOOLEAN /\ ixoff_send' \in {"none", "START", "STOP"}
        /\ told' \in {"START", "STOP"}
    <3>1. /\ ixoff_stopped \in BOOLEAN /\ ixoff_send \in {"none", "START", "STOP"}
          /\ told \in {"START", "STOP"}
      BY DEF HardInv, PortTypes
    <3> QED BY <1>4, <3>1, Zenon
  <2> QED BY <1>1, <1>2, <2>1 DEF HardInv, PortTypes, OutputRight, Numbered, Size, Needed
<1>6. HardTypes' /\ Unused'
  <2>1. send_enabled' \in BOOLEAN /\ tx_busy' \in BOOLEAN
    BY <1>4, Zenon DEF HardInv, HardTypes
  <2> QED BY <1>1, <1>3, <2>1, Zenon DEF HardInv, HardTypes, Unused
<1>7. SendingRight'
  <2>1. /\ init_flag' /\ ixon_stopped' = ixon_stopped /\ out_ring' = out_ring /\ tx_int' = tx_int
        /\ send_enabled => tx_busy \/ tx_int
        /\ ixoff_send # "none" \/ (~ixon_stopped /\ ~Port!is_empty(out_ring)) => send_enabled
    BY <1>1, <1>3, Zenon DEF HardInv, SendingRight
  <2>2. Port!is_empty(out_ring)' <=> Port!is_empty(out_ring)
    BY <2>1 DEF Port!is_empty
  <2>3. CASE UNCHANGED <<ixoff_stopped, send_enabled, ixoff_send, tx_busy, told>>
    <3>1. send_enabled' = send_enabled /\ ixoff_send' = ixoff_send /\ tx_busy' = tx_busy
      BY <2>3
    <3> QED BY <2>1, <2>2, <3>1, Zenon DEF SendingRight
  <2>4. CASE ~UNCHANGED <<ixoff_stopped, send_enabled, ixoff_send, tx_busy, told>>
    <3>1. send_enabled' = TRUE /\ (tx_busy' \/ tx_int')
      BY <1>4, <2>1, <2>4, Zenon DEF Port!puts_first
    <3> QED BY <3>1, Zenon DEF SendingRight
  <2> QED BY <2>3, <2>4
<1>8. Port!ToldRight'
  <2>1. Port!ToldRight
    BY DEF HardInv
  <2>2. Port!puts_first => ixoff_send = "none"
    BY <1>3, Zenon DEF HardInv, SendingRight, Port!puts_first
  <2>3. "START" # "none"
    OBVIOUS
  <2> QED BY <1>1, <1>3, <1>4, <2>1, <2>2, <2>3 DEF Port!ToldRight
<1> QED BY <1>2, <1>5, <1>6, <1>7, <1>8 DEF HardInv

(* serial_write_one                                                        *)
LEMMA HardWrites ==
  ASSUME DevicesAssumption, HardInv, NEW t \in PortTask, Port!serial_write_one(t)
  PROVE  HardInv'
<1>1. /\ at[t] = "writing" /\ written' = Port!next(written) /\ left' = [left EXCEPT ![t] = @ - 1]
      /\ UNCHANGED <<in_ring, in_sem, flowc, ixon_stopped, ixoff_stopped, ixoff_send, received,
                     taken, init_flag, rx, tx_int, told>>
      /\ send_enabled' = (send_enabled \/ ~ixon_stopped)
  BY DEF Port!serial_write_one, Port!ixvars
<1>2. \/ ~ixon_stopped /\ Port!puts_first /\ PutsOut(t) /\ tx_busy' = TRUE
      \/ ~(~ixon_stopped /\ Port!puts_first) /\ PutsIn(t) /\ tx_busy' = tx_busy
  BY DEF Port!serial_write_one, PutsIn, PutsOut
<1>3. init_flag
  BY <1>1, Zenon DEF HardInv, Unused
<1>4. /\ out_ring' \in Port!Ring /\ written' \in Char /\ sent' \in Char
      /\ at' \in [PortTask -> Port!PlacesOfTasks] /\ left' \in [PortTask -> 0 .. 2]
      /\ Needed(at)' /\ PortCounts'
      /\ PutsIn(t) \/ Port!is_empty(out_ring) => (OutputRight => OutputRight')
  <2>1. PutsIn(t) \/ PutsOut(t)
    BY <1>2, Zenon
  <2> QED BY <1>1, <2>1, WritesOne DEF HardInv
<1>5. OutputRight'
  <2>1. ~ixon_stopped /\ Port!puts_first => Port!is_empty(out_ring)
    BY <1>3, Zenon DEF HardInv, SendingRight, Port!puts_first
  <2>2. PutsIn(t) \/ Port!is_empty(out_ring)
    BY <1>2, <2>1, Zenon
  <2> QED BY <1>4, <2>2, Zenon DEF HardInv
<1>6. PortTypes' /\ InputRight'
  BY <1>1, <1>4 DEF HardInv, PortTypes, InputRight, Numbered, Size, Needed
<1>7. HardTypes' /\ Unused'
  <2>1. tx_busy' \in BOOLEAN /\ send_enabled' \in BOOLEAN
    BY <1>1, <1>2, Zenon DEF HardInv, HardTypes
  <2>2. init_flag' = init_flag /\ tx_int' = tx_int /\ rx' = rx
    BY <1>1
  <2> QED BY <1>3, <2>1, <2>2, Zenon DEF HardInv, HardTypes, Unused
<1>8. SendingRight'
  <2>1. /\ ixoff_send' = ixoff_send /\ tx_int' = tx_int /\ ixon_stopped' = ixon_stopped
        /\ send_enabled' = (send_enabled \/ ~ixon_stopped)
    BY <1>1
  <2>2. /\ send_enabled => tx_busy \/ tx_int
        /\ ixoff_send # "none" => send_enabled
    BY <1>3, Zenon DEF HardInv, SendingRight
  <2>3. send_enabled' => tx_busy' \/ tx_int'
    BY <1>2, <2>1, <2>2, Zenon DEF Port!puts_first
  <2> QED BY <2>1, <2>2, <2>3, Zenon DEF SendingRight
<1>9. Port!ToldRight'
  BY <1>1 DEF HardInv, Port!ToldRight
<1> QED BY <1>4, <1>5, <1>6, <1>7, <1>8, <1>9 DEF HardInv

(* What the input half of the handler leaves for the output half.          *)
HalfDone(enabled, send) ==
  /\ send \in {"none", "START", "STOP"}
  /\ ixon_stopped' \in BOOLEAN /\ ixoff_stopped' \in BOOLEAN
  /\ send # "none" \/ (~ixon_stopped' /\ ~Port!is_empty(out_ring)) => enabled
  /\ IF send = "none" THEN told = (IF ixoff_stopped' THEN "STOP" ELSE "START")
     ELSE send = (IF ixoff_stopped' THEN "STOP" ELSE "START")

(* It leaves it so in each of its cases.                                   *)
LEMMA HardReceives ==
  ASSUME HardInv, init_flag, NEW enabled \in BOOLEAN, NEW send, NEW place,
         Port!receive(enabled, send, place)
  PROVE  Got(place) /\ HalfDone(enabled, send)
<1>t. /\ send_enabled \in BOOLEAN /\ ixon_stopped \in BOOLEAN /\ ixoff_stopped \in BOOLEAN
      /\ ixoff_send \in {"none", "START", "STOP"}
      /\ ixoff_send # "none" \/ (~ixon_stopped /\ ~Port!is_empty(out_ring)) => send_enabled
      /\ IF ixoff_send = "none" THEN told = (IF ixoff_stopped THEN "STOP" ELSE "START")
         ELSE ixoff_send = (IF ixoff_stopped THEN "STOP" ELSE "START")
  BY Zenon DEF HardInv, HardTypes, PortTypes, SendingRight, Port!ToldRight
<1>1. CASE /\ rx # "none" /\ (Port!stops(rx) \/ Port!restarts(rx))
           /\ Port!controlled(enabled)
           /\ send = ixoff_send /\ place = at
           /\ UNCHANGED <<in_ring, in_sem, ixoff_stopped, received>>
  <2>1. /\ in_ring' = in_ring /\ in_sem' = in_sem /\ ixoff_stopped' = ixoff_stopped
        /\ received' = received
    BY <1>1
  <2>2. Got(place)
    BY <1>1, <2>1 DEF Got
  <2>3. ixon_stopped' = Port!stops(rx) /\ enabled = (send_enabled \/ Port!restarts(rx))
    BY <1>1 DEF Port!controlled
  <2>4. ixon_stopped' \in BOOLEAN
    BY <2>3 DEF Port!stops
  <2>5. send # "none" \/ (~ixon_stopped' /\ ~Port!is_empty(out_ring)) => enabled
    BY <1>t, <1>1, <2>3, Zenon
  <2>6. send = ixoff_send /\ ixoff_stopped' = ixoff_stopped
    BY <1>1
  <2> QED BY <1>t, <2>2, <2>4, <2>5, <2>6, Zenon DEF HalfDone
<1>2. CASE /\ rx # "none" /\ ~Port!stops(rx) /\ ~Port!restarts(rx) /\ ~Port!is_full(in_ring)
           /\ Port!stored(enabled, send, place)
           /\ UNCHANGED ixon_stopped
  <2> DEFINE r == Port!put(in_ring, Port!next(received))
  <2>1. /\ in_ring' = r /\ received' = Port!next(received)
        /\ place \in Port!signalled(at, "reading", "waits_in")
        /\ in_sem' = Port!sig_sem(in_sem, at, "waits_in")
        /\ ixoff_stopped' = (ixoff_stopped \/ Port!must_stop(r))
        /\ enabled = (send_enabled \/ Port!must_stop(r))
        /\ send = IF Port!must_stop(r) THEN "STOP" ELSE ixoff_send
    BY <1>2 DEF Port!stored
  <2>2. Got(place)
    BY <1>2, <2>1 DEF Got
  <2> HIDE DEF r
  <2>3. CASE Port!must_stop(r)
    <3>1. ixoff_stopped' = TRUE /\ enabled /\ send = "STOP" /\ ixon_stopped' = ixon_stopped
      BY <1>2, <2>1, <2>3
    <3>2. "STOP" # "none" /\ "STOP" \in {"none", "START", "STOP"}
      OBVIOUS
    <3> QED BY <1>t, <2>2, <3>1, <3>2, Zenon DEF HalfDone
  <2>4. CASE ~Port!must_stop(r)
    <3>1. send = ixoff_send /\ ixon_stopped' = ixon_stopped
      BY <1>2, <2>1, <2>4
    <3>2. (ixoff_stopped' = ixoff_stopped) /\ (enabled = send_enabled)
      BY <1>t, <2>1, <2>4, Zenon
    <3> QED BY <1>t, <2>2, <3>1, <3>2, Zenon DEF HalfDone
  <2> QED BY <2>3, <2>4
<1>3. CASE /\ rx = "none" \/ (~Port!stops(rx) /\ ~Port!restarts(rx) /\ Port!is_full(in_ring))
           /\ enabled = send_enabled /\ send = ixoff_send /\ place = at
           /\ UNCHANGED <<in_ring, in_sem, ixon_stopped, ixoff_stopped, received>>
  <2>1. /\ in_ring' = in_ring /\ in_sem' = in_sem /\ ixoff_stopped' = ixoff_stopped
        /\ received' = received /\ ixon_stopped' = ixon_stopped
    BY <1>3
  <2>2. Got(place)
    BY <1>3, <2>1 DEF Got
  <2>3. enabled = send_enabled /\ send = ixoff_send
    BY <1>3, Zenon
  <2> QED BY <1>t, <2>1, <2>2, <2>3, Zenon DEF HalfDone
<1> QED BY <1>1, <1>2, <1>3, Zenon DEF Port!receive

(* The output half leaves nothing behind that nobody will send.            *)
LEMMA HardTransmits ==
  ASSUME HardInv, init_flag, NEW enabled \in BOOLEAN, NEW send, NEW place,
         HalfDone(enabled, send), Port!transmit(enabled, send, place),
         tx_int' = FALSE, UNCHANGED init_flag
  PROVE  /\ Gave(place) /\ SendingRight' /\ Port!ToldRight'
         /\ send_enabled' \in BOOLEAN /\ tx_busy' \in BOOLEAN
         /\ ixoff_send' \in {"none", "START", "STOP"} /\ told' \in {"START", "STOP"}
<1>t. /\ send_enabled \in BOOLEAN /\ tx_busy \in BOOLEAN /\ told \in {"START", "STOP"}
  BY Zenon DEF HardInv, HardTypes, PortTypes
<1>m. /\ send \in {"none", "START", "STOP"}
      /\ send # "none" \/ (~ixon_stopped' /\ ~Port!is_empty(out_ring)) => enabled
      /\ IF send = "none" THEN told = (IF ixoff_stopped' THEN "STOP" ELSE "START")
         ELSE send = (IF ixoff_stopped' THEN "STOP" ELSE "START")
  BY Zenon DEF HalfDone
<1>1. CASE /\ ~tx_busy /\ enabled /\ send # "none"
           /\ told' = send /\ ixoff_send' = "none"
           /\ tx_busy' = TRUE /\ send_enabled' = TRUE
           /\ at' = place
           /\ UNCHANGED <<out_ring, out_sem, sent>>
  <2>1. Gave(place)
    BY <1>1 DEF Gave
  <2>2. SendingRight'
    BY <1>1, Zenon DEF SendingRight
  <2>3. Port!ToldRight'
    BY <1>1, <1>m, Zenon DEF Port!ToldRight
  <2>4. told' \in {"START", "STOP"} /\ ixoff_send' \in {"none", "START", "STOP"}
    BY <1>1, <1>m, Zenon
  <2>5. send_enabled' \in BOOLEAN /\ tx_busy' \in BOOLEAN
    BY <1>1, Zenon
  <2> QED BY <2>1, <2>2, <2>3, <2>4, <2>5, Zenon
<1>2. CASE /\ ~tx_busy /\ enabled /\ send = "none" /\ ~ixon_stopped' /\ ~Port!is_empty(out_ring)
           /\ out_ring' = Port!rest(out_ring) /\ sent' = Port!first(out_ring)
           /\ at' \in Port!signalled(place, "writing", "waits_out")
           /\ out_sem' = Port!sig_sem(out_sem, place, "waits_out")
           /\ tx_busy' = TRUE /\ send_enabled' = TRUE /\ ixoff_send' = "none"
           /\ UNCHANGED told
  <2>1. Gave(place)
    BY <1>2 DEF Gave
  <2>2. SendingRight'
    BY <1>2, Zenon DEF SendingRight
  <2>3. Port!ToldRight'
    BY <1>2, <1>m, Zenon DEF Port!ToldRight
  <2>4. told' \in {"START", "STOP"} /\ ixoff_send' \in {"none", "START", "STOP"}
    BY <1>2, <1>t, Zenon
  <2>5. send_enabled' \in BOOLEAN /\ tx_busy' \in BOOLEAN
    BY <1>2, Zenon
  <2> QED BY <2>1, <2>2, <2>3, <2>4, <2>5, Zenon
<1>3. CASE /\ tx_busy \/ ~enabled \/ (send = "none" /\ (ixon_stopped' \/ Port!is_empty(out_ring)))
           /\ send_enabled' = (enabled /\ tx_busy) /\ ixoff_send' = send
           /\ at' = place
           /\ UNCHANGED <<out_ring, out_sem, sent, tx_busy, told>>
  <2>0. /\ out_ring' = out_ring /\ out_sem' = out_sem /\ sent' = sent
        /\ tx_busy' = tx_busy /\ told' = told
    BY <1>3
  <2>1. Gave(place)
    BY <1>3 DEF Gave
  <2>2. SendingRight'
    <3>1. Port!is_empty(out_ring)' <=> Port!is_empty(out_ring)
      BY <2>0 DEF Port!is_empty
    <3>2. send_enabled' => tx_busy'
      <4>1. send_enabled' = (enabled /\ tx_busy) /\ tx_busy' = tx_busy
        BY <1>3
      <4>2. send_enabled' => tx_busy
        BY <4>1
      <4> QED BY <4>1, <4>2
    <3>3. ixoff_send' # "none" \/ (~ixon_stopped' /\ ~Port!is_empty(out_ring)') => send_enabled'
      BY <1>3, <1>m, <3>1, Zenon
    <3> QED BY <3>2, <3>3, Zenon DEF SendingRight
  <2>3. Port!ToldRight'
    BY <1>3, <2>0, <1>m, Zenon DEF Port!ToldRight
  <2>4. told' \in {"START", "STOP"} /\ ixoff_send' \in {"none", "START", "STOP"}
    BY <1>3, <2>0, <1>t, <1>m, Zenon
  <2>5. send_enabled' \in BOOLEAN /\ tx_busy' \in BOOLEAN
    BY <1>3, <2>0, <1>t, Zenon
  <2> QED BY <2>1, <2>2, <2>3, <2>4, <2>5, Zenon
<1> QED BY <1>1, <1>2, <1>3, Zenon DEF Port!transmit

(* serial_int_handler                                                      *)
LEMMA HardHandles ==
  ASSUME DevicesAssumption, HardInv, Port!serial_int_handler
  PROVE  HardInv'
<1>1. /\ init_flag
      /\ \E enabled \in BOOLEAN, send \in {"none", "START", "STOP"},
            place \in {at} \cup Port!signalled(at, "reading", "waits_in") :
           Port!receive(enabled, send, place) /\ Port!transmit(enabled, send, place)
      /\ rx' = "none" /\ tx_int' = FALSE
      /\ UNCHANGED <<left, flowc, taken, written, init_flag>>
  BY DEF Port!serial_int_handler
<1>2. PICK enabled \in BOOLEAN, send \in {"none", "START", "STOP"},
           place \in {at} \cup Port!signalled(at, "reading", "waits_in") :
        Port!receive(enabled, send, place) /\ Port!transmit(enabled, send, place)
  BY <1>1
<1>3. Got(place) /\ HalfDone(enabled, send)
  BY <1>1, <1>2, HardReceives
<1>4. /\ Gave(place) /\ SendingRight' /\ Port!ToldRight'
      /\ send_enabled' \in BOOLEAN /\ tx_busy' \in BOOLEAN
      /\ ixoff_send' \in {"none", "START", "STOP"} /\ told' \in {"START", "STOP"}
  BY <1>1, <1>2, <1>3, HardTransmits
<1>5. /\ in_ring' \in Port!Ring /\ received' \in Char
      /\ out_ring' \in Port!Ring /\ sent' \in Char
      /\ at' \in [PortTask -> Port!PlacesOfTasks] /\ Needed(at)'
      /\ PortCounts' /\ InputRight' /\ (OutputRight => OutputRight')
  BY <1>1, <1>3, <1>4, RoundKeeps DEF HardInv
<1>6. PortTypes'
  <2>1. ixon_stopped' \in BOOLEAN /\ ixoff_stopped' \in BOOLEAN
    BY <1>3 DEF HalfDone
  <2> QED BY <1>1, <1>4, <1>5, <2>1 DEF HardInv, PortTypes, Needed
<1>7. HardTypes' /\ Unused'
  <2>1. init_flag' /\ init_flag' \in BOOLEAN /\ tx_int' \in BOOLEAN
    BY <1>1 DEF HardInv, HardTypes
  <2> QED BY <1>1, <1>4, <2>1, Zenon DEF HardTypes, Unused
<1> QED BY <1>4, <1>5, <1>6, <1>7 DEF HardInv

(* A port without characters, whose tasks do nothing.                      *)
LEMMA EmptyPort ==
  ASSUME DevicesAssumption, NEW place, \A t \in PortTask : place[t] = "idle"
  PROVE  /\ Port!empty_ring \in Port!Ring /\ Port!is_empty(Port!empty_ring)
         /\ Given(Size(Port!empty_ring), 0, place, "reading", "waits_in")
         /\ Given(Room(Port!empty_ring), SERIAL_BUFSZ - 1, place, "writing", "waits_out")
         /\ Numbered(Port!empty_ring, 0, 0) /\ 0 \in Char
<1>1. Port!empty_ring \in Port!Ring /\ Port!is_empty(Port!empty_ring)
  <2>1. SERIAL_BUFSZ \in Nat \ {0, 1} /\ 0 \in 0 .. LAST - 1 /\ 0 \in 0 .. SERIAL_BUFSZ - 1
    BY PortConstants DEF Char
  <2> QED BY <2>1 DEF Port!empty_ring, Port!Ring, Port!is_empty
<1>2. Size(Port!empty_ring) = 0 /\ Numbered(Port!empty_ring, 0, 0) /\ 0 \in Char
  BY <1>1, NumberedEmpty, PortConstants
<1>3. ASSUME NEW p, p # "idle" PROVE Count(place, p) = 0
  <2>1. {t \in PortTask : place[t] = p} = {}
    BY <1>3
  <2> QED BY <2>1, FS_EmptySet DEF Count
<1>4. Count(place, "reading") = 0 /\ Count(place, "writing") = 0
  BY <1>3
<1>5. Given(Size(Port!empty_ring), 0, place, "reading", "waits_in")
  BY <1>2, <1>4 DEF Given
<1>6. Given(Room(Port!empty_ring), SERIAL_BUFSZ - 1, place, "writing", "waits_out")
  <2>1. SERIAL_BUFSZ - 1 \in Nat
    BY PortConstants
  <2> QED BY <1>2, <1>4, <2>1 DEF Given, Room
<1> QED BY <1>1, <1>2, <1>5, <1>6

(* The port at the start, whichever driver it belongs to.                  *)
LEMMA PortStarts ==
  ASSUME DevicesAssumption, Port!init_port, told = "START"
  PROVE  PortTypes /\ PortCounts /\ InputRight /\ OutputRight /\ Port!is_empty(out_ring)
         /\ \A t \in PortTask : at[t] = "idle"
<1>1. /\ in_ring = Port!empty_ring /\ out_ring = Port!empty_ring
      /\ in_sem = 0 /\ out_sem = SERIAL_BUFSZ - 1
      /\ at = [t \in PortTask |-> "idle"] /\ left = [t \in PortTask |-> 0]
      /\ flowc \in Flowc /\ ixon_stopped = FALSE /\ ixoff_stopped = FALSE
      /\ ixoff_send = "none" /\ received = 0 /\ taken = 0 /\ written = 0 /\ sent = 0
  BY DEF Port!init_port
<1>2. \A t \in PortTask : at[t] = "idle"
  BY <1>1
<1>3. /\ Port!empty_ring \in Port!Ring /\ Port!is_empty(Port!empty_ring)
      /\ Given(Size(Port!empty_ring), 0, at, "reading", "waits_in")
      /\ Given(Room(Port!empty_ring), SERIAL_BUFSZ - 1, at, "writing", "waits_out")
      /\ Numbered(Port!empty_ring, 0, 0) /\ 0 \in Char
  BY <1>2, EmptyPort
<1>4. PortTypes
  <2>1. at \in [PortTask -> Port!PlacesOfTasks] /\ left \in [PortTask -> 0 .. 2]
    BY <1>1 DEF Port!PlacesOfTasks
  <2> QED BY <1>1, <1>2, <1>3, <2>1 DEF PortTypes
<1> QED BY <1>1, <1>2, <1>3, <1>4 DEF PortCounts, InputRight, OutputRight

(* The driver's own start, and serial_init.                                *)
LEMMA HardStart ==
  ASSUME DevicesAssumption, Port!SerialInit
  PROVE  HardInv
<1>1. /\ Port!init_port /\ init_flag = TRUE /\ send_enabled = FALSE /\ rx = "none"
      /\ tx_busy = FALSE /\ tx_int = FALSE /\ told = "START"
  BY DEF Port!SerialInit
<1>2. /\ PortTypes /\ PortCounts /\ InputRight /\ OutputRight /\ Port!is_empty(out_ring)
      /\ \A t \in PortTask : at[t] = "idle"
  BY <1>1, PortStarts
<1>3. ixoff_send = "none" /\ ixoff_stopped = FALSE
  BY <1>1 DEF Port!init_port
<1>4. HardTypes /\ Unused
  BY <1>1, <1>2 DEF HardTypes, Unused
<1>5. SendingRight /\ Port!ToldRight
  BY <1>1, <1>2, <1>3 DEF SendingRight, Port!ToldRight
<1> QED BY <1>2, <1>4, <1>5 DEF HardInv

(* serial_init                                                             *)
LEMMA HardInits ==
  ASSUME DevicesAssumption, HardInv, Port!serial_init
  PROVE  HardInv'
<1>1. /\ ~init_flag /\ init_flag' = TRUE
      /\ in_ring' = Port!empty_ring /\ out_ring' = Port!empty_ring
      /\ in_sem' = 0 /\ out_sem' = SERIAL_BUFSZ - 1
      /\ ixon_stopped' = FALSE /\ ixoff_stopped' = FALSE /\ ixoff_send' = "none"
      /\ send_enabled' = FALSE
      /\ received' = 0 /\ taken' = 0 /\ written' = 0 /\ sent' = 0
      /\ rx' = "none" /\ tx_busy' = FALSE /\ tx_int' = FALSE /\ told' = "START"
      /\ at' = at /\ left' = left /\ flowc' = flowc
  BY DEF Port!serial_init, Port!callvars
<1>2. \A t \in PortTask : at[t] = "idle"
  BY <1>1, Zenon DEF HardInv, Unused
<1>3. /\ Port!empty_ring \in Port!Ring /\ Port!is_empty(Port!empty_ring)
      /\ Given(Size(Port!empty_ring), 0, at, "reading", "waits_in")
      /\ Given(Room(Port!empty_ring), SERIAL_BUFSZ - 1, at, "writing", "waits_out")
      /\ Numbered(Port!empty_ring, 0, 0) /\ 0 \in Char
  BY <1>2, EmptyPort
<1>4. PortTypes'
  BY <1>1, <1>2, <1>3 DEF HardInv, PortTypes
<1>5. PortCounts' /\ InputRight' /\ OutputRight'
  BY <1>1, <1>3 DEF PortCounts, InputRight, OutputRight, Room, Size, Numbered
<1>6. HardTypes' /\ Unused'
  BY <1>1 DEF HardTypes, Unused
<1>7. SendingRight' /\ Port!ToldRight'
  BY <1>1, <1>3 DEF SendingRight, Port!ToldRight, Port!is_empty
<1> QED BY <1>4, <1>5, <1>6, <1>7 DEF HardInv

(* The rings, the semaphores and the tasks stay.                           *)
LEMMA HardStays ==
  ASSUME HardInv, UNCHANGED <<Port!portvars, told>>
  PROVE  /\ PortTypes' /\ PortCounts' /\ InputRight' /\ OutputRight'
         /\ UNCHANGED <<at, out_ring, ixon_stopped, ixoff_stopped, ixoff_send, told>>
<1>1. UNCHANGED <<in_ring, out_ring, in_sem, out_sem, at, left, flowc, ixon_stopped,
                  ixoff_stopped, ixoff_send, received, taken, written, sent, told>>
  BY DEF Port!portvars, Port!ringvars, Port!semvars, Port!callvars, Port!ixvars, Port!countvars
<1>2. PortTypes'
  BY <1>1 DEF HardInv, PortTypes
<1>3. PortCounts'
  BY <1>1 DEF HardInv, PortCounts, Room, Size
<1>4. InputRight' /\ OutputRight'
  BY <1>1 DEF HardInv, InputRight, OutputRight, Numbered, Size
<1> QED BY <1>1, <1>2, <1>3, <1>4

(* serial_shutdown and the hardware.                                       *)
LEMMA HardRest ==
  ASSUME HardInv, Port!serial_shutdown \/ Port!char_received \/ Port!char_sent
  PROVE  HardInv'
<1>1. UNCHANGED <<Port!portvars, told>>
  BY DEF Port!serial_shutdown, Port!char_received, Port!char_sent, Port!rawvars
<1>2. /\ PortTypes' /\ PortCounts' /\ InputRight' /\ OutputRight'
      /\ UNCHANGED <<at, out_ring, ixon_stopped, ixoff_stopped, ixoff_send, told>>
  BY <1>1, HardStays
<1>3. Port!is_empty(out_ring)' <=> Port!is_empty(out_ring)
  BY <1>2 DEF Port!is_empty
<1>4. CASE Port!serial_shutdown
  <2>1. /\ init_flag' = FALSE /\ \A t \in PortTask : at[t] = "idle"
        /\ UNCHANGED <<send_enabled, rx, tx_busy, tx_int>>
    BY <1>4 DEF Port!serial_shutdown, Port!rawvars
  <2>2. HardTypes' /\ Unused'
    BY <1>2, <2>1 DEF HardInv, HardTypes, Unused
  <2>3. SendingRight' /\ Port!ToldRight'
    BY <2>1, Zenon DEF SendingRight, Port!ToldRight
  <2> QED BY <1>2, <2>2, <2>3 DEF HardInv
<1>5. CASE Port!char_received
  <2>1. /\ rx' \in {"char", "START", "STOP"}
        /\ UNCHANGED <<init_flag, send_enabled, tx_busy, tx_int>>
    BY <1>5 DEF Port!char_received
  <2>2. HardTypes' /\ Unused'
    BY <1>2, <2>1 DEF HardInv, HardTypes, Unused
  <2>3. SendingRight' /\ Port!ToldRight'
    BY <1>2, <1>3, <2>1 DEF HardInv, SendingRight, Port!ToldRight
  <2> QED BY <1>2, <2>2, <2>3 DEF HardInv
<1>6. CASE Port!char_sent
  <2>1. /\ tx_busy' = FALSE /\ tx_int' = send_enabled
        /\ UNCHANGED <<init_flag, send_enabled, rx>>
    BY <1>6 DEF Port!char_sent
  <2>2. HardTypes' /\ Unused'
    BY <1>2, <2>1 DEF HardInv, HardTypes, Unused
  <2>3. SendingRight' /\ Port!ToldRight'
    BY <1>2, <1>3, <2>1 DEF HardInv, SendingRight, Port!ToldRight
  <2> QED BY <1>2, <2>2, <2>3 DEF HardInv
<1> QED BY <1>4, <1>5, <1>6

(* Every step of the port.                                                 *)
LEMMA HardSteps ==
  ASSUME DevicesAssumption, HardInv, Port!SerialNext
  PROVE  HardInv'
<1>1. ASSUME NEW t \in PortTask, Port!TaskStep(t) PROVE HardInv'
  <2>1. CASE /\ init_flag
             /\ Port!serial_read(t) \/ Port!serial_write(t) \/ Port!write_next(t)
                \/ Port!serial_ioctl(t)
             /\ UNCHANGED <<init_flag, send_enabled, Port!rawvars>>
    <3>1. PortCall(t)
      BY <2>1, Zenon DEF PortCall
    <3> QED BY <2>1, <3>1, HardCalls
  <2>2. CASE Port!serial_read_one(t)
    BY <2>2, HardReads
  <2>3. CASE Port!serial_write_one(t)
    BY <2>3, HardWrites
  <2> QED BY <1>1, <2>1, <2>2, <2>3, Zenon DEF Port!TaskStep
<1>2. CASE Port!serial_int_handler
  BY <1>2, HardHandles
<1>3. CASE Port!serial_init
  BY <1>3, HardInits
<1>4. CASE Port!serial_shutdown \/ Port!char_received \/ Port!char_sent
  BY <1>4, HardRest
<1> QED BY <1>1, <1>2, <1>3, <1>4, Zenon DEF Port!SerialNext

(* What the invariant says of the semaphores and the types of a port.      *)
LEMMA PortSays ==
  ASSUME DevicesAssumption, PortTypes, PortCounts, InputRight
  PROVE  Port!PortTypeOK /\ Port!InputInOrder /\ Port!SemaphoresExact
<1>1. /\ Size(in_ring) \in 0 .. SERIAL_BUFSZ - 1 /\ Size(out_ring) \in 0 .. SERIAL_BUFSZ - 1
      /\ DOMAIN Port!contents(in_ring) = 1 .. Size(in_ring)
      /\ Port!contents(in_ring) \in Seq(Char)
  BY RingContents DEF PortTypes
<1>2. /\ in_sem \in Nat /\ in_sem + Count(at, "reading") = Size(in_ring)
      /\ \A t \in PortTask : at[t] = "waits_in" => in_sem = 0
      /\ out_sem \in Nat /\ out_sem + Count(at, "writing") = Room(out_ring)
      /\ \A t \in PortTask : at[t] = "waits_out" => out_sem = 0
  BY DEF PortCounts, Given
<1>3. \A p : Count(at, p) \in Nat
  BY CountNat
<1>4. SERIAL_BUFSZ \in Nat
  BY PortConstants
<1>5. in_sem \in 0 .. SERIAL_BUFSZ - 1 /\ out_sem \in 0 .. SERIAL_BUFSZ - 1
  <2>1. Count(at, "reading") \in Nat /\ Count(at, "writing") \in Nat
    BY <1>3
  <2> QED BY <1>1, <1>2, <1>4, <2>1 DEF Room
<1>6. Port!PortTypeOK
  BY <1>5 DEF PortTypes, Port!PortTypeOK, Char
<1>7. Port!InputInOrder
  <2>1. /\ \A i \in 1 .. Size(in_ring) : Port!contents(in_ring)[i] = (taken + i) % LAST
        /\ received = (taken + Size(in_ring)) % LAST
    BY DEF InputRight, Numbered
  <2>2. Port!contents(in_ring) = [i \in DOMAIN Port!contents(in_ring) |-> (taken + i) % LAST]
    BY <1>1, <2>1
  <2> QED BY <2>1, <2>2 DEF Port!InputInOrder, Size
<1>8. ASSUME NEW p PROVE Port!places(p) = Count(at, p)
  BY DEF Port!places, Count, Port!Cardinality, Cardinality, Port!IsFiniteSet, IsFiniteSet
<1>9. ASSUME NEW p, Count(at, p) > 0 PROVE \E t \in PortTask : at[t] = p
  <2>1. ASSUME {t \in PortTask : at[t] = p} = {} PROVE FALSE
    BY <1>9, <2>1, FS_EmptySet DEF Count
  <2> QED BY <2>1
<1>10. Port!SemaphoresExact
  <2>1. /\ in_sem + Port!places("reading") = Len(Port!contents(in_ring))
        /\ Port!places("waits_in") > 0 => in_sem = 0
        /\ Port!places("waits_out") > 0 => out_sem = 0
    BY <1>2, <1>8, <1>9 DEF Size
  <2>2. out_sem + Port!places("writing") + Len(Port!contents(out_ring)) = SERIAL_BUFSZ - 1
    <3>1. Count(at, "writing") \in Nat /\ Len(Port!contents(out_ring)) = Size(out_ring)
      BY <1>3 DEF Size
    <3>2. out_sem + Count(at, "writing") + Size(out_ring) = SERIAL_BUFSZ - 1
      BY <1>1, <1>2, <1>4, <3>1 DEF Room
    <3> QED BY <1>8, <3>1, <3>2
  <2> QED BY <2>1, <2>2 DEF Port!SemaphoresExact
<1> QED BY <1>6, <1>7, <1>10

(* And of a hardware port.                                                 *)
LEMMA HardSays ==
  ASSUME DevicesAssumption, HardInv
  PROVE  /\ Port!SerialTypeOK /\ Port!InputInOrder /\ Port!OutputInOrder
         /\ Port!SemaphoresExact /\ Port!SendingGoesOn /\ Port!ToldRight
<1>1. Port!PortTypeOK /\ Port!InputInOrder /\ Port!SemaphoresExact
  BY PortSays DEF HardInv
<1>2. Port!SerialTypeOK
  <2>1. rx \in {"none", "char", "START", "STOP"} /\ told \in {"START", "STOP"}
    BY DEF HardInv, HardTypes, PortTypes
  <2>2. {init_flag, send_enabled, tx_busy, tx_int} \subseteq BOOLEAN
    BY Zenon DEF HardInv, HardTypes
  <2> QED BY <1>1, <2>1, <2>2 DEF Port!SerialTypeOK
<1>3. Port!OutputInOrder
  <2>1. /\ \A i \in 1 .. Size(out_ring) : Port!contents(out_ring)[i] = (sent + i) % LAST
        /\ written = (sent + Size(out_ring)) % LAST
    BY DEF HardInv, OutputRight, Numbered
  <2>2. /\ DOMAIN Port!contents(out_ring) = 1 .. Size(out_ring)
        /\ Port!contents(out_ring) \in Seq(Char)
    BY RingContents DEF HardInv, PortTypes
  <2>3. Port!contents(out_ring) = [i \in DOMAIN Port!contents(out_ring) |-> (sent + i) % LAST]
    BY <2>1, <2>2
  <2> QED BY <2>1, <2>3 DEF Port!OutputInOrder, Size
<1>4. Port!SendingGoesOn
  BY Zenon DEF HardInv, SendingRight, Port!SendingGoesOn
<1> QED BY <1>1, <1>2, <1>3, <1>4 DEF HardInv

(***************************************************************************)
(* 6. The port of the simulation on BSD.  The operators of its instance of *)
(* SerialPort are those of the instance for the hardware port.             *)
(***************************************************************************)
LEMMA BsdSame ==
  /\ Bsd!Ring = Port!Ring /\ Bsd!PlacesOfTasks = Port!PlacesOfTasks
  /\ \A r : /\ Bsd!is_empty(r) <=> Port!is_empty(r)
            /\ Bsd!is_full(r) <=> Port!is_full(r)
            /\ Bsd!rest(r) = Port!rest(r) /\ Bsd!first(r) = Port!first(r)
            /\ Bsd!contents(r) = Port!contents(r)
  /\ \A r, c : Bsd!put(r, c) = Port!put(r, c)
  /\ \A n : Bsd!next(n) = Port!next(n)
  /\ \A place, go, wait : Bsd!signalled(place, go, wait) = Port!signalled(place, go, wait)
  /\ \A sems, place, wait : Bsd!sig_sem(sems, place, wait) = Port!sig_sem(sems, place, wait)
  /\ \A t : Bsd!write_done(t) = Port!write_done(t)
<1>1. Bsd!Ring = Port!Ring /\ Bsd!PlacesOfTasks = Port!PlacesOfTasks
  BY DEF Bsd!Ring, Port!Ring, Bsd!PlacesOfTasks, Port!PlacesOfTasks
<1>2. ASSUME NEW x PROVE Bsd!inc(x) = Port!inc(x)
  BY DEF Bsd!inc, Port!inc
<1>3. ASSUME NEW r
      PROVE  /\ Bsd!is_empty(r) <=> Port!is_empty(r)
             /\ Bsd!is_full(r) <=> Port!is_full(r)
             /\ Bsd!rest(r) = Port!rest(r) /\ Bsd!first(r) = Port!first(r)
             /\ Bsd!contents(r) = Port!contents(r)
  <2>1. (Bsd!is_empty(r) <=> Port!is_empty(r)) /\ (Bsd!is_full(r) <=> Port!is_full(r))
    BY <1>2 DEF Bsd!is_empty, Port!is_empty, Bsd!is_full, Port!is_full
  <2>2. Bsd!rest(r) = Port!rest(r)
    BY Zenon DEF Bsd!rest, Port!rest, Bsd!inc, Port!inc
  <2>3. Bsd!first(r) = Port!first(r)
    BY DEF Bsd!first, Port!first
  <2>4. Bsd!contents(r) = Port!contents(r)
    BY Zenon DEF Bsd!contents, Port!contents
  <2> QED BY <2>1, <2>2, <2>3, <2>4
<1>4. ASSUME NEW r, NEW c PROVE Bsd!put(r, c) = Port!put(r, c)
  BY Zenon DEF Bsd!put, Port!put, Bsd!inc, Port!inc
<1>5. ASSUME NEW n PROVE Bsd!next(n) = Port!next(n)
  BY Zenon DEF Bsd!next, Port!next
<1>6. ASSUME NEW place, NEW go, NEW wait
      PROVE  Bsd!signalled(place, go, wait) = Port!signalled(place, go, wait)
  BY Zenon DEF Bsd!signalled, Port!signalled, Bsd!waiters, Port!waiters
<1>7. ASSUME NEW sems, NEW place, NEW wait
      PROVE  Bsd!sig_sem(sems, place, wait) = Port!sig_sem(sems, place, wait)
  BY Zenon DEF Bsd!sig_sem, Port!sig_sem, Bsd!waiters, Port!waiters
<1>8. ASSUME NEW t PROVE Bsd!write_done(t) = Port!write_done(t)
  BY Zenon DEF Bsd!write_done, Port!write_done
<1> QED BY <1>1, <1>3, <1>4, <1>5, <1>6, <1>7, <1>8

(* And the calls of tasks are the same.                                    *)
LEMMA BsdCallsSame ==
  ASSUME NEW t
  PROVE  /\ (Bsd!serial_read(t) \/ Bsd!serial_write(t) \/ Bsd!write_next(t) \/ Bsd!serial_ioctl(t))
              => PortCall(t)
         /\ Bsd!read_done(t) => Port!read_done(t)
<1>1. Bsd!serial_read(t) => Port!serial_read(t)
  BY Zenon DEF Bsd!serial_read, Port!serial_read, Bsd!wai_sem, Port!wai_sem, Bsd!ringvars,
     Port!ringvars, Bsd!ixvars, Port!ixvars, Bsd!countvars, Port!countvars
<1>2. Bsd!serial_write(t) => Port!serial_write(t)
  BY Zenon DEF Bsd!serial_write, Port!serial_write, Bsd!wai_sem, Port!wai_sem, Bsd!ringvars,
     Port!ringvars, Bsd!ixvars, Port!ixvars, Bsd!countvars, Port!countvars
<1>3. Bsd!write_next(t) => Port!write_next(t)
  BY Zenon DEF Bsd!write_next, Port!write_next, Bsd!wai_sem, Port!wai_sem, Bsd!ringvars,
     Port!ringvars, Bsd!ixvars, Port!ixvars, Bsd!countvars, Port!countvars
<1>4. Bsd!serial_ioctl(t) => Port!serial_ioctl(t)
  BY Zenon DEF Bsd!serial_ioctl, Port!serial_ioctl, Bsd!ringvars, Port!ringvars, Bsd!semvars,
     Port!semvars, Bsd!callvars, Port!callvars, Bsd!countvars, Port!countvars
<1>5. Bsd!read_done(t) => Port!read_done(t)
  BY Zenon DEF Bsd!read_done, Port!read_done
<1> QED BY <1>1, <1>2, <1>3, <1>4, <1>5, Zenon DEF PortCall

(* The bound for the characters at the terminal.                           *)
LEMMA LineNat == ASSUME DevicesAssumption PROVE LINE \in Nat
BY DEF DevicesAssumption

BsdTypes ==
  /\ readable \in Seq({"char", "START", "STOP"}) /\ Len(readable) <= LINE
  /\ writable \in BOOLEAN /\ sigio \in BOOLEAN /\ in_callback \in BOOLEAN

(* There is something for the transmitter.                                 *)
ToSend == ixoff_send # "none" \/ (~ixon_stopped /\ ~Port!is_empty(out_ring))

(* Without a notification and outside the callback nothing can be done.    *)
NothingToDo ==
  ~sigio /\ ~in_callback =>
    ~(~Port!is_full(in_ring) /\ readable # <<>>) /\ ~(writable /\ ToSend)

BsdInv == PortTypes /\ PortCounts /\ InputRight /\ BsdTypes /\ NothingToDo

(* The driver begins without characters, and with nothing to do.           *)
LEMMA BsdStart ==
  ASSUME DevicesAssumption, Bsd!BsdInit
  PROVE  BsdInv
<1>1. /\ Bsd!init_port /\ readable = <<>> /\ writable = TRUE /\ sigio = FALSE
      /\ in_callback = FALSE /\ told = "START"
  BY DEF Bsd!BsdInit
<1>2. Port!init_port
  BY <1>1, Zenon DEF Bsd!init_port, Port!init_port, Bsd!empty_ring, Port!empty_ring
<1>3. PortTypes /\ PortCounts /\ InputRight /\ Port!is_empty(out_ring) /\ ixoff_send = "none"
  BY <1>1, <1>2, PortStarts DEF Port!init_port
<1>4. BsdTypes
  <2>1. readable \in Seq({"char", "START", "STOP"}) /\ Len(readable) <= LINE
    BY <1>1, LineNat
  <2>2. writable \in BOOLEAN /\ sigio \in BOOLEAN /\ in_callback \in BOOLEAN
    BY <1>1
  <2> QED BY <2>1, <2>2 DEF BsdTypes
<1>5. NothingToDo
  BY <1>1, <1>3 DEF NothingToDo, ToSend
<1> QED BY <1>3, <1>4, <1>5 DEF BsdInv

(* The calls of tasks.                                                     *)
LEMMA BsdCalls ==
  ASSUME DevicesAssumption, BsdInv, NEW t \in PortTask, PortCall(t), UNCHANGED Bsd!ttyvars
  PROVE  BsdInv'
<1>1. /\ UNCHANGED <<readable, writable, sigio, in_callback, told>>
      /\ UNCHANGED <<in_ring, out_ring, ixon_stopped, ixoff_stopped, ixoff_send, received, taken,
                     written, sent>>
  BY CallsLeave DEF Bsd!ttyvars
<1>2. PortTypes' /\ PortCounts'
  BY <1>1, CallsKeep DEF BsdInv
<1>3. InputRight'
  BY <1>1 DEF BsdInv, InputRight, Numbered, Size
<1>4. BsdTypes' /\ NothingToDo'
  BY <1>1 DEF BsdInv, BsdTypes, NothingToDo, ToSend, Port!is_full, Port!is_empty, Port!inc
<1> QED BY <1>2, <1>3, <1>4 DEF BsdInv

(* serial_read_one                                                         *)
LEMMA BsdReads ==
  ASSUME DevicesAssumption, BsdInv, NEW t \in PortTask, Bsd!serial_read_one(t)
  PROVE  BsdInv'
<1>1. /\ at[t] = "reading" /\ in_ring' = Port!rest(in_ring) /\ taken' = Port!first(in_ring)
      /\ Port!read_done(t) /\ sigio' = (sigio \/ Port!is_full(in_ring))
      /\ UNCHANGED <<out_ring, in_sem, out_sem, flowc, ixon_stopped, received, written, sent,
                     readable, in_callback>>
  <2>1. /\ at[t] = "reading" /\ in_ring' = Bsd!rest(in_ring) /\ taken' = Bsd!first(in_ring)
        /\ Bsd!read_done(t) /\ sigio' = (sigio \/ Bsd!is_full(in_ring))
        /\ UNCHANGED <<out_ring, in_sem, out_sem, flowc, ixon_stopped, received, written, sent,
                       readable, in_callback>>
    BY DEF Bsd!serial_read_one, Bsd!semvars, Bsd!read_signals
  <2>2. sigio' = (sigio \/ Port!is_full(in_ring))
    <3>1. (sigio \/ Bsd!is_full(in_ring)) = (sigio \/ Port!is_full(in_ring))
      BY BsdSame
    <3> QED BY <2>1, <3>1
  <2> QED BY <2>1, <2>2, BsdSame, BsdCallsSame
<1>2. /\ in_ring' \in Port!Ring /\ taken' \in Char
      /\ at' \in [PortTask -> Port!PlacesOfTasks] /\ left' \in [PortTask -> 0 .. 2]
      /\ Needed(at)' /\ PortCounts' /\ InputRight'
  BY <1>1, ReadsOne DEF BsdInv
<1>3. \/ /\ writable /\ writable' \in BOOLEAN
         /\ told' = "START" /\ ixoff_stopped' = FALSE /\ ixoff_send' = ixoff_send
      \/ /\ ~writable /\ ixoff_send' = "START" /\ ixoff_stopped' = FALSE
         /\ UNCHANGED <<writable, told>>
      \/ UNCHANGED <<ixoff_send, ixoff_stopped, writable, told>>
  BY DEF Bsd!serial_read_one, Bsd!write_char
<1>t. /\ BsdTypes /\ PortTypes /\ NothingToDo
      /\ ixoff_stopped \in BOOLEAN /\ ixoff_send \in {"none", "START", "STOP"}
      /\ told \in {"START", "STOP"} /\ writable \in BOOLEAN
  BY DEF BsdInv, PortTypes, BsdTypes
<1>4. /\ ixoff_stopped' \in BOOLEAN /\ ixoff_send' \in {"none", "START", "STOP"}
      /\ told' \in {"START", "STOP"} /\ writable' \in BOOLEAN
  BY <1>3, <1>t, Zenon
<1>5. PortTypes'
  BY <1>1, <1>2, <1>4, <1>t DEF PortTypes, Needed
<1>6. BsdTypes'
  <2>1. sigio' \in BOOLEAN
    BY <1>1, Zenon
  <2> QED BY <1>1, <1>4, <1>t, <2>1 DEF BsdTypes
<1>7. NothingToDo'
  <2>1. SUFFICES ASSUME ~sigio', ~in_callback'
                 PROVE  ~(readable # <<>>)' /\ ~(writable /\ ToSend)'
    BY Zenon DEF NothingToDo
  <2>2. ~sigio /\ ~Port!is_full(in_ring) /\ ~in_callback
    <3>1. in_callback' = in_callback /\ sigio' = (sigio \/ Port!is_full(in_ring))
      BY <1>1
    <3> QED BY <2>1, <3>1, Zenon
  <2>3. readable = <<>> /\ ~(writable /\ ToSend)
    BY <1>t, <2>2, Zenon DEF NothingToDo
  <2>4. /\ ixon_stopped' = ixon_stopped /\ readable' = readable
        /\ Port!is_empty(out_ring)' <=> Port!is_empty(out_ring)
    BY <1>1 DEF Port!is_empty
  <2>5. ~(writable /\ ToSend)'
    <3>1. CASE /\ writable /\ writable' \in BOOLEAN
               /\ told' = "START" /\ ixoff_stopped' = FALSE /\ ixoff_send' = ixoff_send
      BY <2>3, <2>4, <3>1, Zenon DEF ToSend
    <3>2. CASE writable' = writable /\ (~writable \/ ixoff_send' = ixoff_send)
      BY <2>3, <2>4, <3>2, Zenon DEF ToSend
    <3> QED BY <1>3, <3>1, <3>2
  <2> QED BY <2>3, <2>4, <2>5
<1> QED BY <1>2, <1>5, <1>6, <1>7 DEF BsdInv

(* serial_write_one                                                        *)
LEMMA BsdWrites ==
  ASSUME DevicesAssumption, BsdInv, NEW t \in PortTask, Bsd!serial_write_one(t)
  PROVE  BsdInv'
<1>1. /\ at[t] = "writing" /\ written' = Port!next(written) /\ left' = [left EXCEPT ![t] = @ - 1]
      /\ UNCHANGED <<in_ring, in_sem, flowc, ixon_stopped, ixoff_stopped, ixoff_send, received,
                     taken, readable, sigio, in_callback, told>>
  BY BsdSame DEF Bsd!serial_write_one, Bsd!ixvars
<1>2. \/ ~ixon_stopped /\ writable /\ writable' \in BOOLEAN /\ PutsOut(t)
      \/ (ixon_stopped \/ ~writable) /\ PutsIn(t) /\ writable' = writable
  <2>1. CASE ~ixon_stopped /\ Bsd!write_char
             /\ sent' = written'
             /\ at' \in Bsd!signalled(Bsd!write_done(t), "writing", "waits_out")
             /\ out_sem' = Bsd!sig_sem(out_sem, Bsd!write_done(t), "waits_out")
             /\ UNCHANGED out_ring
    BY <2>1, BsdSame DEF PutsOut, Bsd!write_char
  <2>2. CASE (ixon_stopped \/ ~writable)
             /\ out_ring' = Bsd!put(out_ring, written')
             /\ at' = Bsd!write_done(t)
             /\ UNCHANGED <<out_sem, sent, writable>>
    BY <2>2, BsdSame DEF PutsIn
  <2> QED BY <2>1, <2>2, Zenon DEF Bsd!serial_write_one
<1>3. /\ out_ring' \in Port!Ring /\ written' \in Char /\ sent' \in Char
      /\ at' \in [PortTask -> Port!PlacesOfTasks] /\ left' \in [PortTask -> 0 .. 2]
      /\ Needed(at)' /\ PortCounts'
  <2>1. PutsIn(t) \/ PutsOut(t)
    BY <1>2, Zenon
  <2> QED BY <1>1, <2>1, WritesOne DEF BsdInv
<1>4. PortTypes' /\ InputRight'
  BY <1>1, <1>3 DEF BsdInv, PortTypes, InputRight, Numbered, Size, Needed
<1>5. BsdTypes'
  <2>1. writable' \in BOOLEAN
    BY <1>2, Zenon DEF BsdInv, BsdTypes
  <2> QED BY <1>1, <2>1 DEF BsdInv, BsdTypes
<1>6. NothingToDo'
  <2>1. /\ sigio' = sigio /\ in_callback' = in_callback /\ readable' = readable
        /\ ixon_stopped' = ixon_stopped /\ ixoff_send' = ixoff_send
        /\ Port!is_full(in_ring)' <=> Port!is_full(in_ring)
    BY <1>1 DEF Port!is_full, Port!inc
  <2>2. SUFFICES ASSUME ~sigio, ~in_callback PROVE ~(writable /\ ToSend)'
    BY <2>1, Zenon DEF BsdInv, NothingToDo
  <2>3. ~(writable /\ ToSend)
    BY <2>2, Zenon DEF BsdInv, NothingToDo
  <2>4. CASE ~ixon_stopped /\ writable /\ writable' \in BOOLEAN /\ PutsOut(t)
    <3>1. Port!is_empty(out_ring)' <=> Port!is_empty(out_ring)
      BY <2>4 DEF PutsOut, Port!is_empty
    <3> QED BY <2>1, <2>3, <2>4, <3>1, Zenon DEF ToSend
  <2>5. CASE (ixon_stopped \/ ~writable) /\ PutsIn(t) /\ writable' = writable
    BY <2>1, <2>3, <2>5, Zenon DEF ToSend
  <2> QED BY <1>2, <2>4, <2>5, Zenon
<1> QED BY <1>3, <1>4, <1>5, <1>6 DEF BsdInv

(* The input half of serial_int_handler: without flag it has found nothing *)
(* to read.                                                                *)
LEMMA BsdReceives ==
  ASSUME DevicesAssumption, BsdInv, NEW send, NEW place, NEW flag \in BOOLEAN, Bsd!receive(send, place, flag)
  PROVE  /\ Got(place) /\ send \in {"none", "START", "STOP"}
         /\ ixon_stopped' \in BOOLEAN /\ ixoff_stopped' \in BOOLEAN
         /\ readable' \in Seq({"char", "START", "STOP"}) /\ Len(readable') <= LINE
         /\ ~flag => /\ UNCHANGED <<in_ring, readable>>
                     /\ ~(~Port!is_full(in_ring) /\ readable # <<>>)
<1>t. /\ ixon_stopped \in BOOLEAN /\ ixoff_stopped \in BOOLEAN
      /\ ixoff_send \in {"none", "START", "STOP"}
      /\ readable \in Seq({"char", "START", "STOP"}) /\ Len(readable) <= LINE
  BY DEF BsdInv, PortTypes, BsdTypes
<1>r. Bsd!can_read <=> ~Port!is_full(in_ring) /\ readable # <<>>
  BY BsdSame DEF Bsd!can_read
<1>l. ASSUME Bsd!can_read, readable' = Tail(readable)
      PROVE  readable' \in Seq({"char", "START", "STOP"}) /\ Len(readable') <= LINE
  <2>1. readable # <<>>
    BY <1>l, <1>r
  <2>2. Tail(readable) \in Seq({"char", "START", "STOP"}) /\ Len(Tail(readable)) = Len(readable) - 1
    BY <1>t, <2>1
  <2>3. Len(readable) \in Nat
    BY <1>t
  <2> DEFINE n == Len(readable)
             m == Len(readable')
  <2>4. n \in Nat /\ n <= LINE /\ m = n - 1
    BY <1>l, <1>t, <2>2, <2>3
  <2>5. m <= LINE
    <3> HIDE DEF n, m
    <3> QED BY <2>4, LineNat
  <2> QED BY <1>l, <2>2, <2>5
<1>1. CASE /\ Bsd!can_read /\ (Bsd!stops(Head(readable)) \/ Bsd!restarts(Head(readable)))
           /\ readable' = Tail(readable)
           /\ ixon_stopped' = Bsd!stops(Head(readable))
           /\ send = ixoff_send /\ place = at /\ flag
           /\ UNCHANGED <<in_ring, in_sem, ixoff_stopped, received>>
  <2>1. Got(place) /\ send \in {"none", "START", "STOP"} /\ ixoff_stopped' \in BOOLEAN /\ flag
    BY <1>t, <1>1 DEF Got
  <2>2. ixon_stopped' \in BOOLEAN
    BY <1>1 DEF Bsd!stops
  <2>3. readable' \in Seq({"char", "START", "STOP"}) /\ Len(readable') <= LINE
    BY <1>1, <1>l
  <2> QED BY <2>1, <2>2, <2>3
<1>2. CASE /\ Bsd!can_read /\ ~Bsd!stops(Head(readable)) /\ ~Bsd!restarts(Head(readable))
           /\ readable' = Tail(readable)
           /\ in_ring' = Bsd!put(in_ring, Bsd!next(received))
           /\ received' = Bsd!next(received)
           /\ place \in Bsd!signalled(at, "reading", "waits_in")
           /\ in_sem' = Bsd!sig_sem(in_sem, at, "waits_in")
           /\ ixoff_stopped' = (ixoff_stopped \/ Bsd!must_stop(in_ring'))
           /\ send = IF Bsd!must_stop(in_ring') THEN "STOP" ELSE ixoff_send
           /\ flag
           /\ UNCHANGED ixon_stopped
  <2>1. Got(place)
    BY <1>2, <1>r, BsdSame DEF Got
  <2>2. ixon_stopped' \in BOOLEAN /\ ixoff_stopped' \in BOOLEAN
    <3>1. ixon_stopped' = ixon_stopped /\ ixoff_stopped' = (ixoff_stopped \/ Bsd!must_stop(in_ring'))
      BY <1>2
    <3> QED BY <1>t, <3>1, Zenon
  <2>3. send \in {"none", "START", "STOP"}
    BY <1>2, <1>t
  <2>4. readable' \in Seq({"char", "START", "STOP"}) /\ Len(readable') <= LINE
    BY <1>2, <1>l
  <2> QED BY <1>2, <2>1, <2>2, <2>3, <2>4
<1>3. CASE /\ ~Bsd!can_read
           /\ send = ixoff_send /\ place = at /\ ~flag
           /\ UNCHANGED <<readable, in_ring, in_sem, ixon_stopped, ixoff_stopped, received>>
  BY <1>3, <1>t, <1>r DEF Got
<1> QED BY <1>1, <1>2, <1>3, Zenon DEF Bsd!receive

(* The output half: without flag it has found nothing that it could send.  *)
LEMMA BsdTransmits ==
  ASSUME BsdInv, NEW send \in {"none", "START", "STOP"}, NEW place, NEW flag \in BOOLEAN,
         Bsd!transmit(send, place, flag)
  PROVE  /\ Gave(place) /\ ixoff_send' \in {"none", "START", "STOP"}
         /\ told' \in {"START", "STOP"} /\ writable' \in BOOLEAN
         /\ ~flag => ~(writable' /\ ToSend')
<1>t. told \in {"START", "STOP"} /\ writable \in BOOLEAN
  BY DEF BsdInv, PortTypes, BsdTypes
<1>s. Bsd!can_send(send) <=> send # "none" \/ (~ixon_stopped' /\ ~Port!is_empty(out_ring))
  BY BsdSame DEF Bsd!can_send
<1>1. CASE /\ send # "none" /\ Bsd!write_char
           /\ told' = send /\ ixoff_send' = "none"
           /\ at' = place /\ flag
           /\ UNCHANGED <<out_ring, out_sem, sent>>
  <2>1. Gave(place) /\ told' \in {"START", "STOP"} /\ ixoff_send' \in {"none", "START", "STOP"}
    BY <1>1 DEF Gave
  <2>2. writable' \in BOOLEAN
    BY <1>1 DEF Bsd!write_char
  <2> QED BY <1>1, <2>1, <2>2
<1>2. CASE /\ send = "none" /\ Bsd!can_send(send) /\ Bsd!write_char
           /\ out_ring' = Bsd!rest(out_ring) /\ sent' = Bsd!first(out_ring)
           /\ at' \in Bsd!signalled(place, "writing", "waits_out")
           /\ out_sem' = Bsd!sig_sem(out_sem, place, "waits_out")
           /\ ixoff_send' = send /\ flag
           /\ UNCHANGED told
  <2>1. ~Port!is_empty(out_ring)
    BY <1>2, <1>s
  <2>2. Gave(place)
    BY <1>2, <2>1, BsdSame DEF Gave
  <2>3. writable' \in BOOLEAN
    BY <1>2 DEF Bsd!write_char
  <2> QED BY <1>2, <1>t, <2>2, <2>3
<1>3. CASE /\ ~writable \/ ~Bsd!can_send(send)
           /\ ixoff_send' = send /\ at' = place /\ ~flag
           /\ UNCHANGED <<out_ring, out_sem, sent, writable, told>>
  <2>1. Gave(place)
    BY <1>3 DEF Gave
  <2>2. writable' = writable /\ told' = told /\ ixoff_send' = send
        /\ (Port!is_empty(out_ring)' <=> Port!is_empty(out_ring))
    BY <1>3 DEF Port!is_empty
  <2>3. ToSend' <=> Bsd!can_send(send)
    BY <1>s, <2>2, Zenon DEF ToSend
  <2>4. ~(writable' /\ ToSend')
    <3>1. ~writable \/ ~Bsd!can_send(send)
      BY <1>3
    <3>2. writable' = writable
      BY <2>2
    <3>3. CASE ~writable
      <4>1. writable' = FALSE
        BY <1>t, <3>2, <3>3
      <4> QED BY <4>1
    <3> QED BY <2>3, <3>1, <3>3, Zenon
  <2> QED BY <1>t, <2>1, <2>2, <2>4
<1> QED BY <1>1, <1>2, <1>3, Zenon DEF Bsd!transmit

(* One round of serial_sigio_callback.                                     *)
LEMMA BsdHandles ==
  ASSUME DevicesAssumption, BsdInv, Bsd!serial_sigio_callback
  PROVE  BsdInv'
<1>1. /\ \E flag \in BOOLEAN : Bsd!serial_int_handler(flag) /\ in_callback' = flag
      /\ UNCHANGED <<left, flowc, taken, written, sigio>>
  BY DEF Bsd!serial_sigio_callback
<1>2. PICK flag \in BOOLEAN : Bsd!serial_int_handler(flag) /\ in_callback' = flag
  BY <1>1
<1>3. PICK got \in BOOLEAN, gave \in BOOLEAN, send \in {"none", "START", "STOP"},
           place \in {at} \cup Bsd!signalled(at, "reading", "waits_in") :
        /\ Bsd!receive(send, place, got) /\ Bsd!transmit(send, place, gave)
        /\ flag = (got \/ gave)
  BY <1>2, Zenon DEF Bsd!serial_int_handler
<1>4. /\ Got(place)
      /\ ixon_stopped' \in BOOLEAN /\ ixoff_stopped' \in BOOLEAN
      /\ readable' \in Seq({"char", "START", "STOP"}) /\ Len(readable') <= LINE
      /\ ~got => /\ UNCHANGED <<in_ring, readable>>
                 /\ ~(~Port!is_full(in_ring) /\ readable # <<>>)
  BY <1>3, BsdReceives
<1>5. /\ Gave(place) /\ ixoff_send' \in {"none", "START", "STOP"}
      /\ told' \in {"START", "STOP"} /\ writable' \in BOOLEAN
      /\ ~gave => ~(writable' /\ ToSend')
  BY <1>3, BsdTransmits
<1>6. /\ in_ring' \in Port!Ring /\ received' \in Char
      /\ out_ring' \in Port!Ring /\ sent' \in Char
      /\ at' \in [PortTask -> Port!PlacesOfTasks] /\ Needed(at)'
      /\ PortCounts' /\ InputRight'
  <2>1. UNCHANGED <<left, taken, written>> /\ PortTypes /\ PortCounts /\ InputRight
    BY <1>1 DEF BsdInv
  <2> QED BY <1>4, <1>5, <2>1, RoundKeeps
<1>7. PortTypes'
  BY <1>1, <1>4, <1>5, <1>6 DEF BsdInv, PortTypes, Needed
<1>8. BsdTypes'
  <2>1. in_callback' \in BOOLEAN /\ sigio' \in BOOLEAN
    BY <1>1, <1>2 DEF BsdInv, BsdTypes
  <2> QED BY <1>4, <1>5, <2>1 DEF BsdTypes
<1>9. NothingToDo'
  <2>1. SUFFICES ASSUME ~in_callback'
                 PROVE  ~(~Port!is_full(in_ring) /\ readable # <<>>)' /\ ~(writable /\ ToSend)'
    BY Zenon DEF NothingToDo
  <2>2. ~got /\ ~gave
    BY <1>2, <1>3, <2>1, Zenon
  <2>3. /\ readable' = readable /\ ~(~Port!is_full(in_ring) /\ readable # <<>>)
        /\ Port!is_full(in_ring)' <=> Port!is_full(in_ring)
    BY <1>4, <2>2 DEF Port!is_full, Port!inc
  <2> QED BY <1>5, <2>2, <2>3, Zenon
<1> QED BY <1>6, <1>7, <1>8, <1>9 DEF BsdInv

(* The task of SIGIO, and the terminal.                                    *)
LEMMA BsdRest ==
  ASSUME DevicesAssumption, BsdInv, Bsd!bsd_sigio_task \/ Bsd!char_received \/ Bsd!room_made
  PROVE  BsdInv'
<1>1. UNCHANGED <<Port!portvars, told>>
  BY Zenon DEF Bsd!bsd_sigio_task, Bsd!char_received, Bsd!room_made, Bsd!portvars, Port!portvars,
     Bsd!ringvars, Port!ringvars, Bsd!semvars, Port!semvars, Bsd!callvars, Port!callvars,
     Bsd!ixvars, Port!ixvars, Bsd!countvars, Port!countvars
<1>2. UNCHANGED <<in_ring, out_ring, in_sem, out_sem, at, left, flowc, ixon_stopped,
                  ixoff_stopped, ixoff_send, received, taken, written, sent, told>>
  BY <1>1 DEF Port!portvars, Port!ringvars, Port!semvars, Port!callvars, Port!ixvars, Port!countvars
<1>3. PortTypes' /\ PortCounts' /\ InputRight'
  BY <1>2 DEF BsdInv, PortTypes, PortCounts, InputRight, Room, Size, Numbered
<1>4. NothingToDo'
  <2>1. sigio' \/ in_callback'
    BY DEF Bsd!bsd_sigio_task, Bsd!char_received, Bsd!room_made
  <2> QED BY <2>1, Zenon DEF NothingToDo
<1>t. /\ readable \in Seq({"char", "START", "STOP"}) /\ Len(readable) <= LINE
      /\ writable \in BOOLEAN /\ sigio \in BOOLEAN /\ in_callback \in BOOLEAN
  BY DEF BsdInv, BsdTypes
<1>5. writable' \in BOOLEAN /\ sigio' \in BOOLEAN /\ in_callback' \in BOOLEAN
  BY <1>t DEF Bsd!bsd_sigio_task, Bsd!char_received, Bsd!room_made
<1>6. readable' \in Seq({"char", "START", "STOP"}) /\ Len(readable') <= LINE
  <2>1. CASE readable' = readable
    BY <1>t, <2>1
  <2>2. CASE readable' # readable
    <3>1. Len(readable) < LINE
      BY <2>2 DEF Bsd!bsd_sigio_task, Bsd!char_received, Bsd!room_made
    <3>2. PICK c \in {"char", "START", "STOP"} : readable' = Append(readable, c)
      BY <2>2 DEF Bsd!bsd_sigio_task, Bsd!char_received, Bsd!room_made
    <3>3. Len(readable) \in Nat /\ Len(readable') = Len(readable) + 1
          /\ readable' \in Seq({"char", "START", "STOP"})
      BY <1>t, <3>2
    <3> DEFINE n == Len(readable)
    <3>4. n \in Nat /\ n < LINE
      BY <3>1, <3>3
    <3>5. n + 1 <= LINE
      <4> HIDE DEF n
      <4> QED BY <3>4, LineNat
    <3> QED BY <3>3, <3>5
  <2> QED BY <2>1, <2>2
<1> QED BY <1>3, <1>4, <1>5, <1>6 DEF BsdInv, BsdTypes

(* Every step of the port.                                                 *)
LEMMA BsdSteps ==
  ASSUME DevicesAssumption, BsdInv, Bsd!BsdNext
  PROVE  BsdInv'
<1>1. ASSUME NEW t \in PortTask, Bsd!TaskStep(t) PROVE BsdInv'
  <2>1. CASE /\ Bsd!serial_read(t) \/ Bsd!serial_write(t) \/ Bsd!write_next(t)
                \/ Bsd!serial_ioctl(t)
             /\ UNCHANGED Bsd!ttyvars
    BY <2>1, BsdCallsSame, BsdCalls
  <2>2. CASE Bsd!serial_read_one(t)
    BY <2>2, BsdReads
  <2>3. CASE Bsd!serial_write_one(t)
    BY <2>3, BsdWrites
  <2> QED BY <1>1, <2>1, <2>2, <2>3, Zenon DEF Bsd!TaskStep
<1>2. CASE Bsd!serial_sigio_callback
  BY <1>2, BsdHandles
<1>3. CASE Bsd!bsd_sigio_task \/ Bsd!char_received \/ Bsd!room_made
  BY <1>3, BsdRest
<1> QED BY <1>1, <1>2, <1>3, Zenon DEF Bsd!BsdNext

(* What the invariant says.                                                *)
LEMMA BsdSays ==
  ASSUME DevicesAssumption, BsdInv
  PROVE  /\ Bsd!BsdTypeOK /\ Bsd!InputInOrder /\ Bsd!SemaphoresExact /\ Bsd!NothingLeft
<1>1. Port!PortTypeOK /\ Port!InputInOrder /\ Port!SemaphoresExact
  BY PortSays DEF BsdInv
<1>2. Bsd!PortTypeOK
  BY <1>1, BsdSame, Zenon DEF Bsd!PortTypeOK, Port!PortTypeOK
<1>3. Bsd!BsdTypeOK
  <2>1. told \in {"START", "STOP"} /\ readable \in Seq({"char", "START", "STOP"})
        /\ Len(readable) <= LINE
    BY DEF BsdInv, BsdTypes, PortTypes
  <2>2. {writable, sigio, in_callback} \subseteq BOOLEAN
    BY Zenon DEF BsdInv, BsdTypes
  <2> QED BY <1>2, <2>1, <2>2 DEF Bsd!BsdTypeOK
<1>4. Bsd!InputInOrder
  BY <1>1, BsdSame, Zenon DEF Bsd!InputInOrder, Port!InputInOrder
<1>5. Bsd!SemaphoresExact
  <2>1. ASSUME NEW p PROVE Bsd!places(p) = Port!places(p)
    BY Zenon DEF Bsd!places, Port!places, Bsd!Cardinality, Port!Cardinality, Bsd!IsFiniteSet, Port!IsFiniteSet
  <2> QED BY <1>1, <2>1, BsdSame DEF Bsd!SemaphoresExact, Port!SemaphoresExact
<1>6. Bsd!NothingLeft
  <2>1. Bsd!something_to_send <=> ToSend
    BY BsdSame DEF Bsd!something_to_send, ToSend
  <2>2. Bsd!can_read <=> ~Port!is_full(in_ring) /\ readable # <<>>
    BY BsdSame DEF Bsd!can_read
  <2> QED BY <2>1, <2>2, Zenon DEF BsdInv, NothingToDo, Bsd!NothingLeft
<1> QED BY <1>3, <1>4, <1>5, <1>6

(***************************************************************************)
(* 7. The whole instance.                                                  *)
(***************************************************************************)
PortInv ==
  /\ part \in {"serial", "serial_output"} => HardInv
  /\ part = "bsd_serial" => BsdInv

(* A step is one of the part that works.                                   *)
LEMMA StepsOfParts ==
  ASSUME DevicesNext
  PROVE  /\ part' = part
         /\ part \in {"serial", "serial_output"} => Port!SerialNext
         /\ part = "bsd_serial" => Bsd!BsdNext
         /\ part = "nonblocking_io" => Files!Next
         /\ part = "system_log" => Log!Next
<1>1. part' = part
  BY DEF DevicesNext
<1>2. /\ SerialStep => part = "serial" /\ Port!SerialNext
      /\ SerialOutputStep => part = "serial_output" /\ Port!SerialNext
      /\ BsdSerialStep => part = "bsd_serial" /\ Bsd!BsdNext
      /\ NonblockingIOStep => part = "nonblocking_io" /\ Files!Next
      /\ SystemLogStep => part = "system_log" /\ Log!Next
  BY Zenon DEF SerialStep, SerialOutputStep, BsdSerialStep, NonblockingIOStep, SystemLogStep
<1>3. SerialStep \/ SerialOutputStep \/ BsdSerialStep \/ NonblockingIOStep \/ SystemLogStep
  BY Zenon DEF DevicesNext
<1> QED BY <1>1, <1>2, <1>3

(* Nothing happens to the ports.                                           *)
LEMMA PortsStay ==
  ASSUME PortInv, UNCHANGED devvars
  PROVE  PortInv'
<1>1. UNCHANGED <<part, in_ring, out_ring, in_sem, out_sem, at, left, flowc, ixon_stopped,
                  ixoff_stopped, ixoff_send, received, taken, written, sent, told,
                  init_flag, send_enabled, rx, tx_busy, tx_int,
                  readable, writable, sigio, in_callback>>
  BY DEF devvars, portvars, hardvars, ttyvars
<1>2. ASSUME PortTypes PROVE PortTypes'
  BY <1>1, <1>2 DEF PortTypes
<1>3. ASSUME PortCounts PROVE PortCounts'
  BY <1>1, <1>3 DEF PortCounts, Room, Size
<1>4. /\ InputRight => InputRight'
      /\ OutputRight => OutputRight'
  BY <1>1 DEF InputRight, OutputRight, Numbered, Size
<1>5. ASSUME HardInv PROVE HardInv'
  <2>1. HardTypes' /\ Unused'
    BY <1>1, <1>5 DEF HardInv, HardTypes, Unused
  <2>2. SendingRight' /\ Port!ToldRight'
    BY <1>1, <1>5 DEF HardInv, SendingRight, Port!ToldRight, Port!is_empty
  <2> QED BY <1>2, <1>3, <1>4, <1>5, <2>1, <2>2 DEF HardInv
<1>6. ASSUME BsdInv PROVE BsdInv'
  <2>1. BsdTypes' /\ NothingToDo'
    BY <1>1, <1>6 DEF BsdInv, BsdTypes, NothingToDo, ToSend, Port!is_full, Port!is_empty, Port!inc
  <2> QED BY <1>2, <1>3, <1>4, <1>6, <2>1 DEF BsdInv
<1> QED BY <1>1, <1>5, <1>6 DEF PortInv

(* The invariant of the ports is one.                                      *)
LEMMA PortsAlways == DevicesSpec => []PortInv
<1>1. DevicesInit => PortInv
  <2> SUFFICES ASSUME DevicesInit PROVE PortInv
    OBVIOUS
  <2>1. PortInit
    BY DEF DevicesInit
  <2>2. part \in {"serial", "serial_output"} => Port!SerialInit
    BY <2>1 DEF PortInit
  <2>3. part = "bsd_serial" => Bsd!BsdInit
    BY <2>1 DEF PortInit
  <2> QED BY <2>2, <2>3, HardStart, BsdStart, DevicesAssumption DEF PortInv
<1>2. PortInv /\ [DevicesNext]_devvars => PortInv'
  <2> SUFFICES ASSUME PortInv, [DevicesNext]_devvars PROVE PortInv'
    OBVIOUS
  <2>1. CASE DevicesNext
    BY <2>1, StepsOfParts, HardSteps, BsdSteps, DevicesAssumption DEF PortInv
  <2>2. CASE UNCHANGED devvars
    BY <2>2, PortsStay
  <2> QED BY <2>1, <2>2
<1> QED BY <1>1, <1>2, PTL DEF DevicesSpec

(* The characters keep their order: those received on any port, whatever   *)
(* tasks, handler and callback do to its ring, and those written to a      *)
(* hardware port, whether they pass the buffer or go through it.           *)
THEOREM PortsKeepOrder == DevicesSpec => []CharactersInOrder
<1>1. PortInv => CharactersInOrder
  BY HardSays, BsdSays, DevicesAssumption DEF PortInv, CharactersInOrder
<1> QED BY <1>1, PortsAlways, PTL

(* The semaphores count the characters and the room in the rings, what can *)
(* be sent has an interrupt or a notification to come, and the other side  *)
(* of a hardware port knows, or is going to be told, whether it may send.  *)
THEOREM PortsGoOn == DevicesSpec => []PortGoesOn
<1>1. PortInv => PortGoesOn
  <2> SUFFICES ASSUME PortInv PROVE PortGoesOn
    OBVIOUS
  <2>1. CASE part \in {"serial", "serial_output"}
    BY <2>1, HardSays, DevicesAssumption DEF PortInv, PortGoesOn
  <2>2. CASE part = "bsd_serial"
    BY <2>2, BsdSays, DevicesAssumption DEF PortInv, PortGoesOn
  <2>3. CASE part \notin {"serial", "serial_output", "bsd_serial"}
    BY <2>3 DEF PortGoesOn
  <2> QED BY <2>1, <2>2, <2>3
<1> QED BY <1>1, PortsAlways, PTL

(* A call on a file returns only with a result, what the callback finds    *)
(* for a task reaches it, asleep or not, and the queue holds the blocks of *)
(* calls that go on and has one user at a time, whether the kernel lets    *)
(* tasks wake themselves or not.                                           *)
THEOREM FilesGetResults == DevicesSpec => []CallsGetResults
<1>1. DevicesInit => FilesInv
  <2>1. DevicesInit /\ part = "nonblocking_io" => Files!Init
    BY DEF DevicesInit, FilesInit
  <2> QED BY <2>1, FilesStart, DevicesAssumption DEF FilesInv
<1>2. FilesInv /\ [DevicesNext]_devvars => FilesInv'
  <2> SUFFICES ASSUME FilesInv, [DevicesNext]_devvars PROVE FilesInv'
    OBVIOUS
  <2>1. CASE DevicesNext
    <3>1. part' = part /\ (part = "nonblocking_io" => Files!Next)
      BY <2>1, StepsOfParts
    <3> QED BY <3>1, FilesKept, FilesBoundsKept, DevicesAssumption DEF FilesInv
  <2>2. CASE UNCHANGED devvars
    <3>1. UNCHANGED <<part, ready, nb_sigio, sigio_task, q, sigio_queue, sem, sem_queue, nb_at,
                      args, result, wupcnt>>
      BY <2>2 DEF devvars, filevars
    <3> QED BY <3>1 DEF FilesInv, FilesTypes, FilesBounds, SemHeld, CallsRun
  <2> QED BY <2>1, <2>2
<1>3. FilesInv => CallsGetResults
  BY FilesSay, DevicesAssumption
<1> QED BY <1>1, <1>2, <1>3, PTL DEF DevicesSpec

(* No message is lost before the log task ends, and none waits in the      *)
(* buffer while the log task waits for one.                                *)
THEOREM LogLosesNothing == DevicesSpec => []LogComplete
<1>1. DevicesInit => LogInv
  <2>1. DevicesInit /\ part = "system_log" => Log!Init
    BY DEF DevicesInit, LogInit
  <2> QED BY <2>1, LogStart, DevicesAssumption DEF LogInv
<1>2. LogInv /\ [DevicesNext]_devvars => LogInv'
  <2> SUFFICES ASSUME LogInv, [DevicesNext]_devvars PROVE LogInv'
    OBVIOUS
  <2>1. CASE DevicesNext
    <3>1. part' = part /\ (part = "system_log" => Log!Next)
      BY <2>1, StepsOfParts
    <3> QED BY <3>1, LogTypesKept, LogBoundsKept, LogRunsKept, DevicesAssumption DEF LogInv
  <2>2. CASE UNCHANGED devvars
    <3>1. UNCHANGED <<part, made, logtask_alive, mbf, log_task, logtask_buf, log_at, string, output>>
      BY <2>2 DEF devvars, logvars
    <3> QED BY <3>1 DEF LogInv, LogTypes, LogBounds, LogRuns, placed, Log!NoMessageWaits
  <2> QED BY <2>1, <2>2
<1>3. LogInv => LogComplete
  BY LogSays, DevicesAssumption
<1> QED BY <1>1, <1>2, <1>3, PTL DEF DevicesSpec
=============================================================================
