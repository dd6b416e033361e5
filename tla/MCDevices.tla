------------------------------- MODULE MCDevices -------------------------------
(***************************************************************************)
(* The drivers and the system log, each by itself: in every behaviour one  *)
(* part works, chosen at the start, and nothing happens to the others, so  *)
(* the instance is the union of the instances of the parts:                *)
(*   "serial"          a hardware port that tasks read and write;          *)
(*   "serial_output"   the same with every kind of flow control, and tasks *)
(*                     that only write;                                    *)
(*   "bsd_serial"      the port of the simulation: the tasks of Writers    *)
(*                     write single characters, the others read without an *)
(*                     echo;                                               *)
(*   "nonblocking_io"  tasks that read and write files;                    *)
(*   "system_log"      programs, the kernel and the log task.              *)
(***************************************************************************)
EXTENDS Integers, FiniteSets, Sequences, SequencesExt, TLC

CONSTANTS
  Parts,                                              (* that are checked  *)
  PortTask, Writers,                                  (* serial ports      *)
  SERIAL_BUFSZ, IXOFF_STOP, IXOFF_START, LAST, LINE,
  FileTask, File, CHK_SELF, READY,                    (* files             *)
  Caller, MESSAGES, MBF_LOG                           (* the system log    *)

VARIABLES
  part,
  in_ring, out_ring, in_sem, out_sem, at, left, flowc, ixon_stopped,
  ixoff_stopped, ixoff_send, received, taken, written, sent, told,
  init_flag, send_enabled, rx, tx_busy, tx_int,
  readable, writable, sigio, in_callback,
  ready, nb_sigio, sigio_task, q, sigio_queue, sem, sem_queue, nb_at, args, result, wupcnt,
  made, logtask_alive, mbf, log_task, logtask_buf, log_at, string, output

Flowc    == SUBSET {"IXON", "IXANY", "IXOFF"}
Both     == {{"IXON", "IXOFF"}}
AllFlows == {{"IXON"}, {"IXON", "IXANY"}, {}}

Port == INSTANCE Serial WITH Task <- PortTask

Bsd == INSTANCE BsdSerial WITH Task <- PortTask

Files == INSTANCE NonblockingIO WITH Task <- FileTask, sigio <- nb_sigio, at <- nb_at

Log == INSTANCE SystemLog WITH at <- log_at

ASSUME DevicesAssumption ==
  /\ Port!SerialPortAssumption /\ Writers \subseteq PortTask /\ LINE \in Nat
  /\ Files!NonblockingAssumption /\ Log!SystemLogAssumption

portvars == <<in_ring, out_ring, in_sem, out_sem, at, left, flowc, ixon_stopped,
              ixoff_stopped, ixoff_send, received, taken, written, sent, told>>
filevars == <<ready, nb_sigio, sigio_task, q, sigio_queue, sem, sem_queue, nb_at, args,
              result, wupcnt>>
logvars  == <<made, logtask_alive, mbf, log_task, logtask_buf, log_at, string, output>>
hardvars == <<init_flag, send_enabled, rx, tx_busy, tx_int>>
ttyvars  == <<readable, writable, sigio, in_callback>>
devvars  == <<part, portvars, hardvars, ttyvars, filevars, logvars>>

Symmetry == Permutations(FileTask) \cup Permutations(File)

-----------------------------------------------------------------------------
SerialStep ==
  /\ part = "serial"
  /\ Port!SerialNext /\ flowc' \in Both
  /\ UNCHANGED <<ttyvars, filevars, logvars>>

SerialOutputStep ==
  /\ part = "serial_output"
  /\ Port!SerialNext /\ flowc' \in AllFlows
  /\ rx' # "char"
  /\ \A t \in PortTask : at'[t] \notin {"reading", "waits_in"}
  /\ UNCHANGED <<ttyvars, filevars, logvars>>

BsdSerialStep ==
  /\ part = "bsd_serial"
  /\ Bsd!BsdNext /\ flowc' \in Both
  /\ \A t \in PortTask \ Writers : at'[t] \in {"idle", "reading", "waits_in"}
  /\ \A t \in Writers : at'[t] \notin {"reading", "waits_in"} /\ left'[t] <= 1
  /\ UNCHANGED <<hardvars, filevars, logvars>>

NonblockingIOStep ==
  /\ part = "nonblocking_io"
  /\ Files!Next
  /\ UNCHANGED <<portvars, hardvars, ttyvars, logvars>>

SystemLogStep ==
  /\ part = "system_log"
  /\ Log!Next
  /\ UNCHANGED <<portvars, hardvars, ttyvars, filevars>>

(* The variables of the parts that do not work are 0.                      *)
PortInit ==
  \/ /\ \/ part = "serial" /\ Port!SerialInit /\ flowc \in Both
        \/ part = "serial_output" /\ Port!SerialInit /\ flowc \in AllFlows
     /\ readable = 0 /\ writable = 0 /\ sigio = 0 /\ in_callback = 0
  \/ /\ part = "bsd_serial" /\ Bsd!BsdInit /\ flowc \in Both
     /\ init_flag = 0 /\ send_enabled = 0 /\ rx = 0 /\ tx_busy = 0 /\ tx_int = 0
  \/ /\ part \in {"nonblocking_io", "system_log"}
     /\ in_ring = 0 /\ out_ring = 0 /\ in_sem = 0 /\ out_sem = 0 /\ at = 0 /\ left = 0
     /\ flowc = 0 /\ ixon_stopped = 0 /\ ixoff_stopped = 0 /\ ixoff_send = 0
     /\ received = 0 /\ taken = 0 /\ written = 0 /\ sent = 0 /\ told = 0
     /\ init_flag = 0 /\ send_enabled = 0 /\ rx = 0 /\ tx_busy = 0 /\ tx_int = 0
     /\ readable = 0 /\ writable = 0 /\ sigio = 0 /\ in_callback = 0

FilesInit ==
  \/ part = "nonblocking_io" /\ Files!Init
  \/ /\ part # "nonblocking_io"
     /\ ready = 0 /\ nb_sigio = 0 /\ sigio_task = 0 /\ q = 0 /\ sigio_queue = 0 /\ sem = 0
     /\ sem_queue = 0 /\ nb_at = 0 /\ args = 0 /\ result = 0 /\ wupcnt = 0

LogInit ==
  \/ part = "system_log" /\ Log!Init
  \/ /\ part # "system_log"
     /\ made = 0 /\ logtask_alive = 0 /\ mbf = 0 /\ log_task = 0 /\ logtask_buf = 0
     /\ log_at = 0 /\ string = 0 /\ output = 0

DevicesInit == part \in Parts /\ PortInit /\ FilesInit /\ LogInit

DevicesNext ==
  /\ SerialStep \/ SerialOutputStep \/ BsdSerialStep \/ NonblockingIOStep \/ SystemLogStep
  /\ UNCHANGED part

DevicesSpec == DevicesInit /\ [][DevicesNext]_devvars

-----------------------------------------------------------------------------
(* The view: characters by their distance from the first one, without what *)
(* is left in the buffers of those that are gone; for the hardware ports   *)
(* also the place in the ring.                                             *)
Numbers(contents, base) == [i \in DOMAIN contents |-> (contents[i] - base) % LAST]

PortView(in, out) ==
  <<Numbers(in, taken), Numbers(out, sent), (received - taken) % LAST,
    (written - sent) % LAST, in_sem, out_sem, at, left, flowc, ixon_stopped,
    ixoff_stopped, ixoff_send, told>>

View ==
  <<part,
    CASE part \in {"serial", "serial_output"} ->
           <<PortView(Port!contents(in_ring), Port!contents(out_ring)),
             in_ring.read_ptr, out_ring.read_ptr, hardvars>>
      [] part = "bsd_serial" ->
           <<PortView(Bsd!contents(in_ring), Bsd!contents(out_ring)), ttyvars>>
      [] part = "nonblocking_io" -> filevars
      [] part = "system_log" -> logvars>>
-----------------------------------------------------------------------------
(* The variables of a port have their types, the characters received are   *)
(* read in their order, and those written to a hardware port leave in      *)
(* theirs, none twice and none left out, whichever tasks come in between   *)
(* and wherever the rings wrap around.                                     *)
CharactersInOrder ==
  /\ part \in {"serial", "serial_output"} =>
       Port!SerialTypeOK /\ Port!InputInOrder /\ Port!OutputInOrder
  /\ part = "bsd_serial" => Bsd!BsdTypeOK /\ Bsd!InputInOrder

(* No task and no character is forgotten: the semaphores count what is in  *)
(* the rings, what can be sent keeps the transmitter busy, no notification *)
(* of SIGIO is missed, and the other side of a hardware port knows whether *)
(* it may send, or is about to be told.                                    *)
PortGoesOn ==
  CASE part \in {"serial", "serial_output"} ->
         Port!SemaphoresExact /\ Port!SendingGoesOn /\ Port!ToldRight
    [] part = "bsd_serial" -> Bsd!SemaphoresExact /\ Bsd!NothingLeft
    [] OTHER -> TRUE

(* A blocking call on a file returns with a result and does not sleep on   *)
(* when the callback has got one for it; the event blocks in the queue,    *)
(* which are on the stacks of the callers, are those of calls that go on   *)
(* and have no result, and the queue has one user at a time; and every     *)
(* variable has its type.  Only a task that got its result by its own try  *)
(* may sleep on, and only where CHK_SELF refuses its wakeup.               *)
CallsGetResults ==
  part = "nonblocking_io" =>
    /\ Files!NonblockingTypeOK
    /\ Files!ReturnsWithResult /\ Files!ResultWakes
    /\ Files!QueuedBlocksLive /\ Files!OneUserOfQueue

(* As long as the log task has not ended no message is lost, and none      *)
(* waits in the buffer while the log task waits for one; and every         *)
(* variable has its type.                                                  *)
LogComplete ==
  part = "system_log" => Log!LogTypeOK /\ Log!NothingLost /\ Log!NoMessageWaits

(* A task that calls nb_read or nb_write on a file that is ready does not  *)
(* sleep: such calls of the system return at once (doc/BSDUNIX).           *)
ReadyCallsReturn == part = "nonblocking_io" => Files!ReadyFileRead

(* What a task writes to the pseudo port leaves in the order of writing,   *)
(* as its name, a serial port, promises.                                   *)
BsdOutputInOrder == part = "bsd_serial" => Bsd!OutputInOrder

-----------------------------------------------------------------------------
(***************************************************************************)
(* That the drivers and the system log go on, one of them in every         *)
(* behaviour, under the fairness of their modules: a hardware port whose   *)
(* tasks read and write single characters, the files, or the log.          *)
(***************************************************************************)
LiveInit ==
  \/ /\ part = "serial"
     /\ Port!SerialInit /\ flowc \in Both
     /\ readable = 0 /\ writable = 0 /\ sigio = 0 /\ in_callback = 0
     /\ FilesInit /\ LogInit
  \/ part = "nonblocking_io" /\ Files!Init /\ PortInit /\ LogInit
  \/ part = "system_log" /\ Log!Init /\ PortInit /\ FilesInit

ofPort(step)  == part = "serial" /\ step /\ UNCHANGED <<part, ttyvars, filevars, logvars>>
ofFiles(step) ==
  part = "nonblocking_io" /\ step /\ UNCHANGED <<part, portvars, hardvars, ttyvars, logvars>>
ofLog(step)   ==
  part = "system_log" /\ step /\ UNCHANGED <<part, portvars, hardvars, ttyvars, filevars>>

LiveNext ==
  \/ ofPort(Port!SerialNext /\ flowc' \in Both /\ init_flag' /\ \A t \in PortTask : left'[t] <= 1)
  \/ ofFiles(Files!Next)
  \/ ofLog(Log!Next)

(* The transmitter sends and its interrupt is served; the task of SIGIO    *)
(* and the calls go on; and so do the log task and the senders.            *)
LiveFairness ==
  /\ WF_devvars(ofPort(Port!char_sent))
  /\ WF_devvars(ofPort(Port!interrupt))
  /\ WF_devvars(ofFiles(Files!SigioStep))
  /\ \A t \in FileTask : WF_devvars(ofFiles(Files!in_call(t)))
  /\ WF_devvars(ofLog(Log!LogTaskStep))
  /\ \A s \in Log!Sender : WF_devvars(ofLog(Log!SendStep(s)))

LiveSpec == LiveInit /\ [][LiveNext]_devvars /\ LiveFairness
-----------------------------------------------------------------------------
(* What the other side of a port is to be told is told some time; and what *)
(* is written leaves as long as the other side does not stop it: sending   *)
(* goes on for ever, unless there is nothing to send again and again, it   *)
(* is stopped, or what the other side is to be told goes first.            *)
PortServed ==
  /\ (part = "serial" /\ ixoff_send # "none") ~> (part = "serial" => ixoff_send = "none")
  /\ \/ []<><<part = "serial" /\ sent' # sent>>_devvars
     \/ []<>(part = "serial" =>
               ixon_stopped \/ Port!is_empty(out_ring) \/ ixoff_send # "none")

(* A call whose file becomes ready gets its result, or another call takes  *)
(* what the file was ready for: no SIGIO is forgotten while the task that  *)
(* serves it is still in its queue.                                        *)
CallbackCalled ==
  \A t \in FileTask :
    (part = "nonblocking_io" /\ nb_sigio /\ t \in ToSet(sigio_queue) /\ ready[args[t]] > 0)
      ~> (part = "nonblocking_io" => t \notin ToSet(sigio_queue) \/ ready[args[t]] = 0)

(* Every message that a program writes is put out in the end, unless the   *)
(* log task has ended.                                                     *)
PutOutInTheEnd ==
  \A m \in 1 .. MESSAGES :
    (part = "system_log" /\ made >= m) ~> (part = "system_log" => m \in ToSet(output) \/ log_task = "ended")
=============================================================================
