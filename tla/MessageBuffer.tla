----------------------------- MODULE MessageBuffer -----------------------------
(***************************************************************************)
(* Message buffers (kernel/messagebuf.c) on top of the task management     *)
(* calls.  A message buffer has a second wait queue, for the tasks that    *)
(* wait for room for their message; it is first in first out, and what     *)
(* each of them sends is in its winfo.                                     *)
(*                                                                         *)
(* Messages of one length are not told apart here: MessageRing is about    *)
(* their bytes.                                                            *)
(***************************************************************************)
EXTENDS TaskManagement, MessageRing

CONSTANTS
  Mbf,         (* the message buffers: their wait queues of receivers      *)
  send_queue,  (* the wait queue of senders of each                        *)
  BufSizes,    (* the sizes, rounded, that buffers are created with        *)
  MsgSizes,    (* the lengths of messages                                  *)
  MaxSizes     (* the values of maxmsz that buffers are created with       *)

ASSUME MessageBufferAssumption ==
  /\ Mbf \subseteq Gcb
  /\ send_queue \in [Mbf -> Gcb \ (Mbf \cup TaTpri)]
  /\ IsInjective(send_queue)
  /\ \A sz \in BufSizes : sz \in Nat /\ ROUNDSZ(sz) = sz
  /\ MsgSizes \cup MaxSizes \subseteq Nat \ {0}
  /\ MsgSizes # {} /\ MaxSizes # {}

VARIABLES
  mbfs,     (* the buffers whose mbfatr is not OBJ_NONEXIST                *)
  ring,     (* the ring of each                                            *)
  maxmsz,   (* the length of the longest message it takes                  *)
  smsgsz    (* the length of the message that each waiting sender sends    *)

mbfvars == <<mbfs, ring, maxmsz, smsgsz>>

message(sz) == [i \in 1 .. sz |-> <<sz, i>>]

messagebuffer_initialize ==
  /\ mbfs = {}
  /\ ring = [b \in Mbf |-> mbf_initialize(0)]
  /\ maxmsz \in [Mbf -> {CHOOSE max \in MaxSizes : TRUE}]
  /\ smsgsz \in [Task -> {CHOOSE sz \in MsgSizes : TRUE}]

-----------------------------------------------------------------------------
(* It fails, and changes nothing, when there is no memory for the buffer.  *)
cre_mbf(b, bufsz, max) ==
  /\ caller
  /\ b \notin mbfs
  /\ mbfs' = mbfs \cup {b}
  /\ ring' = [ring EXCEPT ![b] = mbf_initialize(bufsz)]
  /\ maxmsz' = [maxmsz EXCEPT ![b] = max]
  /\ UNCHANGED <<smsgsz, vars>>

(* The receivers first, then the senders.                                  *)
del_mbf(b) ==
  /\ caller
  /\ b \in mbfs
  /\ wait_release_all(wait_queue[b] \o wait_queue[send_queue[b]])
  /\ mbfs' = mbfs \ {b}
  /\ UNCHANGED <<ring, maxmsz, smsgsz, countvars, privars, cpuvars>>

(* The message goes to a waiting receiver or, failing that, to the buffer. *)
snd_at_once(b, sz) ==
  IF wait_queue[b] # << >>
  THEN /\ wait_release(Head(wait_queue[b]))
       /\ UNCHANGED ring
  ELSE /\ mbf_free(ring[b], sz)
       /\ ring' = [ring EXCEPT ![b] = msg_to_mbf(@, message(sz))]
       /\ UNCHANGED <<state, schedvars, waitvars>>

(* From any context: psnd_mbf, tsnd_mbf without wait, and log_snd_mbf.     *)
psnd_mbf(b, sz) ==
  /\ caller
  /\ b \in mbfs
  /\ sz <= maxmsz[b]
  /\ snd_at_once(b, sz)
  /\ UNCHANGED <<mbfs, maxmsz, smsgsz, countvars, privars, cpuvars>>

(* The wait of tsnd_mbf; snd_mbf has no time-out.                          *)
tsnd_mbf(b, sz, timed) ==
  /\ in_task
  /\ ~in_ddsp
  /\ b \in mbfs
  /\ sz <= maxmsz[b]
  /\ wait_queue[b] = << >>
  /\ ~mbf_free(ring[b], sz)
  /\ gcb_make_wait(send_queue[b], timed)
  /\ smsgsz' = [smsgsz EXCEPT ![ctxtsk] = sz]
  /\ UNCHANGED <<mbfs, ring, maxmsz, countvars, privars, cpuvars>>

(* One step of the walk along the senders: the message of t goes into the  *)
(* ring if it fits.                                                        *)
admit_sender(adm, t) ==
  IF mbf_free(adm.ring, smsgsz[t])
  THEN [ring     |-> msg_to_mbf(adm.ring, message(smsgsz[t])),
        released |-> adm.released \cup {t}]
  ELSE adm

(* Mutated: the waiting senders are served from the last to the first.     *)
admit_backwards(r, senders) ==
  LET walk[i \in 0 .. Len(senders)] ==
        IF i = 0 THEN [ring |-> r, released |-> {}]
        ELSE admit_sender(walk[i - 1], senders[Len(senders) + 1 - i])
  IN  walk[Len(senders)]

(* The walk along the senders: each whose message fits when it is its turn *)
(* is released, also when one before it has to wait on.                    *)
admit(r, senders) ==
  LET walk[i \in 0 .. Len(senders)] ==
        IF i = 0 THEN [ring |-> r, released |-> {}]
        ELSE admit_sender(walk[i - 1], senders[i])
  IN  walk[Len(senders)]

(* From the buffer; from a sender that waits, when its message is too long *)
(* for the buffer; or the receiver waits.                                  *)
trcv_mbf(b, timed) ==
  /\ in_task
  /\ ~in_ddsp
  /\ b \in mbfs
  /\ LET senders == wait_queue[send_queue[b]] IN
     IF ~mbf_empty(ring[b])
     THEN LET admitted == admit(mbf_to_msg(ring[b]), senders)
          IN  /\ ring' = [ring EXCEPT ![b] = admitted.ring]
              /\ wait_release_those(senders, admitted.released)
     ELSE /\ IF senders # << >>
             THEN wait_release(Head(senders))
             ELSE gcb_make_wait(b, timed)
          /\ UNCHANGED ring
  /\ UNCHANGED <<mbfs, maxmsz, smsgsz, countvars, privars, cpuvars>>

ref_mbf(b) ==
  [wtsk |-> wait_tskid(b), stsk |-> wait_tskid(send_queue[b]),
   msgsz |-> IF mbf_empty(ring[b]) THEN 0 ELSE msgsz(ring[b], ring[b].head),
   frbufsz |-> ring[b].frbufsz]

-----------------------------------------------------------------------------
MbfCall ==
  \E b \in Mbf :
    \/ \E bufsz \in BufSizes, max \in MaxSizes : cre_mbf(b, bufsz, max)
    \/ del_mbf(b)
    \/ \E sz \in MsgSizes :
         psnd_mbf(b, sz) \/ \E timed \in BOOLEAN : tsnd_mbf(b, sz, timed)
    \/ \E timed \in BOOLEAN : trcv_mbf(b, timed)

MbfInit == Init /\ messagebuffer_initialize

MbfNext == MbfCall \/ (Next /\ UNCHANGED mbfvars)

MbfSpec == MbfInit /\ [][MbfNext]_<<vars, mbfvars>>
-----------------------------------------------------------------------------
(* Every variable has its type.                                            *)
MbfTypeOK ==
  /\ TypeOK
  /\ mbfs \in SUBSET Mbf
  /\ \A b \in Mbf : ring[b].frbufsz \in 0 .. ring[b].bufsz
  /\ maxmsz \in [Mbf -> MaxSizes]
  /\ smsgsz \in [Task -> MsgSizes]

(* Nobody waits for what is there: while a receiver waits the buffer is    *)
(* empty and no sender waits, and the message of no waiting sender would   *)
(* fit into the buffer; also when other waits have ended by a time-out, a  *)
(* release or the end of a task, in front of or behind it in its queue.    *)
(* ref_mbf reports it so: no length of a first message and no sender.      *)
MessagesPassOn ==
  \A b \in Mbf :
    /\ wait_tskid(b) # NoTask =>
         b \in mbfs /\ ref_mbf(b).msgsz = 0 /\ ref_mbf(b).stsk = NoTask
    /\ \A t \in ToSet(wait_queue[send_queue[b]]) :
         b \in mbfs /\ ~mbf_free(ring[b], smsgsz[t])

(* What the senders of a queue that are not in it any more have sent, one  *)
(* behind the other, behind the messages msgs.                             *)
followed(msgs, queue, stay) ==
  LET sent[i \in 0 .. Len(queue)] ==
        IF i = 0 THEN msgs
        ELSE IF queue[i] \in stay THEN sent[i - 1]
        ELSE Append(sent[i - 1], message(smsgsz[queue[i]]))
  IN  sent[Len(queue)]

(* Every message comes out as it went in, and in the order in which they   *)
(* were accepted: one call appends one message, or takes the first one and *)
(* appends those of the senders it releases in the order of their queue    *)
(* (the promise of the user's manual on rcv_mbf), although senders whose   *)
(* message is too long are overtaken.                                      *)
MessagesInOrder ==
  [][\A b \in mbfs \cap mbfs' :
       LET old   == contents(ring[b])
           new   == contents(ring'[b])
           queue == wait_queue[send_queue[b]]
       IN  new # old =>
             \/ \E sz \in MsgSizes : new = Append(old, message(sz))
             \/ old # << >>
                /\ new = followed(Tail(old), queue, ToSet(wait_queue'[send_queue[b]]))]_<<vars, mbfvars>>
=============================================================================
