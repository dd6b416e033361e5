------------------------------ MODULE Rendezvous ------------------------------
(***************************************************************************)
(* Rendezvous ports (kernel/rendezvous.c) on top of the task management    *)
(* calls.  A port has two wait queues, both first in first out.  A caller  *)
(* and an acceptor whose patterns have a bit in common meet; the caller    *)
(* then waits for the reply ("rdv") without being in a queue.              *)
(*                                                                         *)
(* A rendezvous number is the pair of the caller and its counter wrdvno.   *)
(* The counter has 16 bits; the model stops counting at MAXRDV.            *)
(***************************************************************************)
EXTENDS TaskManagement

CONSTANTS
  Por,           (* the ports                                              *)
  call_queue,    (* the wait queue of callers of each port                 *)
  accept_queue,  (* its wait queue of acceptors                            *)
  maxrmsz,       (* its longest reply                                      *)
  Patterns,      (* the patterns of calls and acceptances                  *)
  MAXRDV         (* how many rendezvous of one task are followed           *)

ASSUME RendezvousAssumption ==
  /\ call_queue \in [Por -> Gcb \ TaTpri]
  /\ accept_queue \in [Por -> Gcb \ TaTpri]
  /\ IsInjective(call_queue) /\ IsInjective(accept_queue)
  /\ \A p, q \in Por : call_queue[p] # accept_queue[q]
  /\ maxrmsz \in [Por -> Nat \ {0}]
  /\ Patterns # {} /\ {} \notin Patterns
  /\ MAXRDV \in Nat

VARIABLES
  pors,      (* the ports whose poratr is not OBJ_NONEXIST                 *)
  ptn,       (* calptn or acpptn of each task that waits at a port         *)
  rdvno,     (* the number of the rendezvous each caller is in             *)
  rmax,      (* the longest reply it may be sent (winfo.rdv.maxrmsz)       *)
  room,      (* the longest reply its buffer has room for                  *)
  wrdvno,    (* the counter of rendezvous of each task                     *)
  known,     (* the numbers that each task was given as an acceptor        *)
  relinked,  (* the tasks whose time event was initialised while queued    *)
  polled     (* a time event was inserted with the time-out TMO_POL        *)

porvars == <<pors, ptn, rdvno, rmax, room, wrdvno, known, relinked, polled>>
winfovars == <<ptn, rdvno, rmax, room>>

RDVNO == Task \X (0 .. MAXRDV)

rendezvous_initialize ==
  /\ pors = {}
  /\ ptn \in [Task -> {CHOOSE x \in Patterns : TRUE}]
  /\ rdvno = [t \in Task |-> <<t, 0>>]
  /\ rmax = [t \in Task |-> 0]
  /\ room = [t \in Task |-> 0]
  /\ wrdvno = [t \in Task |-> 0]
  /\ known = [t \in Task |-> {}]
  /\ relinked = {}
  /\ polled = FALSE

in_rdv(c) == waiting(c) /\ wspec[c] = "rdv"

(* The places in a queue of the tasks whose pattern has a bit in common    *)
(* with pattern; the first of them is met.                                 *)
matching(queue, pattern) ==
  {i \in DOMAIN wait_queue[queue] : ptn[wait_queue[queue][i]] \cap pattern # {}}

first(queue, places) == wait_queue[queue][Min(places)]

gen_rdvno(c) ==
  /\ wrdvno[c] < MAXRDV
  /\ wrdvno' = [wrdvno EXCEPT ![c] = @ + 1]

new_rdvno(c) == <<c, wrdvno[c]>>

-----------------------------------------------------------------------------
cre_por(p) ==
  /\ in_task
  /\ p \notin pors
  /\ pors' = pors \cup {p}
  /\ UNCHANGED <<winfovars, wrdvno, known, relinked, polled, vars>>

(* The rendezvous that are in progress go on.                              *)
del_por(p) ==
  /\ in_task
  /\ p \in pors
  /\ wait_release_all(wait_queue[call_queue[p]] \o wait_queue[accept_queue[p]])
  /\ pors' = pors \ {p}
  /\ UNCHANGED <<winfovars, wrdvno, known, relinked, polled, countvars, privars, cpuvars>>

(***************************************************************************)
(* The wait of a ends and, in the same call, the running task begins to    *)
(* wait for the end of a rendezvous.                                       *)
(***************************************************************************)
exchange(a, timed) ==
  LET woken == IF state[a] = "WAIT"
               THEN made_ready([rq |-> ready_queue, top |-> schedtsk], a)
               ELSE [rq |-> ready_queue, top |-> schedtsk]
      rq    == IF state[ctxtsk] = "READY"
               THEN ready_queue_delete(woken.rq, ctxtsk, priority[ctxtsk])
               ELSE woken.rq
  IN  /\ state' = [state EXCEPT
                    ![a] = IF @ = "WAIT" THEN "READY" ELSE "SUSPEND",
                    ![ctxtsk] = IF @ = "READY" THEN "WAIT" ELSE "WAITSUS"]
      /\ ready_queue' = rq
      /\ schedtsk' = IF woken.top = ctxtsk THEN ready_queue_top(rq) ELSE woken.top
      /\ wspec' = [wspec EXCEPT ![a] = "none", ![ctxtsk] = "rdv"]
      /\ wait_queue' = [wait_queue EXCEPT ![wspec[a]] = queue_delete(@, a)]
      /\ timer_queue' = (timer_queue \ {a}) \cup IF timed THEN {ctxtsk} ELSE {}

(***************************************************************************)
(* tmout is "FEVR", "POL" or "timed".  The first acceptor that matches is  *)
(* met at once: the time-out is then that of the rendezvous.               *)
(***************************************************************************)
tcal_por(p, calptn, tmout) ==
  /\ in_task
  /\ ~in_ddsp
  /\ p \in pors
  /\ room' = [room EXCEPT ![ctxtsk] = maxrmsz[p]]
  /\ LET acceptors == matching(accept_queue[p], calptn)
         a         == first(accept_queue[p], acceptors) IN
     IF acceptors # {}
     THEN /\ gen_rdvno(ctxtsk)
          /\ exchange(a, tmout # "FEVR")
          /\ polled' = (tmout = "POL")
          /\ rdvno' = [rdvno EXCEPT ![ctxtsk] = new_rdvno(ctxtsk)]
          /\ rmax' = [rmax EXCEPT ![ctxtsk] = maxrmsz[p]]
          /\ known' = [known EXCEPT ![a] = @ \cup {new_rdvno(ctxtsk)}]
          /\ UNCHANGED ptn
     ELSE /\ tmout # "POL"
          /\ gcb_make_wait(call_queue[p], tmout = "timed")
          /\ ptn' = [ptn EXCEPT ![ctxtsk] = calptn]
          /\ UNCHANGED <<rdvno, rmax, wrdvno, known, polled>>
  /\ UNCHANGED <<pors, relinked, countvars, privars, cpuvars>>

(* c leaves the queue of callers; its time-out ends and its wait goes on.  *)
accepted(c) ==
  /\ wait_queue' = [wait_queue EXCEPT ![wspec[c]] = queue_delete(@, c)]
  /\ wspec' = [wspec EXCEPT ![c] = "rdv"]
  /\ timer_queue' = timer_queue \ {c}
  /\ UNCHANGED <<state, schedvars>>

(* Mutated: only the first caller is looked at.                            *)
tacp_por_looks_at_first(p, acpptn, timed) ==
  /\ in_task
  /\ ~in_ddsp
  /\ p \in pors
  /\ LET callers == matching(call_queue[p], acpptn) \cap {1} IN
     IF callers # {}
     THEN LET c == first(call_queue[p], callers) IN
          /\ gen_rdvno(c)
          /\ accepted(c)
          /\ rdvno' = [rdvno EXCEPT ![c] = new_rdvno(c)]
          /\ rmax' = [rmax EXCEPT ![c] = maxrmsz[p]]
          /\ known' = [known EXCEPT ![ctxtsk] = @ \cup {new_rdvno(c)}]
          /\ UNCHANGED ptn
     ELSE /\ gcb_make_wait(accept_queue[p], timed)
          /\ ptn' = [ptn EXCEPT ![ctxtsk] = acpptn]
          /\ UNCHANGED <<rdvno, rmax, wrdvno, known>>
  /\ UNCHANGED <<pors, room, relinked, polled, countvars, privars, cpuvars>>

(* pacp_por is the first case only.                                        *)
tacp_por(p, acpptn, timed) ==
  /\ in_task
  /\ ~in_ddsp
  /\ p \in pors
  /\ LET callers == matching(call_queue[p], acpptn) IN
     IF callers # {}
     THEN LET c == first(call_queue[p], callers) IN
          /\ gen_rdvno(c)
          /\ accepted(c)
          /\ rdvno' = [rdvno EXCEPT ![c] = new_rdvno(c)]
          /\ rmax' = [rmax EXCEPT ![c] = maxrmsz[p]]
          /\ known' = [known EXCEPT ![ctxtsk] = @ \cup {new_rdvno(c)}]
          /\ UNCHANGED ptn
     ELSE /\ gcb_make_wait(accept_queue[p], timed)
          /\ ptn' = [ptn EXCEPT ![ctxtsk] = acpptn]
          /\ UNCHANGED <<rdvno, rmax, wrdvno, known>>
  /\ UNCHANGED <<pors, room, relinked, polled, countvars, privars, cpuvars>>

(* Mutated: replies may become longer when a call is forwarded.            *)
may_forward_unchecked(p, no) ==
  /\ no \in known[ctxtsk]
  /\ in_rdv(no[1])
  /\ rdvno[no[1]] = no

(* The checks of fwd_por on the rendezvous and on the port.                *)
may_forward(p, no) ==
  /\ no \in known[ctxtsk]
  /\ in_rdv(no[1])
  /\ rdvno[no[1]] = no
  /\ maxrmsz[p] <= rmax[no[1]]

(* Mutated: the new acceptor is given the old number.                      *)
fwd_to_acceptor_same_number(a, c, p) ==
  /\ wait_release(a)
  /\ rmax' = [rmax EXCEPT ![c] = maxrmsz[p]]
  /\ known' = [known EXCEPT ![a] = @ \cup {rdvno[c]}]
  /\ UNCHANGED <<ptn, wrdvno, rdvno, relinked>>

fwd_to_acceptor(a, c, p) ==
  /\ gen_rdvno(c)
  /\ wait_release(a)
  /\ rdvno' = [rdvno EXCEPT ![c] = new_rdvno(c)]
  /\ rmax' = [rmax EXCEPT ![c] = maxrmsz[p]]
  /\ known' = [known EXCEPT ![a] = @ \cup {new_rdvno(c)}]
  /\ UNCHANGED <<ptn, relinked>>

(***************************************************************************)
(* The caller waits in the queue of callers again, without time-out.  Its  *)
(* time event is initialised but not taken out of the timer queue: if it   *)
(* was queued, its neighbours go on pointing to it.                        *)
(***************************************************************************)
fwd_to_queue(c, calptn, p) ==
  /\ wspec' = [wspec EXCEPT ![c] = call_queue[p]]
  /\ wait_queue' = [wait_queue EXCEPT ![call_queue[p]] = Append(@, c)]
  /\ ptn' = [ptn EXCEPT ![c] = calptn]
  /\ relinked' = relinked \cup ({c} \cap timer_queue)
  /\ UNCHANGED <<state, schedvars, timer_queue, rdvno, rmax, wrdvno, known>>

fwd_por(p, calptn, no) ==
  /\ in_task
  /\ p \in pors
  /\ may_forward(p, no)
  /\ LET acceptors == matching(accept_queue[p], calptn) IN
     IF acceptors # {}
     THEN fwd_to_acceptor(first(accept_queue[p], acceptors), no[1], p)
     ELSE fwd_to_queue(no[1], calptn, p)
  /\ UNCHANGED <<pors, room, polled, countvars, privars, cpuvars>>

rpl_rdv(no) ==
  /\ in_task
  /\ no \in known[ctxtsk]
  /\ in_rdv(no[1])
  /\ rdvno[no[1]] = no
  /\ wait_release(no[1])
  /\ UNCHANGED <<porvars, countvars, privars, cpuvars>>

(* A task that ends takes along what it knew; its counter goes on.         *)
ends ==
  /\ known' = [t \in Task |-> IF task_alive(t)' THEN known[t] ELSE {}]
  /\ UNCHANGED <<pors, winfovars, wrdvno, relinked, polled>>

-----------------------------------------------------------------------------
RdvCall ==
  \/ \E p \in Por : cre_por(p) \/ del_por(p)
  \/ \E p \in Por, pattern \in Patterns :
       \/ \E tmout \in {"FEVR", "POL", "timed"} : tcal_por(p, pattern, tmout)
       \/ \E timed \in BOOLEAN : tacp_por(p, pattern, timed)
       \/ \E no \in RDVNO : fwd_por(p, pattern, no)
  \/ \E no \in RDVNO : rpl_rdv(no)

(* What happens once the timer queue is destroyed, or an assertion has     *)
(* failed, is not described: the system stops.                             *)
intact == relinked = {} /\ ~polled

RdvInit == Init /\ rendezvous_initialize

RdvNext == intact /\ (RdvCall \/ (Next /\ ends))

RdvSpec == RdvInit /\ [][RdvNext]_<<vars, porvars>>
-----------------------------------------------------------------------------
(* Every variable has its type.                                            *)
RdvTypeOK ==
  /\ TypeOK
  /\ pors \in SUBSET Por
  /\ ptn \in [Task -> Patterns]
  /\ rdvno \in [Task -> RDVNO]
  /\ wrdvno \in [Task -> 0 .. MAXRDV]
  /\ known \in [Task -> SUBSET RDVNO]
  /\ \A t \in Task : rmax[t] \in Nat /\ room[t] \in Nat

(* A caller and an acceptor that could meet never both wait at a port,     *)
(* in whatever order calls, forwarded calls, acceptances and the ends of   *)
(* other waits come.                                                       *)
NoMissedRendezvous ==
  \A p \in Por :
    \A c \in ToSet(wait_queue[call_queue[p]]), a \in ToSet(wait_queue[accept_queue[p]]) :
      ptn[c] \cap ptn[a] = {}

(* At most one task can reply to a caller: a number that was forwarded, or *)
(* belongs to a call that timed out or to an earlier life of the caller,   *)
(* is not accepted.                                                        *)
AnsweredByOne ==
  \A c \in Task : in_rdv(c) => Cardinality({a \in Task : rdvno[c] \in known[a]}) <= 1

(* No reply is longer than the buffer the caller provided for replies of   *)
(* the port it called first, wherever its call is forwarded to.            *)
ReplyFits == \A c \in Task : in_rdv(c) => rmax[c] <= room[c]

(* A wait that has no time-out (TMO_FEVR) has no event in the timer queue, *)
(* as the comment on timer_insert says.                                    *)
ForeverIsNotQueued == relinked \cap timer_queue = {}

(* Time events are inserted with a positive time-out only: the assertion   *)
(* of timer_insert.                                                        *)
TmoutPositive == ~polled
=============================================================================
