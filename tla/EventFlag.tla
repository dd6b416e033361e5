------------------------------- MODULE EventFlag -------------------------------
(***************************************************************************)
(* Event flags (kernel/eventflag.c) on top of the task management calls.   *)
(*                                                                         *)
(* A pattern is the set of its bits that are 1.  A flag ID keeps the       *)
(* attribute TA_WMUL whenever it is created.                               *)
(***************************************************************************)
EXTENDS TaskManagement

CONSTANTS
  Flg,      (* the event flag control blocks                               *)
  TaWmul,   (* those that allow several tasks to wait                      *)
  Bit       (* the bits of a pattern                                       *)

ASSUME EventFlagAssumption ==
  /\ Flg \subseteq Gcb \ TaTpri
  /\ TaWmul \subseteq Flg
  /\ Bit # {}

VARIABLES
  flgs,     (* the flags whose flgatr is not OBJ_NONEXIST                  *)
  flgptn,   (* the pattern of each flag                                    *)
  winfo     (* what each task that waits for a flag waits for              *)

flgvars == <<flgs, flgptn, winfo>>

Pattern == SUBSET Bit

(* waiptn, and the modes TWF_ORW and TWF_CLR.                              *)
WaitFor == [waiptn : Pattern \ {{}}, orw : BOOLEAN, clr : BOOLEAN]

eventflag_initialize ==
  /\ flgs = {}
  /\ flgptn = [f \in Flg |-> {}]
  /\ winfo \in [Task -> {[waiptn |-> Bit, orw |-> FALSE, clr |-> FALSE]}]

eventflag_cond(ptn, w) ==
  IF w.orw THEN ptn \cap w.waiptn # {} ELSE w.waiptn \subseteq ptn

-----------------------------------------------------------------------------
cre_flg(f, iflgptn) ==
  /\ caller
  /\ f \notin flgs
  /\ flgs' = flgs \cup {f}
  /\ flgptn' = [flgptn EXCEPT ![f] = iflgptn]
  /\ UNCHANGED <<winfo, vars>>

del_flg(f) ==
  /\ caller
  /\ f \in flgs
  /\ wait_delete(f)
  /\ flgs' = flgs \ {f}
  /\ UNCHANGED <<flgptn, winfo, countvars, privars, cpuvars>>

(* Mutated: the pattern is cleared after the walk, which goes on.          *)
set_flg_clears_late(f, setptn) ==
  /\ caller
  /\ f \in flgs
  /\ LET ptn   == flgptn[f] \cup setptn
         queue == wait_queue[f]
         those == {t \in ToSet(queue) : eventflag_cond(ptn, winfo[t])}
     IN  /\ wait_release_those(queue, those)
         /\ flgptn' = [flgptn EXCEPT ![f] = IF \E t \in those : winfo[t].clr THEN {} ELSE ptn]
  /\ UNCHANGED <<flgs, winfo, countvars, privars, cpuvars>>

(***************************************************************************)
(* The walk releases the waiters whose condition holds, up to the first of *)
(* them that clears the pattern, where it stops.                           *)
(***************************************************************************)
set_flg(f, setptn) ==
  /\ caller
  /\ f \in flgs
  /\ LET ptn       == flgptn[f] \cup setptn
         queue     == wait_queue[f]
         satisfied == {i \in DOMAIN queue : eventflag_cond(ptn, winfo[queue[i]])}
         clearing  == {i \in satisfied : winfo[queue[i]].clr}
         walked    == {i \in satisfied : \A j \in clearing : i <= j}
     IN  /\ wait_release_those(queue, {queue[i] : i \in walked})
         /\ flgptn' = [flgptn EXCEPT ![f] = IF clearing = {} THEN ptn ELSE {}]
  /\ UNCHANGED <<flgs, winfo, countvars, privars, cpuvars>>

clr_flg(f, clrptn) ==
  /\ caller
  /\ f \in flgs
  /\ flgptn' = [flgptn EXCEPT ![f] = @ \cap clrptn]
  /\ UNCHANGED <<flgs, winfo, vars>>

(* wai_flg has no time-out; pol_flg is the first case only.                *)
twai_flg(f, w, timed) ==
  /\ in_task
  /\ ~in_ddsp
  /\ f \in flgs
  /\ f \in TaWmul \/ wait_queue[f] = << >>
  /\ IF eventflag_cond(flgptn[f], w)
     THEN /\ flgptn' = [flgptn EXCEPT ![f] = IF w.clr THEN {} ELSE @]
          /\ UNCHANGED <<winfo, state, schedvars, waitvars>>
     ELSE /\ gcb_make_wait(f, timed)
          /\ winfo' = [winfo EXCEPT ![ctxtsk] = w]
          /\ UNCHANGED flgptn
  /\ UNCHANGED <<flgs, countvars, privars, cpuvars>>

ref_flg(f) == [wtsk |-> wait_tskid(f), flgptn |-> flgptn[f]]

-----------------------------------------------------------------------------
FlgCall ==
  \E f \in Flg :
    \/ del_flg(f)
    \/ \E ptn \in Pattern : cre_flg(f, ptn) \/ set_flg(f, ptn) \/ clr_flg(f, ptn)
    \/ \E w \in WaitFor, timed \in BOOLEAN : twai_flg(f, w, timed)

FlgInit == Init /\ eventflag_initialize

FlgNext == FlgCall \/ (Next /\ UNCHANGED flgvars)

FlgSpec == FlgInit /\ [][FlgNext]_<<vars, flgvars>>
-----------------------------------------------------------------------------
(* Every variable has its type.                                            *)
FlgTypeOK ==
  /\ TypeOK
  /\ flgs \in SUBSET Flg
  /\ flgptn \in [Flg -> Pattern]
  /\ winfo \in [Task -> WaitFor]

(* No task waits for a condition that holds: the walk of set_flg releases  *)
(* every waiter it should although releases and a clearing waiter change   *)
(* queue and pattern under it, and no end of another wait brings a         *)
(* condition about that nobody looks at.  What ref_flg reports is what the *)
(* waiting tasks are compared with.                                        *)
NoSatisfiedWaiter ==
  \A f \in Flg : \A t \in ToSet(wait_queue[f]) :
    /\ f \in flgs
    /\ ref_flg(f).wtsk \in ToSet(wait_queue[f])
    /\ ~eventflag_cond(ref_flg(f).flgptn, winfo[t])

(* Only flags with TA_WMUL have several waiters, also when a waiter is     *)
(* suspended, times out or is released while another one comes.            *)
SingleWaiter == \A f \in Flg \ TaWmul : Len(wait_queue[f]) <= 1

(* An event is consumed once: when waiters leave the queue of a flag that  *)
(* goes on existing, a waiter that clears the pattern is the last of them, *)
(* and those behind it wait on.                                            *)
ConsumedOnce ==
  [][\A f \in flgs \cap flgs' : \A i, j \in DOMAIN wait_queue[f] :
       LET left == ToSet(wait_queue[f]) \ ToSet(wait_queue'[f])
       IN  i < j /\ {wait_queue[f][i], wait_queue[f][j]} \subseteq left
             => ~winfo[wait_queue[f][i]].clr]_<<vars, flgvars>>
=============================================================================
