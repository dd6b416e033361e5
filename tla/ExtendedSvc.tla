----------------------------- MODULE ExtendedSvc -----------------------------
(***************************************************************************)
(* Extended supervisor calls (misc_calls.c): services that users add to    *)
(* the kernel.  A task that calls one is in its quasi-task portion and may *)
(* use the objects of the system; the kernel knows by sysmode, which       *)
(* counts the services that the task is in.  On BSD UNIX a service is an   *)
(* ordinary function, which counts itself (ENTER_EXTENDED_SVC and          *)
(* EXIT_EXTENDED_SVC, bsd/cpu_util.c).  Tasks are preempted, terminated    *)
(* and started again while they are in a service; services call others;    *)
(* and handlers of interrupts call them on top of any task.                *)
(***************************************************************************)
EXTENDS Integers, Sequences

CONSTANTS
  Task,
  SystemTask,     (* the tasks that run in the mode of the system          *)
  NUM_SVC,        (* the codes of services are 1 .. NUM_SVC                *)
  Svc,            (* the functions that may be defined for a code          *)
  no_support,     (* the function of a code that is not defined            *)
  Counting,       (* the functions that count themselves, on BSD UNIX      *)
  LeavesEarly,    (* those of them with a return before the end            *)
  DEPTH           (* the bound on services inside each other               *)

SvcAssumption ==
  /\ SystemTask \subseteq Task
  /\ NUM_SVC \in Nat \ {0} /\ DEPTH \in Nat \ {0}
  /\ no_support \notin Svc /\ Svc \cap Counting = {} /\ LeavesEarly \subseteq Counting

VARIABLES
  svchdr,     (* the table of services                                     *)
  alive,      (* the tasks that are not dormant                            *)
  sysmode,    (* of each task                                              *)
  ctxtsk,     (* the running task                                          *)
  calls,      (* of each task, the services it is in, the innermost first; *)
              (* a service keeps its function, whatever is defined later   *)
  indp        (* the same of the handler of an interrupt, <<>> outside     *)

vars == <<svchdr, alive, sysmode, ctxtsk, calls, indp>>

FN == 1 .. NUM_SVC

isysmode(t) == IF t \in SystemTask THEN 1 ELSE 0

TypeOK ==
  /\ svchdr \in [FN -> Svc \cup {no_support}]
  /\ ctxtsk \in alive /\ alive \subseteq Task
  /\ sysmode \in [Task -> Nat]
  /\ calls \in [Task -> Seq(Svc \cup Counting)]
  /\ indp \in Seq(Svc \cup {"handler"})

(* extended_svc_initialize                                                 *)
Init ==
  /\ svchdr = [fn \in FN |-> no_support]
  /\ \E t \in SystemTask : alive = {t} /\ ctxtsk = t
  /\ sysmode = [t \in Task |-> isysmode(t)]
  /\ calls = [t \in Task |-> <<>>]
  /\ indp = <<>>

in_indp == indp # <<>>
in_sysmode == in_indp \/ sysmode[ctxtsk] > 0

(* NADR takes the definition back.                                         *)
def_svc(fn, hdr) ==
  /\ svchdr' = [svchdr EXCEPT ![fn] = hdr]
  /\ UNCHANGED <<alive, sysmode, ctxtsk, calls, indp>>

sysmode_add(n) == sysmode' = [sysmode EXCEPT ![ctxtsk] = @ + n]

(* A service is called through the table.                                  *)
svc_ientry(fn) ==
  /\ svchdr[fn] # no_support
  /\ IF in_indp
     THEN /\ Len(indp) <= DEPTH
          /\ indp' = <<svchdr[fn]>> \o indp
          /\ UNCHANGED <<calls, sysmode>>
     ELSE /\ Len(calls[ctxtsk]) < DEPTH
          /\ calls' = [calls EXCEPT ![ctxtsk] = <<svchdr[fn]>> \o @]
          /\ sysmode_add(1)
          /\ UNCHANGED indp
  /\ UNCHANGED <<svchdr, alive, ctxtsk>>

(* A task calls a service that counts itself as a function (BSD UNIX).     *)
enter_extended_svc(f) ==
  /\ ~in_indp
  /\ Len(calls[ctxtsk]) < DEPTH
  /\ calls' = [calls EXCEPT ![ctxtsk] = <<f>> \o @]
  /\ sysmode_add(1)
  /\ UNCHANGED <<svchdr, alive, ctxtsk, indp>>

(* The service returns: sysmode is counted down where it was counted up,   *)
(* unless it returns early (bsd_serial.c).                                 *)
svc_returns ==
  /\ IF in_indp
     THEN /\ Len(indp) > 1
          /\ indp' = Tail(indp)
          /\ UNCHANGED <<calls, sysmode>>
     ELSE /\ calls[ctxtsk] # <<>>
          /\ calls' = [calls EXCEPT ![ctxtsk] = Tail(@)]
          /\ \/ sysmode_add(-1)
             \/ Head(calls[ctxtsk]) \in LeavesEarly /\ UNCHANGED sysmode
          /\ UNCHANGED indp
  /\ UNCHANGED <<svchdr, alive, ctxtsk>>

interrupt == ~in_indp /\ indp' = <<"handler">> /\ UNCHANGED <<svchdr, alive, sysmode, ctxtsk, calls>>
ret_int == Len(indp) = 1 /\ indp' = <<>> /\ UNCHANGED <<svchdr, alive, sysmode, ctxtsk, calls>>

(* The processor goes to another task, in or out of services.              *)
dispatch(t) ==
  /\ ~in_indp
  /\ t \in alive \ {ctxtsk}
  /\ ctxtsk' = t
  /\ UNCHANGED <<svchdr, alive, sysmode, calls, indp>>

sta_tsk(t) ==
  /\ t \notin alive
  /\ alive' = alive \cup {t}
  /\ UNCHANGED <<svchdr, sysmode, ctxtsk, calls, indp>>

(* Mutated: the count is kept.                                             *)
make_dormant_counted(t) ==
  /\ alive' = alive \ {t}
  /\ calls' = [calls EXCEPT ![t] = <<>>]
  /\ UNCHANGED sysmode

make_dormant(t) ==
  /\ alive' = alive \ {t}
  /\ calls' = [calls EXCEPT ![t] = <<>>]
  /\ sysmode' = [sysmode EXCEPT ![t] = isysmode(t)]

ter_tsk(t) ==
  /\ ~in_indp
  /\ t \in alive \ {ctxtsk}
  /\ make_dormant(t)
  /\ UNCHANGED <<svchdr, ctxtsk, indp>>

(* The next task runs; idling is left out.                                 *)
ext_tsk ==
  /\ ~in_indp
  /\ make_dormant(ctxtsk)
  /\ ctxtsk' \in alive'
  /\ UNCHANGED <<svchdr, indp>>

Next ==
  \/ \E fn \in FN : svc_ientry(fn) \/ \E hdr \in Svc \cup {no_support} : def_svc(fn, hdr)
  \/ \E f \in Counting : enter_extended_svc(f)
  \/ svc_returns \/ interrupt \/ ret_int \/ ext_tsk
  \/ \E t \in Task : dispatch(t) \/ sta_tsk(t) \/ ter_tsk(t)

Spec == Init /\ [][Next]_vars

(***************************************************************************)
(* Properties                                                              *)
(***************************************************************************)
(* A task outside of services has just the rights of its own mode, and     *)
(* ref_sys tells whether it is in one: sysmode counts the services that    *)
(* the task is in, after preemptions in a service, calls from interrupts   *)
(* on top of it, new definitions in between, and a termination inside of   *)
(* it.                                                                     *)
RightsMatchServices ==
  \A t \in Task : sysmode[t] = isysmode(t) + Len(calls[t])

(* Only a task of the system, or one inside a service, may use the objects *)
(* of the system (doc/USER).                                               *)
RightsOnlyInside ==
  in_sysmode => in_indp \/ ctxtsk \in SystemTask \/ calls[ctxtsk] # <<>>
=============================================================================
