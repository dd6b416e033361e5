----------------------------- MODULE TaskStacks -----------------------------
(***************************************************************************)
(* The memory of tasks (task_manage.c): the system stack and the user      *)
(* stack that a task gets from the system memory pool when it is created,  *)
(* the list of free task control blocks, and the stack that the processor  *)
(* runs on.  A task that deletes itself gives its stacks back and goes on, *)
(* inside the dispatcher, on the stack that it gave back; when no task is  *)
(* ready the processor idles on it, and takes interrupts.                  *)
(*                                                                         *)
(* Memory is a set of blocks, each as large as a stack.  Other objects     *)
(* come from the same memory.                                              *)
(***************************************************************************)
EXTENDS Queues, FiniteSets

CONSTANTS
  SystemTask,            (* tasks with negative ID: one stack, no list     *)
  UserTask,              (* the other tasks                                *)
  Block,                 (* the memory                                     *)
  NULL,                  (* no task, no block                              *)
  WILD,                  (* what sys_get_stack makes of no block           *)
  USE_MPROTECT_STACK,    (* the stacks of the ports to BSD UNIX            *)
  IDLE_CREATES           (* handlers of interrupts create objects while    *)
                         (* the processor idles                            *)

StacksAssumption ==
  /\ SystemTask \cap UserTask = {} /\ IsFiniteSet(UserTask)
  /\ {NULL, WILD} \cap (Block \cup SystemTask \cup UserTask) = {} /\ NULL # WILD
  /\ USE_MPROTECT_STACK \in BOOLEAN /\ IDLE_CREATES \in BOOLEAN

Task == SystemTask \cup UserTask

VARIABLES
  state,      (* of each task                                              *)
  isstack,    (* its system stack                                          *)
  istack,     (* its user stack, NULL when stksz is 0                      *)
  free_tcb,   (* the list of free control blocks                           *)
  used,       (* the blocks that have been handed out                      *)
  others,     (* those of them that belong to other objects                *)
  ctxtsk,     (* the task that runs                                        *)
  sp          (* the block that the stack pointer points to, NULL for the  *)
              (* stack of the start-up                                     *)

taskvars == <<state, isstack, istack, free_tcb>>
memvars == <<used, others>>
vars == <<taskvars, memvars, ctxtsk, sp>>

TypeOK ==
  /\ state \in [Task -> {"NONEXIST", "DORMANT", "READY", "WAIT"}]
  /\ isstack \in [Task -> Block \cup {NULL, WILD}]
  /\ istack \in [Task -> Block \cup {NULL, WILD}]
  /\ free_tcb \in Seq(UserTask)
  /\ others \subseteq used /\ used \subseteq Block
  /\ ctxtsk \in Task \cup {NULL}
  /\ sp \in Block \cup {NULL, WILD}

exists(t) == state[t] # "NONEXIST"

(* task_initialize, and main, which creates and starts the initial task.   *)
Init ==
  \E t \in SystemTask, b \in Block :
    /\ state = [u \in Task |-> IF u = t THEN "READY" ELSE "NONEXIST"]
    /\ isstack = [u \in Task |-> IF u = t THEN b ELSE NULL]
    /\ istack = [u \in Task |-> NULL]
    /\ free_tcb \in SetToSeqs(UserTask)
    /\ used = {b} /\ others = {}
    /\ ctxtsk = NULL /\ sp = NULL

(***************************************************************************)
(* sys_get_stack: the blocks that it may return when m is handed out, 0    *)
(* when there is none.  With mprotect it adds two pages to what it got     *)
(* from memory, and returns the sum even when that was 0.                  *)
(***************************************************************************)
sys_get_blk(m) == IF Block \subseteq m THEN {NULL} ELSE Block \ m
sys_get_stack(m) ==
  IF USE_MPROTECT_STACK /\ sys_get_blk(m) = {NULL} THEN {WILD} ELSE sys_get_blk(m)

(* Mutated: the first stack is kept when there is no second.               *)
_cre_tsk_no_undo(t, separate) ==
  \E s \in sys_get_stack(used) :
    \E u \in IF separate THEN sys_get_stack(used \cup {s}) ELSE {NULL} :
      IF s = NULL THEN UNCHANGED <<taskvars, memvars>>
      ELSE IF separate /\ u = NULL
      THEN used' = used \cup {s} /\ UNCHANGED <<taskvars, others>>
      ELSE /\ used' = used \cup ({s, u} \cap Block)
           /\ free_tcb' = IF t \in UserTask THEN queue_delete(free_tcb, t) ELSE free_tcb
           /\ isstack' = [isstack EXCEPT ![t] = s]
           /\ istack' = [istack EXCEPT ![t] = u]
           /\ state' = [state EXCEPT ![t] = "DORMANT"]
           /\ UNCHANGED others

(* A task gets a system stack and, when it does not run in the mode of the *)
(* system, a user stack; or nothing.                                       *)
_cre_tsk(t, separate) ==
  \E s \in sys_get_stack(used) :
    \E u \in IF separate THEN sys_get_stack(used \cup {s}) ELSE {NULL} :
      IF s = NULL \/ (separate /\ u = NULL)
      THEN UNCHANGED <<taskvars, memvars>>
      ELSE /\ used' = used \cup ({s, u} \cap Block)
           /\ free_tcb' = IF t \in UserTask THEN queue_delete(free_tcb, t) ELSE free_tcb
           /\ isstack' = [isstack EXCEPT ![t] = s]
           /\ istack' = [istack EXCEPT ![t] = u]
           /\ state' = [state EXCEPT ![t] = "DORMANT"]
           /\ UNCHANGED others

_del_tsk(t) ==
  /\ used' = used \ {isstack[t], istack[t]}
  /\ free_tcb' = IF t \in UserTask THEN Append(free_tcb, t) ELSE free_tcb
  /\ state' = [state EXCEPT ![t] = "NONEXIST"]
  /\ UNCHANGED <<isstack, istack, others>>

(***************************************************************************)
(* The system calls.  A handler of an interrupt may make most of them too, *)
(* on top of whatever runs, so a call does not depend on the running task. *)
(***************************************************************************)
creates == ctxtsk # NULL \/ IDLE_CREATES

cre_tsk(t, separate) ==
  /\ creates
  /\ ~exists(t)
  /\ _cre_tsk(t, separate)
  /\ UNCHANGED <<ctxtsk, sp>>

(* The kernel chooses the control block.                                   *)
vcre_tsk(separate) ==
  /\ creates
  /\ free_tcb # <<>>
  /\ _cre_tsk(Head(free_tcb), separate)
  /\ UNCHANGED <<ctxtsk, sp>>

del_tsk(t) ==
  /\ state[t] = "DORMANT"
  /\ _del_tsk(t)
  /\ UNCHANGED <<ctxtsk, sp>>

set_state(t, from, to) ==
  /\ state[t] = from
  /\ state' = [state EXCEPT ![t] = to]
  /\ UNCHANGED <<isstack, istack, free_tcb, memvars, ctxtsk, sp>>

(* sta_tsk, wup_tsk, and a call that waits.                                *)
start_or_wake(t) == set_state(t, "DORMANT", "READY") \/ set_state(t, "WAIT", "READY")
wait == ctxtsk # NULL /\ set_state(ctxtsk, "READY", "WAIT")

(* force_dispatch: no task runs, on the stack of the one that ended.       *)
ext_tsk ==
  /\ ctxtsk # NULL
  /\ state' = [state EXCEPT ![ctxtsk] = "DORMANT"]
  /\ ctxtsk' = NULL
  /\ UNCHANGED <<isstack, istack, free_tcb, memvars, sp>>

exd_tsk ==
  /\ ctxtsk # NULL
  /\ _del_tsk(ctxtsk)
  /\ ctxtsk' = NULL
  /\ UNCHANGED sp

(* The dispatcher: the chosen task goes on, on its own stack, or the       *)
(* processor idles on the stack it has.                                    *)
dispatch ==
  \/ \E t \in Task :
       /\ state[t] = "READY" /\ ctxtsk # t
       /\ ctxtsk' = t
       /\ sp' = isstack[t]
       /\ UNCHANGED <<taskvars, memvars>>
  \/ /\ ctxtsk # NULL
     /\ \A t \in Task : state[t] # "READY"
     /\ ctxtsk' = NULL
     /\ UNCHANGED <<taskvars, memvars, sp>>

(* Message buffers and memory pools take their memory from the same place. *)
create_other ==
  /\ creates
  /\ \E b \in sys_get_blk(used) \cap Block : used' = used \cup {b} /\ others' = others \cup {b}
  /\ UNCHANGED <<taskvars, ctxtsk, sp>>

delete_other(b) ==
  /\ used' = used \ {b}
  /\ others' = others \ {b}
  /\ UNCHANGED <<taskvars, ctxtsk, sp>>

Next ==
  \/ \E t \in Task : del_tsk(t) \/ start_or_wake(t)
  \/ \E t \in UserTask, separate \in BOOLEAN : cre_tsk(t, separate)
  \/ \E t \in SystemTask : cre_tsk(t, FALSE)
  \/ \E separate \in BOOLEAN : vcre_tsk(separate)
  \/ wait \/ ext_tsk \/ exd_tsk \/ dispatch \/ create_other
  \/ \E b \in others : delete_other(b)

Spec == Init /\ [][Next]_vars

(***************************************************************************)
(* Properties                                                              *)
(***************************************************************************)
stacks(t) == {isstack[t], istack[t]} \ {NULL}

(* Every block that has been handed out belongs to exactly one task or     *)
(* other object: a creation that fails half-way keeps nothing, and a       *)
(* deletion gives everything back.                                         *)
NothingLeaksOrShared ==
  /\ used = others \cup UNION {stacks(t) : t \in {u \in Task : exists(u)}}
  /\ \A t \in Task : exists(t) =>
       /\ isstack[t] # istack[t]
       /\ stacks(t) \cap others = {}
       /\ \A u \in Task \ {t} : exists(u) => stacks(t) \cap stacks(u) = {}

(* The list of free control blocks holds just those of the user tasks that *)
(* do not exist, each once: vcre_tsk takes no live task, and misses none.  *)
FreeListExact ==
  /\ ToSet(free_tcb) = {t \in UserTask : ~exists(t)}
  /\ IsInjective(free_tcb)

(* The processor runs on the stack of the task that runs; and while no     *)
(* task runs, on one that has not become another object, or the user stack *)
(* of another task, in the meantime.  exd_tsk gives its stack back before  *)
(* it leaves it, and relies on that.                                       *)
RunsOnOwnStack ==
  /\ ctxtsk # NULL => sp = isstack[ctxtsk]
  /\ sp \notin others
  /\ \A t \in Task : exists(t) /\ istack[t] # NULL => sp # istack[t]

(* A task that was created has stacks (doc/USER): when memory is short the *)
(* creation fails.                                                         *)
CreatedWithStacks ==
  \A t \in Task : exists(t) => isstack[t] \in Block /\ istack[t] \in Block \cup {NULL}
=============================================================================
