-------------------------------- MODULE PriSem --------------------------------
(***************************************************************************)
(* Priority inheritance semaphores (kernel/prisem.c, with PRISEM_SPEC1,    *)
(* the default) on top of the task management calls.                       *)
(*                                                                         *)
(* A change of the priority of a task that waits for a semaphore changes   *)
(* that of the task that has it, and so on along the chain (the hooks of   *)
(* wspec_pis).  One call changes the same fields several times, so the     *)
(* operations here are functions on a record of these fields, kernel, and  *)
(* becomes makes the last such record the next state.  The hooks and       *)
(* change_task_priority call each other as the last thing that they do, so *)
(* each gives the change of a priority that is to be made next, and        *)
(* change_priority makes one after the other.  The calls of TaskManagement *)
(* in which a hook is called are replaced by those below.                  *)
(***************************************************************************)
EXTENDS TaskManagement

CONSTANTS
  Pis,      (* the priority inheritance semaphores, all of them TA_TPRI    *)
  IsBefore, (* set of pairs: the order in which tasks take semaphores      *)
  MAX_CHAIN (* bound of the changes of priorities that one call makes      *)

(* The order is a strict one, and no chain of tasks is longer than the     *)
(* bound.                                                                  *)
ASSUME PriSemAssumption ==
  /\ Pis \subseteq TaTpri
  /\ IsBefore \subseteq Pis \X Pis
  /\ \A p \in Pis : <<p, p>> \notin IsBefore
  /\ \A p, q, r \in Pis : <<p, q>> \in IsBefore /\ <<q, r>> \in IsBefore => <<p, r>> \in IsBefore
  /\ IsFiniteSet(Task) /\ MAX_CHAIN \in Nat /\ Cardinality(Task) <= MAX_CHAIN

VARIABLES
  piss,     (* the semaphores whose pisatr is not OBJ_NONEXIST             *)
  pistsk,   (* the task that has each, NoTask when none has                *)
  pislist,  (* the semaphores that each task has, the last taken first     *)
  chg_pri_used (* history: a priority was changed by chg_pri               *)

pisvars == <<piss, pistsk, pislist, chg_pri_used>>

prisem_initialize ==
  /\ piss = {}
  /\ pistsk = [p \in Pis |-> NoTask]
  /\ pislist = [t \in Task |-> << >>]
  /\ chg_pri_used = FALSE

kernel == [state |-> state, priority |-> priority, wspec |-> wspec,
           wait_queue |-> wait_queue, timer_queue |-> timer_queue,
           ready_queue |-> ready_queue, schedtsk |-> schedtsk,
           pistsk |-> pistsk, pislist |-> pislist]

becomes(k) ==
  /\ state' = k.state /\ priority' = k.priority /\ wspec' = k.wspec
  /\ wait_queue' = k.wait_queue /\ timer_queue' = k.timer_queue
  /\ ready_queue' = k.ready_queue /\ schedtsk' = k.schedtsk
  /\ pistsk' = k.pistsk /\ pislist' = k.pislist

-----------------------------------------------------------------------------
pis_waited(k, p)   == k.wait_queue[p] # << >>
pis_head_pri(k, p) == k.priority[Head(k.wait_queue[p])]

(* The least of the initial priority of t and the priorities at the heads  *)
(* of the queues of the semaphores of list.                                *)
inherited(k, t, list) ==
  Min({ipriority[t]} \cup {pis_head_pri(k, p) : p \in {q \in ToSet(list) : pis_waited(k, q)}})

(* A change of the priority of t that is still to be made.                *)
to_change(k, t, pri) == [k |-> k, t |-> t, pri |-> pri]
no_change(k)         == to_change(k, NoTask, 0)

reset_priority(k, t) ==
  LET newpri == inherited(k, t, k.pislist[t]) IN
  IF newpri # k.priority[t] THEN to_change(k, t, newpri) ELSE no_change(k)

(* Mutated: the waiter whose priority changes keeps its place.             *)
pis_chg_pri_keeps_place(k, t, oldpri) ==
  LET o == k.pistsk[k.wspec[t]]
  IN  IF k.priority[o] > k.priority[t] THEN to_change(k, o, k.priority[t])
      ELSE IF k.priority[o] = oldpri THEN reset_priority(k, o)
      ELSE no_change(k)

(* The hook for a change of the priority of t, which waits.                *)
pis_chg_pri(k, t, oldpri) ==
  LET p == k.wspec[t]
      o == k.pistsk[p]
      moved == [k EXCEPT !.wait_queue[p] =
                  queue_insert_tpri(queue_delete(@, t), t, k.priority)]
  IN  IF k.priority[o] > k.priority[t] THEN to_change(moved, o, k.priority[t])
      ELSE IF k.priority[o] = oldpri THEN reset_priority(moved, o)
      ELSE no_change(moved)

(* change_task_priority of task.c with this hook.                          *)
change_made(c) ==
  LET k == c.k
      t == c.t
      changed == [k EXCEPT !.priority[t] = c.pri]
      rq == ready_queue_insert(ready_queue_delete(k.ready_queue, t, k.priority[t]), t, c.pri)
  IN  IF t = NoTask THEN c
      ELSE IF k.state[t] = "READY"
      THEN no_change([changed EXCEPT !.ready_queue = rq, !.schedtsk = ready_queue_top(rq)])
      ELSE IF k.state[t] \in TS_WAIT /\ k.wspec[t] \in Pis
      THEN pis_chg_pri(changed, t, k.priority[t])
      ELSE no_change(changed)

change_priority(c) ==
  LET after[n \in 0 .. MAX_CHAIN] == IF n = 0 THEN c ELSE change_made(after[n - 1])
  IN  after[MAX_CHAIN].k

(* The hook for the end of a wait of t other than by getting semaphore p.  *)
pis_rel_wai(k, t, p) ==
  IF k.priority[k.pistsk[p]] = k.priority[t]
  THEN change_priority(reset_priority(k, k.pistsk[p]))
  ELSE k

-----------------------------------------------------------------------------
(* wait_release of t.                                                      *)
released(k, t) ==
  LET pri   == k.priority[t]
      woken == [k EXCEPT !.wspec[t] = "none",
                         !.wait_queue[k.wspec[t]] = queue_delete(@, t),
                         !.timer_queue = @ \ {t}]
  IN  IF k.state[t] = "WAIT"
      THEN [woken EXCEPT
             !.state[t] = "READY",
             !.ready_queue = ready_queue_insert(@, t, pri),
             !.schedtsk = IF pri < k.ready_queue.top_priority THEN t ELSE @]
      ELSE [woken EXCEPT !.state[t] = "SUSPEND"]

released_all(k, tasks) ==
  LET after[n \in 0 .. Len(tasks)] == IF n = 0 THEN k ELSE released(after[n - 1], tasks[n])
  IN  after[Len(tasks)]

(* p goes to the first task that waits for it, or to none.                 *)
signal(k, p) ==
  IF pis_waited(k, p)
  THEN LET t == Head(k.wait_queue[p])
       IN  [released(k, t) EXCEPT !.pistsk[p] = t, !.pislist[t] = <<p>> \o @]
  ELSE [k EXCEPT !.pistsk[p] = NoTask]

(* Mutated: the other semaphores of the task are not taken into account.   *)
release_prisem_forgets_others(k, t, p) ==
  LET without == [k EXCEPT !.pislist[t] = queue_delete(@, p)] IN
  IF pis_waited(k, p) /\ k.priority[t] = pis_head_pri(k, p) /\ k.priority[t] < ipriority[t]
  THEN change_priority(to_change(without, t, ipriority[t]))
  ELSE without

(* t no longer has p, and falls to the priority that is left to it.        *)
release_prisem(k, t, p) ==
  LET without == [k EXCEPT !.pislist[t] = queue_delete(@, p)]
      newpri  == inherited(k, t, without.pislist[t])
  IN  IF pis_waited(k, p) /\ k.priority[t] = pis_head_pri(k, p) /\ k.priority[t] < newpri
      THEN change_priority(to_change(without, t, newpri))
      ELSE without

(* The semaphores of list, one after the other.                            *)
signal_those(k, list) ==
  LET after[n \in 0 .. Len(list)] == IF n = 0 THEN k ELSE signal(after[n - 1], list[n])
  IN  after[Len(list)]

(* Mutated: a semaphore that nobody waits for stays with the task.         *)
signal_all_prisem_waited_only(k, t) ==
  signal_those(k, SelectSeq(k.pislist[t], LAMBDA p : pis_waited(k, p)))

signal_all_prisem(k, t) == signal_those(k, k.pislist[t])

(* _ter_tsk and make_dormant.  The hook is called before the state of t    *)
(* changes.                                                                *)
terminated(k, t, new_state) ==
  LET stopped == [k EXCEPT !.ready_queue = ready_queue_delete(@, t, k.priority[t])]
      cancelled == [k EXCEPT !.wait_queue[k.wspec[t]] = queue_delete(@, t),
                             !.timer_queue = @ \ {t}]
      out == IF k.state[t] = "READY"
             THEN [stopped EXCEPT !.schedtsk =
                     IF @ = t THEN ready_queue_top(stopped.ready_queue) ELSE @]
             ELSE IF k.state[t] \in TS_WAIT THEN pis_rel_wai(cancelled, t, k.wspec[t])
             ELSE k
  IN  [signal_all_prisem(out, t) EXCEPT
        !.state[t] = new_state,
        !.priority[t] = IF new_state = "DORMANT" THEN ipriority[t] ELSE @,
        !.wspec[t] = "none",
        !.pislist[t] = << >>]

-----------------------------------------------------------------------------
vcre_pis(p) ==
  /\ caller
  /\ p \notin piss
  /\ piss' = piss \cup {p}
  /\ pistsk' = [pistsk EXCEPT ![p] = NoTask]
  /\ UNCHANGED <<pislist, chg_pri_used, vars>>

vdel_pis(p) ==
  /\ caller
  /\ p \in piss
  /\ LET k == IF pistsk[p] # NoTask THEN release_prisem(kernel, pistsk[p], p) ELSE kernel
     IN  becomes(released_all(k, k.wait_queue[p]))
  /\ piss' = piss \ {p}
  /\ UNCHANGED <<chg_pri_used, countvars, ipriority, cpuvars>>

vsig_pis(p) ==
  /\ in_task
  /\ p \in piss
  /\ pistsk[p] = ctxtsk
  /\ becomes(signal(release_prisem(kernel, ctxtsk, p), p))
  /\ UNCHANGED <<piss, chg_pri_used, countvars, ipriority, cpuvars>>

(* vwai_pis has no time-out, vpreq_pis does not wait.                      *)
vtwai_pis(p, timed) ==
  /\ in_task
  /\ ~in_ddsp
  /\ p \in piss
  /\ IF pistsk[p] = NoTask
     THEN /\ pistsk' = [pistsk EXCEPT ![p] = ctxtsk]
          /\ pislist' = [pislist EXCEPT ![ctxtsk] = <<p>> \o @]
          /\ UNCHANGED <<state, priority, waitvars, schedvars>>
     ELSE LET o == pistsk[p]
              raised == IF priority[o] > priority[ctxtsk]
                        THEN change_priority(to_change(kernel, o, priority[ctxtsk]))
                        ELSE kernel
              rq == IF state[ctxtsk] = "READY"
                    THEN ready_queue_delete(raised.ready_queue, ctxtsk, raised.priority[ctxtsk])
                    ELSE raised.ready_queue
          IN  becomes([raised EXCEPT
                !.state[ctxtsk] = IF @ = "READY" THEN "WAIT" ELSE "WAITSUS",
                !.ready_queue = rq,
                !.schedtsk = IF @ = ctxtsk THEN ready_queue_top(rq) ELSE @,
                !.wspec[ctxtsk] = p,
                !.wait_queue[p] = queue_insert_tpri(@, ctxtsk, raised.priority),
                !.timer_queue = IF timed THEN @ \cup {ctxtsk} ELSE @])
  /\ UNCHANGED <<piss, chg_pri_used, countvars, ipriority, cpuvars>>

-----------------------------------------------------------------------------
(* The calls of TaskManagement in which a hook is called.                  *)
pis_rel_wai_tsk(t) ==
  /\ caller
  /\ waiting(t)
  /\ becomes(pis_rel_wai(released(kernel, t), t, wspec[t]))
  /\ UNCHANGED <<piss, chg_pri_used, countvars, ipriority, cpuvars>>

pis_timer_handler(t) ==
  /\ in_indp
  /\ t \in timer_queue
  /\ becomes(pis_rel_wai(released(kernel, t), t, wspec[t]))
  /\ UNCHANGED <<piss, chg_pri_used, countvars, ipriority, cpuvars>>

pis_chg_pri_tsk(t, pri) ==
  /\ caller
  /\ state[t] # "NONEXIST"
  /\ becomes(change_priority(to_change(kernel, t, pri)))
  /\ chg_pri_used' = TRUE
  /\ UNCHANGED <<piss, countvars, ipriority, cpuvars>>

pis_ter_tsk(t) ==
  /\ in_task
  /\ nonself(t)
  /\ task_alive(t)
  /\ becomes(terminated(kernel, t, "DORMANT"))
  /\ wupcnt' = [wupcnt EXCEPT ![t] = 0]
  /\ suscnt' = [suscnt EXCEPT ![t] = 0]
  /\ UNCHANGED <<piss, chg_pri_used, ipriority, cpuvars>>

pis_ext_tsk ==
  /\ in_task
  /\ becomes(terminated(kernel, ctxtsk, "DORMANT"))
  /\ wupcnt' = [wupcnt EXCEPT ![ctxtsk] = 0]
  /\ suscnt' = [suscnt EXCEPT ![ctxtsk] = 0]
  /\ force_dispatch
  /\ UNCHANGED <<piss, chg_pri_used, ipriority>>

pis_exd_tsk ==
  /\ in_task
  /\ becomes(terminated(kernel, ctxtsk, "NONEXIST"))
  /\ force_dispatch
  /\ UNCHANGED <<piss, chg_pri_used, countvars, ipriority>>

-----------------------------------------------------------------------------
PisInit == Init /\ prisem_initialize

(* The tasks take semaphores in the order of IsBefore.                     *)
taken_in_order(p) == \A q \in ToSet(pislist[ctxtsk]) : <<q, p>> \in IsBefore

PisCall ==
  \E p \in Pis :
    \/ vcre_pis(p) \/ vdel_pis(p) \/ vsig_pis(p)
    \/ in_task /\ taken_in_order(p) /\ \E timed \in BOOLEAN : vtwai_pis(p, timed)

PisTaskCall ==
  \/ \E t \in Task :
       \/ pis_rel_wai_tsk(t) \/ pis_timer_handler(t) \/ pis_ter_tsk(t)
       \/ \E pri \in Priority : pis_chg_pri_tsk(t, pri)
  \/ pis_ext_tsk \/ pis_exd_tsk

(* The other calls; in this module tasks wait for semaphores only.         *)
OtherCall ==
  /\ \/ \E t \in Task :
          \/ del_tsk(t) \/ sta_tsk(t) \/ sus_tsk(t) \/ rsm_tsk(t) \/ frsm_tsk(t)
          \/ \E pri \in Priority : cre_tsk(t, pri)
     \/ CpuStep
  /\ UNCHANGED pisvars

PisNext == PisCall \/ PisTaskCall \/ OtherCall

PisSpec == PisInit /\ [][PisNext]_<<vars, pisvars>>
-----------------------------------------------------------------------------
(* Every variable has its type.                                            *)
PisTypeOK ==
  /\ TypeOK
  /\ piss \in SUBSET Pis
  /\ pistsk \in [Pis -> Task \cup {NoTask}]
  /\ \A t \in Task : pislist[t] \in Seq(Pis) /\ IsInjective(pislist[t])
  /\ chg_pri_used \in BOOLEAN

(* The list of semaphores of a task and the task of a semaphore agree,     *)
(* only a task that is alive has one, and one that is waited for is had by *)
(* some task (user's manual on vref_pis): whatever ends the task that has  *)
(* it, or the wait, hands it on or back.                                   *)
OwnersExact ==
  /\ \A p \in piss : \A t \in Task : pistsk[p] = t <=> p \in ToSet(pislist[t])
  /\ \A t \in Task : ToSet(pislist[t]) \subseteq piss
  /\ \A p \in piss : pistsk[p] # NoTask => task_alive(pistsk[p])
  /\ \A p \in piss : wait_queue[p] # << >> => pistsk[p] # NoTask

(* The variables have their types, and a semaphore and its owner know of   *)
(* each other, also when tasks end with semaphores (OwnersExact).          *)
OwnersSound == PisTypeOK /\ OwnersExact

(* The priority of a task is the highest of its initial priority and those *)
(* of the tasks that wait for a semaphore it has.                          *)
InheritsExactly ==
  \A t \in Task : task_alive(t) =>
    priority[t] = Min({ipriority[t]} \cup
                      {priority[u] : u \in {w \in Task : waiting(w) /\ wspec[w] \in ToSet(pislist[t])}})

(* The promise of the manual: without chg_pri priorities are inherited     *)
(* exactly, along chains of any length, and also after any of the waits    *)
(* has ended in any way.                                                   *)
InheritsUnlessChanged == ~chg_pri_used => InheritsExactly

(* The waiters of a semaphore are in the order of their priorities, also   *)
(* those whose priority was changed by inheriting along a chain.           *)
PisQueueSorted ==
  \A p \in Pis : \A i, j \in DOMAIN wait_queue[p] :
    i < j => priority[wait_queue[p][i]] <= priority[wait_queue[p][j]]

(* The assertion in make_non_wait (and the comment that precedes it): a    *)
(* task that is taken out of a wait queue is waiting.                      *)
QueuedTasksWait == \A p \in Pis : \A t \in ToSet(wait_queue[p]) : waiting(t)
=============================================================================
