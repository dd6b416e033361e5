------------------------- MODULE BsdDispatcherProofs -------------------------
(***************************************************************************)
(* What BsdDispatcher promises, for every number of tasks and interrupts   *)
(* and any nesting of handlers, as long as no handler of an interrupt      *)
(* unmasks all interrupts.  The invariant follows the mask of the base     *)
(* flow below the handlers that lie on top of it.                          *)
(***************************************************************************)
EXTENDS BsdDispatcher, TLAPS

HandlersObey == \A m \in HANDLER_MASKS : m \cap Irq # {}

Masked(m) == SIGUSR2 \in m /\ m \cap Irq # {}

(* The mask of the base flow: the innermost handler gives back the first   *)
(* of nest, the outermost the last.                                        *)
Base == IF nest = <<>> THEN mask ELSE nest[Len(nest)]

HandlersMasked ==
  nest # <<>> => Masked(mask) /\ \A k \in 1 .. Len(nest) - 1 : Masked(nest[k])

BaseMask ==
  /\ place = "task" => Base = SIGMASK_TASK \/ SIGUSR2 \in Base
  /\ place \in {"test", "save", "return", "idle"} => SIGUSR2 \in Base
  /\ place \in {"startup", "switch", "start"} => Base = SIGMASK_LOC
  /\ place \in {"startup", "idle"} => nest = <<>>

Unmasked ==
  /\ \A t \in Task : env[t].mask = SIGMASK_TASK
  /\ place \in {"test", "return"} => frame = SIGMASK_TASK
  /\ place = "save" /\ ctxtsk # NULL => frame = SIGMASK_TASK

StartsAlone == place = "startup" => ctxtsk = NULL

IInv ==
  /\ TypeOK /\ HandlersMasked /\ BaseMask /\ Unmasked /\ StartsAlone
  /\ RunsAsItself /\ NeededDispatchPending

-----------------------------------------------------------------------------
(* The stack of masks                                                      *)

(* A handler that begins keeps the mask that the base flow gets back.      *)
LEMMA PushKeepsBase ==
  ASSUME NEW s \in Seq(SUBSET Signal), NEW m \in SUBSET Signal
  PROVE  /\ <<m>> \o s \in Seq(SUBSET Signal)
         /\ <<m>> \o s # <<>>
         /\ (<<m>> \o s)[Len(<<m>> \o s)] = IF s = <<>> THEN m ELSE s[Len(s)]
         /\ \A k \in 1 .. Len(<<m>> \o s) - 1 :
              \/ (<<m>> \o s)[k] = m /\ s # <<>>
              \/ k - 1 \in 1 .. Len(s) - 1 /\ (<<m>> \o s)[k] = s[k - 1]
<1>1. /\ Len(<<m>> \o s) = Len(s) + 1
      /\ <<m>> \o s \in Seq(SUBSET Signal)
      /\ (<<m>> \o s)[1] = m
      /\ \A k \in 2 .. Len(s) + 1 : (<<m>> \o s)[k] = s[k - 1]
  OBVIOUS
<1>2. Len(s) \in Nat /\ (s = <<>> <=> Len(s) = 0)
  OBVIOUS
<1> QED BY <1>1, <1>2

(* So does one that returns.                                               *)
LEMMA PopKeepsBase ==
  ASSUME NEW s \in Seq(SUBSET Signal), s # <<>>
  PROVE  /\ Head(s) \in SUBSET Signal
         /\ Tail(s) \in Seq(SUBSET Signal)
         /\ Head(s) = s[1]
         /\ s[Len(s)] = IF Tail(s) = <<>> THEN Head(s) ELSE Tail(s)[Len(Tail(s))]
         /\ Tail(s) # <<>> => 1 \in 1 .. Len(s) - 1
         /\ \A k \in 1 .. Len(Tail(s)) - 1 : k + 1 \in 1 .. Len(s) - 1 /\ Tail(s)[k] = s[k + 1]
<1>1. /\ Len(s) \in Nat \ {0}
      /\ Head(s) = s[1]
      /\ Tail(s) \in Seq(SUBSET Signal)
      /\ Len(Tail(s)) = Len(s) - 1
      /\ \A k \in 1 .. Len(s) - 1 : Tail(s)[k] = s[k + 1]
  OBVIOUS
<1>2. Tail(s) = <<>> <=> Len(Tail(s)) = 0
  BY <1>1
<1>3. Head(s) \in SUBSET Signal
  OBVIOUS
<1> QED BY <1>1, <1>2, <1>3

-----------------------------------------------------------------------------
(* The ready queue                                                         *)

Requested ==
  /\ ready' \subseteq Task /\ schedtsk' \in ready' \cup {NULL}
  /\ pending' \subseteq Signal /\ pending \subseteq pending'
  /\ schedtsk' # schedtsk => SIGUSR2 \in pending'

(* Whatever changes schedtsk asks for a dispatch.                          *)
LEMMA ChangesRequested ==
  ASSUME TypeOK, NEW t \in Task, make_ready(t) \/ reschedule(t) \/ make_non_ready(t)
  PROVE  Requested
BY DEF TypeOK, make_ready, reschedule, make_non_ready, dispatch_request, Requested, Signal

(* As long as the base flow and the masks stay, a change of the ready      *)
(* queue disturbs nothing.                                                 *)
LEMMA QueueStep ==
  ASSUME IInv, Requested, UNCHANGED <<ctxtsk, sigvars, flowvars>>,
         env' \in [Task -> [at : {"start", "return"}, mask : SUBSET Signal]],
         \A u \in Task : env'[u].mask = SIGMASK_TASK
  PROVE  IInv'
<1> USE DEF IInv, sigvars, flowvars
<1>1. TypeOK'
  BY DEF TypeOK, Requested
<1>2. HandlersMasked' /\ BaseMask'
  BY DEF HandlersMasked, Masked, BaseMask, Base
<1>3. Unmasked' /\ StartsAlone'
  BY DEF Unmasked, StartsAlone
<1>4. RunsAsItself' /\ NeededDispatchPending'
  BY DEF RunsAsItself, NeededDispatchPending, Requested
<1> QED BY <1>1, <1>2, <1>3, <1>4

-----------------------------------------------------------------------------
(* The inductive invariant                                                 *)

LEMMA InitInv == Init => IInv
<1> SUFFICES ASSUME Init PROVE IInv
  OBVIOUS
<1>1. TypeOK
  BY DEF Init, TypeOK, Place, Started, Signal, SIGMASK_TASK, SIGMASK_LOC
<1>2. HandlersMasked /\ BaseMask /\ Unmasked /\ StartsAlone
  BY DEF Init, HandlersMasked, BaseMask, Base, Unmasked, StartsAlone, Started
<1>3. RunsAsItself /\ NeededDispatchPending
  BY DEF Init, RunsAsItself, NeededDispatchPending
<1> QED BY <1>1, <1>2, <1>3 DEF IInv

(* Calls of tasks and of handlers that change the ready queue.             *)
LEMMA CallStep ==
  ASSUME IInv, NEW t \in Task, kernel_call(t) \/ handler_call(t) \/ wait_call
  PROVE  IInv'
<1>1. Requested
  <2>1. CASE kernel_call(t) \/ handler_call(t)
    BY <2>1, ChangesRequested DEF IInv, kernel_call, handler_call, stop_other
  <2>2. CASE wait_call
    <3>1. ctxtsk \in Task
      BY <2>2 DEF wait_call, task_runs, runs, IInv, RunsAsItself, TypeOK
    <3> QED BY <2>2, <3>1, ChangesRequested DEF IInv, wait_call
  <2> QED BY <2>1, <2>2
<1>2. UNCHANGED <<ctxtsk, sigvars, flowvars>>
  BY DEF kernel_call, handler_call, wait_call
<1>3. /\ env' \in [Task -> [at : {"start", "return"}, mask : SUBSET Signal]]
      /\ \A u \in Task : env'[u].mask = SIGMASK_TASK
  <2>1. env' = env \/ env' = [env EXCEPT ![t] = Started]
    BY DEF kernel_call, handler_call, wait_call, stop_other
  <2>2. Started \in [at : {"start", "return"}, mask : SUBSET Signal] /\ Started.mask = SIGMASK_TASK
    BY DEF Started, SIGMASK_TASK
  <2> QED BY <2>1, <2>2 DEF IInv, TypeOK, Unmasked
<1> QED BY <1>1, <1>2, <1>3, QueueStep

(* The end of a task and the end of the start-up leave for the dispatcher. *)
LEMMA LeaveStep ==
  ASSUME IInv, NEW t \in Task, ext_tsk \/ main(t)
  PROVE  IInv'
<1>1. CASE ext_tsk
  <2>1. /\ ctxtsk \in Task
        /\ nest = <<>> /\ nest' = <<>> /\ place' = "save" /\ ctxtsk' = NULL
        /\ mask' = SIGMASK_LOC /\ stack' = stack /\ frame' = frame
        /\ env' = [env EXCEPT ![ctxtsk] = Started]
    BY <1>1 DEF ext_tsk, task_runs, runs, IInv, RunsAsItself, TypeOK
  <2>2. /\ ready' \subseteq Task /\ schedtsk' \in ready' \cup {NULL}
        /\ pending' \subseteq Signal
    BY <1>1, <2>1, ChangesRequested DEF ext_tsk, IInv, TypeOK, Requested, readyvars
  <2>3. Started \in [at : {"start", "return"}, mask : SUBSET Signal] /\ Started.mask = SIGMASK_TASK
    BY DEF Started, SIGMASK_TASK
  <2>4. TypeOK'
    BY <2>1, <2>2, <2>3 DEF IInv, TypeOK, Place, SIGMASK_LOC
  <2>5. HandlersMasked' /\ BaseMask'
    BY <2>1 DEF HandlersMasked, BaseMask, Base, SIGMASK_LOC, Signal
  <2>6. Unmasked' /\ StartsAlone' /\ RunsAsItself' /\ NeededDispatchPending'
    BY <2>1, <2>3 DEF IInv, TypeOK, Unmasked, StartsAlone, RunsAsItself, NeededDispatchPending
  <2> QED BY <2>4, <2>5, <2>6 DEF IInv
<1>2. CASE main(t)
  <2>1. /\ nest = <<>> /\ place = "startup" /\ place' = "save" /\ Requested
        /\ UNCHANGED <<ctxtsk, mask, nest, stack, frame, env>>
    BY <1>2, ChangesRequested DEF main, runs, IInv, sigvars
  <2>2. TypeOK'
    BY <2>1 DEF IInv, TypeOK, Place, Requested
  <2>3. HandlersMasked' /\ BaseMask'
    BY <2>1 DEF IInv, HandlersMasked, BaseMask, Base, SIGMASK_LOC, Signal
  <2>4. Unmasked' /\ StartsAlone' /\ RunsAsItself' /\ NeededDispatchPending'
    BY <2>1 DEF IInv, Unmasked, StartsAlone, RunsAsItself, NeededDispatchPending
  <2> QED BY <2>2, <2>3, <2>4 DEF IInv
<1> QED BY <1>1, <1>2

(* The calls for masks.  What they do to the mask of a task keeps SIGUSR2  *)
(* masked unless nothing is masked; in a handler it stays masked, because  *)
(* some interrupt stays masked too.                                        *)
LEMMA MaskStep ==
  ASSUME IInv, HandlersObey, NEW n \in SUBSET Signal,
         dis_dsp \/ ena_dsp \/ loc_cpu \/ unl_cpu \/ chg_ims(n)
  PROVE  IInv'
<1>1. PICK m \in SUBSET Signal : set_mask(m)
  BY DEF dis_dsp, ena_dsp, loc_cpu, unl_cpu, chg_ims, Signal,
         SIGMASK_DDSP, SIGMASK_TASK, SIGMASK_LOC
<1>2. /\ mask' = m
      /\ UNCHANGED <<ready, schedtsk, ctxtsk, pending, nest, place, stack, frame, env>>
  BY <1>1 DEF set_mask, readyvars, flowvars
<1>3. TypeOK'
  BY <1>2 DEF IInv, TypeOK
<1>4. Unmasked' /\ StartsAlone' /\ RunsAsItself' /\ NeededDispatchPending'
  BY <1>2 DEF IInv, Unmasked, StartsAlone, RunsAsItself, NeededDispatchPending
<1>5. HandlersMasked' /\ BaseMask'
  <2>1. CASE nest # <<>>
    <3>1. Masked(mask) /\ mask \cap Irq # {}
      BY <2>1 DEF IInv, HandlersMasked, Masked
    <3>2. chg_ims(n) /\ n \in HANDLER_MASKS /\ SIGMASK_INDP \subseteq n /\ m = n
      BY <1>2, <2>1, <3>1 DEF dis_dsp, ena_dsp, loc_cpu, unl_cpu, chg_ims, in_loc, task_runs, runs, set_mask
    <3>3. Masked(m)
      BY <3>2 DEF HandlersObey, Masked, SIGMASK_INDP
    <3> QED BY <1>2, <2>1, <3>3 DEF IInv, HandlersMasked, BaseMask, Base, Masked
  <2>2. CASE nest = <<>>
    <3>1. task_runs
      BY <2>2 DEF dis_dsp, ena_dsp, loc_cpu, unl_cpu, chg_ims, handler_runs
    <3>2. m = SIGMASK_TASK \/ SIGUSR2 \in m
      BY <1>2 DEF dis_dsp, ena_dsp, loc_cpu, unl_cpu, chg_ims, set_mask, Signal,
                  SIGMASK_DDSP, SIGMASK_TASK, SIGMASK_LOC, SIGMASK_INDP
    <3> QED BY <1>2, <2>2, <3>1, <3>2 DEF HandlersMasked, BaseMask, Base, task_runs, runs
  <2> QED BY <2>1, <2>2
<1> QED BY <1>3, <1>4, <1>5 DEF IInv

(* Interrupts begin and return.                                            *)
LEMMA InterruptStep ==
  ASSUME IInv, NEW i \in Irq, raise(i) \/ interrupt(i) \/ interrupt_return
  PROVE  IInv'
<1> USE DispatcherAssumption
<1>1. CASE raise(i)
  <2>1. /\ pending' = pending \cup {i}
        /\ UNCHANGED <<ready, schedtsk, ctxtsk, mask, nest, place, stack, frame, env>>
    BY <1>1 DEF raise, readyvars, sigvars, flowvars
  <2>2. TypeOK'
    BY <2>1 DEF IInv, TypeOK, Signal
  <2> QED BY <2>1, <2>2 DEF IInv, HandlersMasked, Masked, BaseMask, Base, Unmasked, StartsAlone,
                            RunsAsItself, NeededDispatchPending
<1>2. CASE interrupt(i)
  <2> DEFINE idle == place = "idle" /\ nest = <<>>
             kept == IF idle THEN SIGMASK_LOC ELSE mask
  <2>1. /\ i \notin mask /\ pending' = pending \ {i}
        /\ mask' = mask \cup SIGMASK_INDP \cup {i}
        /\ place' = IF idle THEN "switch" ELSE place
        /\ UNCHANGED <<ready, schedtsk, ctxtsk, stack, frame, env>>
    BY <1>2 DEF interrupt, readyvars
  <2>2. nest' = <<kept>> \o nest
    <3>1. nest \in Seq(SUBSET Signal)
      BY DEF IInv, TypeOK
    <3>2. idle => <<SIGMASK_LOC>> = <<SIGMASK_LOC>> \o nest
      BY <3>1
    <3> QED BY <1>2, <3>2 DEF interrupt
  <2>3. nest \in Seq(SUBSET Signal) /\ kept \in SUBSET Signal
    BY DEF IInv, TypeOK, SIGMASK_LOC
  <2>4. /\ nest' \in Seq(SUBSET Signal) /\ nest' # <<>>
        /\ nest'[Len(nest')] = IF nest = <<>> THEN kept ELSE nest[Len(nest)]
        /\ \A k \in 1 .. Len(nest') - 1 :
             \/ nest'[k] = kept /\ nest # <<>>
             \/ k - 1 \in 1 .. Len(nest) - 1 /\ nest'[k] = nest[k - 1]
    <3> HIDE DEF kept
    <3> QED BY <2>2, <2>3, PushKeepsBase
  <2>5. TypeOK'
    BY <2>1, <2>4 DEF IInv, TypeOK, Place, Signal, SIGMASK_INDP
  <2>6. HandlersMasked'
    <3>1. Masked(mask')
      BY <2>1 DEF Masked, SIGMASK_INDP
    <3>2. nest # <<>> => kept = mask
      OBVIOUS
    <3>3. \A k \in 1 .. Len(nest') - 1 : Masked(nest'[k])
      <4> HIDE DEF kept
      <4> QED BY <2>4, <3>2 DEF IInv, HandlersMasked
    <3> QED BY <3>1, <3>3 DEF HandlersMasked, Masked
  <2>7. BaseMask'
    <3>1. place # "startup" /\ (place = "idle" => idle)
      BY <2>1 DEF IInv, BaseMask, Base, SIGMASK_LOC, Signal
    <3>2. Base' = IF idle THEN SIGMASK_LOC ELSE Base
      BY <2>4 DEF Base
    <3> HIDE DEF kept
    <3> QED BY <2>1, <3>1, <3>2 DEF IInv, BaseMask
  <2>8. Unmasked' /\ StartsAlone' /\ RunsAsItself' /\ NeededDispatchPending'
    <3> HIDE DEF kept
    <3> QED BY <2>1 DEF IInv, Unmasked, StartsAlone, RunsAsItself, NeededDispatchPending
  <2> QED BY <2>5, <2>6, <2>7, <2>8 DEF IInv
<1>3. CASE interrupt_return
  <2>1. /\ nest # <<>> /\ nest \in Seq(SUBSET Signal) /\ mask' = Head(nest) /\ nest' = Tail(nest)
        /\ UNCHANGED <<ready, schedtsk, ctxtsk, pending, place, stack, frame, env>>
    BY <1>3 DEF interrupt_return, handler_runs, readyvars, flowvars, IInv, TypeOK
  <2>2. /\ Head(nest) \in SUBSET Signal /\ Tail(nest) \in Seq(SUBSET Signal)
        /\ Head(nest) = nest[1]
        /\ nest[Len(nest)] = IF Tail(nest) = <<>> THEN Head(nest) ELSE Tail(nest)[Len(Tail(nest))]
        /\ Tail(nest) # <<>> => 1 \in 1 .. Len(nest) - 1
        /\ \A k \in 1 .. Len(Tail(nest)) - 1 :
             k + 1 \in 1 .. Len(nest) - 1 /\ Tail(nest)[k] = nest[k + 1]
    BY <2>1, PopKeepsBase
  <2>3. TypeOK'
    BY <2>1, <2>2 DEF IInv, TypeOK
  <2>4. HandlersMasked'
    BY <2>1, <2>2 DEF IInv, HandlersMasked
  <2>5. BaseMask'
    <3>1. Base' = Base
      BY <2>1, <2>2 DEF Base
    <3>2. place \notin {"startup", "idle"}
      BY <2>1 DEF IInv, BaseMask
    <3> QED BY <2>1, <3>1, <3>2 DEF IInv, BaseMask
  <2>6. Unmasked' /\ StartsAlone' /\ RunsAsItself' /\ NeededDispatchPending'
    BY <2>1 DEF IInv, Unmasked, StartsAlone, RunsAsItself, NeededDispatchPending
  <2> QED BY <2>3, <2>4, <2>5, <2>6 DEF IInv
<1> QED BY <1>1, <1>2, <1>3

(* The dispatcher itself.                                                  *)
LEMMA DispatcherStep ==
  ASSUME IInv, Dispatcher
  PROVE  IInv'
<1> USE DispatcherAssumption
<1>1. nest = <<>> /\ nest' = <<>> /\ Base = mask /\ Base' = mask' /\ HandlersMasked'
  BY DEF Dispatcher, dispatch_handler, save_context, lock, switch, handler_returns, task_start,
         runs, sigvars, Base, HandlersMasked
<1>2. TypeOK'
  <2>1. \A t \in Task : env[t].at \in Place /\ env[t].mask \subseteq Signal
    BY DEF IInv, TypeOK, Place
  <2>2. Stopped(frame) \in [at : {"start", "return"}, mask : SUBSET Signal]
    BY DEF Stopped, IInv, TypeOK
  <2>3. CASE switch
    BY <2>1, <2>3 DEF switch, IInv, TypeOK, Place, Signal, SIGMASK_DDSP, readyvars, sigvars
  <2>4. CASE dispatch_handler \/ save_context \/ lock \/ handler_returns \/ task_start
    BY <2>2, <2>4 DEF dispatch_handler, save_context, lock, handler_returns, task_start, IInv, TypeOK,
       Place, Signal, SIGMASK_LOC, SIGMASK_TASK, readyvars, sigvars, runs
  <2> QED BY <2>3, <2>4 DEF Dispatcher
<1>3. BaseMask' /\ Unmasked'
  <2>1. CASE dispatch_handler
    BY <1>1, <2>1 DEF dispatch_handler, IInv, BaseMask, Unmasked
  <2>2. CASE save_context
    <3>1. env' = env \/ env' = [env EXCEPT ![ctxtsk] = Stopped(frame)]
      BY <2>2 DEF save_context
    <3>2. Stopped(frame).mask = SIGMASK_TASK
      BY <2>2 DEF save_context, runs, Stopped, IInv, Unmasked
    <3>3. \A t \in Task : env'[t].mask = SIGMASK_TASK
      BY <3>1, <3>2 DEF IInv, TypeOK, Unmasked
    <3> QED BY <1>1, <2>2, <3>3 DEF save_context, runs, sigvars, IInv, BaseMask, Unmasked
  <2>3. CASE lock
    BY <1>1, <2>3 DEF lock, runs, IInv, BaseMask, Unmasked
  <2>4. CASE switch
    <3>1. schedtsk \in Task => env[schedtsk].at \in {"start", "return"} /\ env[schedtsk].mask = SIGMASK_TASK
      BY DEF IInv, TypeOK, Unmasked
    <3>2. schedtsk # NULL => schedtsk \in Task
      BY DEF IInv, TypeOK
    <3>3. mask = SIGMASK_LOC
      BY <1>1, <2>4 DEF switch, runs, IInv, BaseMask
    <3> QED BY <1>1, <2>4, <3>1, <3>2, <3>3 DEF switch, IInv, BaseMask, Unmasked, SIGMASK_DDSP,
               SIGMASK_LOC, Signal
  <2>5. CASE handler_returns
    BY <1>1, <2>5 DEF handler_returns, runs, IInv, BaseMask, Unmasked
  <2>6. CASE task_start
    BY <1>1, <2>6 DEF task_start, runs, IInv, BaseMask, Unmasked
  <2> QED BY <2>1, <2>2, <2>3, <2>4, <2>5, <2>6 DEF Dispatcher
<1>4. StartsAlone' /\ RunsAsItself'
  <2>1. CASE switch
    <3>1. schedtsk # NULL => schedtsk \in Task /\ env[schedtsk].at \in {"start", "return"}
      BY DEF IInv, TypeOK
    <3> QED BY <2>1, <3>1 DEF switch, StartsAlone, RunsAsItself
  <2>2. CASE dispatch_handler \/ save_context \/ lock \/ handler_returns \/ task_start
    BY <2>2 DEF dispatch_handler, save_context, lock, handler_returns, task_start, runs, IInv,
       StartsAlone, RunsAsItself, readyvars
  <2> QED BY <2>1, <2>2 DEF Dispatcher
<1>5. NeededDispatchPending'
  BY DEF Dispatcher, dispatch_handler, save_context, lock, switch, handler_returns, task_start, runs,
         readyvars, IInv, NeededDispatchPending
<1> QED BY <1>1, <1>2, <1>3, <1>4, <1>5 DEF IInv

LEMMA NextInv ==
  ASSUME HandlersObey, IInv, [Next]_vars
  PROVE  IInv'
<1>1. CASE Next
  <2>1. ASSUME NEW t \in Task, main(t) \/ kernel_call(t) \/ handler_call(t) PROVE IInv'
    BY <2>1, CallStep, LeaveStep
  <2>2. CASE wait_call \/ ext_tsk
    <3>1. \E t \in Task : TRUE
      BY <2>2 DEF wait_call, ext_tsk, task_runs, runs, IInv, RunsAsItself, TypeOK
    <3> QED BY <2>2, <3>1, CallStep, LeaveStep
  <2>3. CASE dis_dsp \/ ena_dsp \/ loc_cpu \/ unl_cpu
    <3>1. {} \in SUBSET Signal
      OBVIOUS
    <3> QED BY <2>3, <3>1, MaskStep
  <2>4. ASSUME NEW m \in SUBSET Signal, chg_ims(m) PROVE IInv'
    BY <2>4, MaskStep
  <2>5. ASSUME NEW i \in Irq, raise(i) \/ interrupt(i) PROVE IInv'
    BY <2>5, InterruptStep
  <2>6. CASE interrupt_return
    <3>1. PICK i \in Irq : TRUE
      BY <2>6 DEF interrupt_return, handler_runs, IInv, HandlersMasked, Masked
    <3> QED BY <2>6, <3>1, InterruptStep
  <2>7. CASE Dispatcher
    BY <2>7, DispatcherStep
  <2> QED BY <1>1, <2>1, <2>2, <2>3, <2>4, <2>5, <2>6, <2>7 DEF Next
<1>2. CASE UNCHANGED vars
  <2>1. UNCHANGED <<ready, schedtsk, ctxtsk, mask, pending, nest, place, stack, frame, env>>
    BY <1>2 DEF vars
  <2> QED BY <2>1 DEF IInv, TypeOK, HandlersMasked, Masked, BaseMask, Base, Unmasked, StartsAlone,
                      RunsAsItself, NeededDispatchPending
<1> QED BY <1>1, <1>2

-----------------------------------------------------------------------------
(* The theorems                                                            *)

(* The invariant holds, as long as no handler unmasks all interrupts.      *)
THEOREM InductiveInvariant ==
  ASSUME HandlersObey
  PROVE  Spec => []IInv
<1>1. IInv /\ [Next]_vars => IInv'
  BY NextInv
<1> QED BY InitInv, <1>1, PTL DEF Spec

(* The variables stay in their types: among others, schedtsk is always a   *)
(* ready task, or none.                                                    *)
THEOREM TypeCorrect ==
  ASSUME HandlersObey
  PROVE  Spec => []TypeOK
<1>1. IInv => TypeOK
  BY DEF IInv
<1> QED BY <1>1, InductiveInvariant, PTL

(* No dispatch that is needed is lost, for any number of tasks and         *)
(* interrupts.                                                             *)
THEOREM DispatchNotLost ==
  ASSUME HandlersObey
  PROVE  Spec => []NeededDispatchPending
<1>1. IInv => NeededDispatchPending
  BY DEF IInv
<1> QED BY <1>1, InductiveInvariant, PTL

(* Code of a task, and every handler on top of it, finds its own task in   *)
(* ctxtsk.                                                                 *)
THEOREM TaskRunsAsItself ==
  ASSUME HandlersObey
  PROVE  Spec => []RunsAsItself
<1>1. IInv => RunsAsItself
  BY DEF IInv
<1> QED BY <1>1, InductiveInvariant, PTL

(* The dispatcher never jumps out of a handler of an interrupt, however    *)
(* deep handlers lie on each other.                                        *)
THEOREM NoDispatchInHandlers ==
  ASSUME HandlersObey
  PROVE  Spec => []HandlersUndispatched
<1>1. IInv => HandlersUndispatched
  BY DEF IInv, HandlersMasked, Masked, HandlersUndispatched
<1> QED BY <1>1, InductiveInvariant, PTL

(* Only tasks with all signals unmasked lose the processor.                *)
THEOREM StoppedUnmasked ==
  ASSUME HandlersObey
  PROVE  Spec => []StoppedWithNothingMasked
<1>1. IInv => StoppedWithNothingMasked
  BY DEF IInv, TypeOK, Unmasked, StoppedWithNothingMasked
<1> QED BY <1>1, InductiveInvariant, PTL

(* A task begins and goes on with all signals unmasked.                    *)
THEOREM TasksGoOnUnmasked ==
  ASSUME HandlersObey
  PROVE  Spec => GoesOnUnmasked
<1>1. ASSUME IInv, Next, place # "task", place' = "task" PROVE mask' = SIGMASK_TASK
  <2>1. handler_returns \/ task_start
    <3>1. \A t \in Task : env[t].at # "task"
      BY <1>1 DEF IInv, TypeOK
    <3>2. schedtsk # NULL => schedtsk \in Task
      BY <1>1 DEF IInv, TypeOK
    <3> QED BY <1>1, <3>1, <3>2 DEF Next, Dispatcher, main, kernel_call, handler_call, wait_call, ext_tsk,
               dis_dsp, ena_dsp, loc_cpu, unl_cpu, chg_ims, set_mask, raise, interrupt, interrupt_return,
               dispatch_handler, save_context, lock, switch, flowvars
  <2> QED BY <1>1, <2>1 DEF handler_returns, task_start, runs, IInv, Unmasked
<1>2. IInv /\ [Next]_vars => [place # "task" /\ place' = "task" => mask' = SIGMASK_TASK]_vars
  BY <1>1
<1> QED BY <1>2, InductiveInvariant, PTL DEF Spec, GoesOnUnmasked
=============================================================================
