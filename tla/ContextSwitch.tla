--------------------------- MODULE ContextSwitch ---------------------------
(***************************************************************************)
(* Where a thread resumes.  A thread has two saved contexts: ctx, written    *)
(* and read by ctx_switch (context_switch.S) on the cooperative paths, and   *)
(* irq_sp, the trap frame that sched_irq_exit saves and kernel_irq_entry     *)
(* restores.  The scheduler of Sched is extended with which of the two       *)
(* describe the point where the thread really stopped.                       *)
(***************************************************************************)
EXTENDS Sched

VARIABLES
  saved,       \* contexts of each thread that hold the point where it stopped
  misresumed   \* threads that were resumed from a context that does not

ctxVars == <<saved, misresumed>>

Contexts == {"ctx", "irq_sp"}

(* A new thread gets both contexts, each leading to its entry point.  The     *)
(* bootstrap thread has neither: its irq_sp is 0.                             *)
CtxInit ==
  /\ Init
  /\ saved = [t \in AnyThread |-> {}]
  /\ misresumed = {}

(* prev stops and leaves its point in the contexts kept; next continues from  *)
(* the context via, and from then on neither of its contexts is current.      *)
SwitchContexts(prev, kept, next, via) ==
  IF next = prev THEN UNCHANGED ctxVars
  ELSE /\ misresumed' = IF via \in saved[next] THEN misresumed
                                               ELSE misresumed \cup {next}
       /\ saved' = [saved EXCEPT ![prev] = kept, ![next] = {}]

thread_build_contexts(t) ==
  /\ thread_create_named(t)
  /\ saved' = [saved EXCEPT ![t] = Contexts]
  /\ UNCHANGED misresumed

(* Mutant: the registers of the old thread are not stored. *)
ctx_switch_no_save == SwitchContexts(s_current, {}, s_current', "ctx")

ctx_switch == SwitchContexts(s_current, {"ctx"}, s_current', "ctx")

CoopSwitch ==
  /\ yield \/ sched_block_current
  /\ ctx_switch

(* irq_sp is saved only for a running thread that is not the bootstrap one. *)
IrqFrames ==
  SwitchContexts(s_current, IF Requeues(s_current) THEN {"irq_sp"} ELSE {},
                 s_current', "irq_sp")

kernel_irq_entry ==
  /\ (\E over \in BOOLEAN : TimerIrq(over)) \/ OtherIrq
  /\ IrqFrames

(* Operations that switch no thread. *)
NoSwitch ==
  /\ \/ \E t \in Thread : \/ sched_enqueue(t)
                          \/ sched_wake(t)
                          \/ \E raw \in RawIntents : sched_set_thread_intent(t, raw)
     \/ thread_exit
     \/ preempt_disable
     \/ preempt_enable
  /\ UNCHANGED ctxVars

CtxNext ==
  \/ \E t \in Thread : thread_build_contexts(t)
  \/ CoopSwitch
  \/ kernel_irq_entry
  \/ NoSwitch

CtxSpec == CtxInit /\ [][CtxNext]_<<vars, ctxVars>>

-----------------------------------------------------------------------------
(* saved and misresumed have their types, beside those of Sched. *)
CtxTypeOK ==
  /\ TypeOK
  /\ saved \in [AnyThread -> SUBSET Contexts]
  /\ misresumed \subseteq AnyThread

(* A thread that is switched in continues where it stopped: the context that  *)
(* ctx_switch or the IRQ return restores is the one its last switch-out       *)
(* saved.  ("The IRQ return path can later resume the thread by setting SP    *)
(* to irq_sp", thread.h.)                                                     *)
ResumesWhereItStopped == misresumed = {}
=============================================================================
