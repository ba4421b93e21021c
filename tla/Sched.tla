------------------------------- MODULE Sched -------------------------------
(***************************************************************************)
(* The single-CPU, intent-aware scheduler: Kern/Kernel/sched/sched.c,       *)
(* preempt.c and the thread life cycle of thread.c.  Every scheduler entry  *)
(* point runs with IRQs masked (irq_save), so each is one atomic action.    *)
(* The running thread may call any entry point; a timer or another IRQ may  *)
(* arrive between any two calls.                                            *)
(*                                                                          *)
(* Data left out: statistics, tids, names, stacks.  The slice counters are  *)
(* kept for the running thread only: sched_prepare_running_locked rewrites  *)
(* them whenever a thread is switched in, so nobody reads the others.       *)
(***************************************************************************)
EXTENDS ReadyQueues

CONSTANTS Thread,      \* threads that thread_create_named may create
          Boot,        \* the bootstrap pseudo-thread
          RawIntents,  \* intents callers pass, out-of-range ones included
          MaxPreempt,  \* bound on the nesting of preempt_disable
          Preemptive   \* CONFIG_PREEMPT without CONFIG_SCHED_COOPERATIVE

ASSUME SchedAssumption ==
  /\ Boot \notin Thread
  /\ RawIntents \subseteq Nat
  /\ MaxPreempt \in Nat
  /\ Preemptive \in BOOLEAN

VARIABLES
  s_current,      \* the running thread
  state,          \* thread_state_t, "NONE" before creation
  sched_intent,   \* scheduling class of each thread
  ready,          \* the ready queues
  s_pick_cursor,  \* next slot of the service pattern
  need_resched,   \* set by the tick, consumed at IRQ exit or by yield
  preempt_count,  \* preemption-disable depth
  slice_budget,   \* slice of s_current, in ticks
  slice_used,     \* ticks of it already used, saturating at the budget
  exiting,        \* threads inside the loop of thread_exit
  admitted,       \* threads handed to the scheduler with sched_enqueue
  panicked        \* a SCHED_ASSERT or panic() of the scheduler has fired

vars == <<s_current, state, sched_intent, ready, s_pick_cursor, need_resched,
          preempt_count, slice_budget, slice_used, exiting, admitted, panicked>>

AnyThread == Thread \cup {Boot}
Created   == {t \in Thread : state[t] # "NONE"}

ThreadState == {"NONE", "READY", "RUNNING", "BLOCKED", "DEAD"}

Init ==
  /\ s_current = Boot
  /\ state = [t \in AnyThread |-> IF t = Boot THEN "RUNNING" ELSE "NONE"]
  /\ sched_intent = [t \in AnyThread |-> INTERACTIVE]
  /\ ready = EmptyQueues
  /\ s_pick_cursor = 0
  /\ need_resched = FALSE
  /\ preempt_count = 0
  /\ slice_budget = 0
  /\ slice_used = 0
  /\ exiting = {}
  /\ admitted = {}
  /\ panicked = FALSE

-----------------------------------------------------------------------------
(* A thread that has called thread_exit does nothing but yield. *)
MayCall == s_current \notin exiting

(* rq_insert_tail_locked panics on a queued thread. *)
InsertPanics(rq, t) == Queued(rq, t)

thread_create_named(t) ==
  /\ MayCall
  /\ state[t] = "NONE"
  /\ state' = [state EXCEPT ![t] = "READY"]
  /\ sched_intent' = [sched_intent EXCEPT ![t] = INTERACTIVE]
  /\ UNCHANGED <<s_current, ready, s_pick_cursor, need_resched, preempt_count,
                 slice_budget, slice_used, exiting, admitted, panicked>>

(* Callers hand over a thread that is neither running nor queued; a dead    *)
(* one is ignored.                                                          *)
sched_enqueue(t) ==
  /\ MayCall
  /\ t \in Created \ {s_current}
  /\ ~Queued(ready, t)
  /\ state[t] # "DEAD"
  /\ state' = [state EXCEPT ![t] = "READY"]
  /\ ready' = rq_insert_tail(ready, sched_intent[t], t)
  /\ admitted' = admitted \cup {t}
  /\ panicked' = InsertPanics(ready, t)
  /\ UNCHANGED <<s_current, sched_intent, s_pick_cursor, need_resched,
                 preempt_count, slice_budget, slice_used, exiting>>

sched_wake(t) ==
  /\ MayCall
  /\ state[t] = "BLOCKED"
  /\ state' = [state EXCEPT ![t] = "READY"]
  /\ ready' = rq_insert_tail(ready, sched_intent[t], t)
  /\ panicked' = InsertPanics(ready, t)
  /\ UNCHANGED <<s_current, sched_intent, s_pick_cursor, need_resched,
                 preempt_count, slice_budget, slice_used, exiting, admitted>>

(* Mutant: the class changes, the queue does not. *)
set_intent_in_place(t, raw) ==
  /\ MayCall
  /\ t \in Created
  /\ sched_intent' = [sched_intent EXCEPT ![t] = sched_intent_sanitize(raw)]
  /\ UNCHANGED <<s_current, state, ready, s_pick_cursor, need_resched, panicked,
                 preempt_count, slice_budget, slice_used, exiting, admitted>>

(* Mutant: was_ready is computed after the removal, so nothing is reinserted. *)
set_intent_drops(t, raw) ==
  /\ MayCall
  /\ t \in Created
  /\ sched_intent' = [sched_intent EXCEPT ![t] = sched_intent_sanitize(raw)]
  /\ ready' = rq_remove(ready, t)
  /\ UNCHANGED <<s_current, state, s_pick_cursor, need_resched, panicked,
                 preempt_count, slice_budget, slice_used, exiting, admitted>>

(* A queued thread moves to the tail of its new class. *)
sched_set_thread_intent(t, raw) ==
  LET i         == sched_intent_sanitize(raw)
      was_ready == state[t] = "READY" /\ Queued(ready, t)
      removed   == rq_remove(ready, t)
  IN  /\ MayCall
      /\ t \in Created
      /\ sched_intent[t] # i
      /\ sched_intent' = [sched_intent EXCEPT ![t] = i]
      /\ ready' = IF was_ready THEN rq_insert_tail(removed, i, t) ELSE ready
      /\ panicked' = (was_ready /\ InsertPanics(removed, t))
      /\ UNCHANGED <<s_current, state, s_pick_cursor, need_resched,
                     preempt_count, slice_budget, slice_used, exiting, admitted>>

-----------------------------------------------------------------------------
(* Switching: requeue the running thread, pick the next, start its slice.   *)

(* Mutants: a switched-out thread is not requeued; the bootstrap thread is. *)
requeue_none(t) == FALSE
requeue_bootstrap(t) == state[t] = "RUNNING"

(* The bootstrap thread is never queued; a dead or blocked one is not        *)
(* runnable.                                                                *)
Requeues(t) == t # Boot /\ state[t] = "RUNNING"

(* Mutant: the new slice starts with the ticks of the old one. *)
prepare_keeps_used(t, st, intents) ==
  /\ state' = [st EXCEPT ![t] = "RUNNING"]
  /\ slice_budget' = sched_slice_for_intent(intents[t])
  /\ UNCHANGED slice_used

(* sched_prepare_running_locked on t, from thread states st. *)
sched_prepare_running(t, st, intents) ==
  /\ state' = [st EXCEPT ![t] = "RUNNING"]
  /\ slice_budget' = sched_slice_for_intent(intents[t])
  /\ slice_used' = 0

(* Pick from the queues rq and make the result the running thread. *)
SwitchTo(rq, st, intents) ==
  LET pick == PickNext(rq, s_pick_cursor, s_current)
  IN  /\ ready' = pick.ready
      /\ s_pick_cursor' = pick.cursor
      /\ s_current' = pick.next
      /\ sched_prepare_running(pick.next, st, intents)

(* The common body of yield and of a preempting sched_irq_exit. *)
Reschedule(intents) ==
  LET again == Requeues(s_current)
      rq    == IF again THEN rq_insert_tail(ready, intents[s_current], s_current)
                        ELSE ready
      st    == IF again THEN [state EXCEPT ![s_current] = "READY"] ELSE state
  IN  /\ SwitchTo(rq, st, intents)
      /\ need_resched' = FALSE

yield ==
  /\ Reschedule(sched_intent)
  /\ panicked' = Queued(ready, s_current)  \* "current unexpectedly enqueued"
  /\ UNCHANGED <<sched_intent, preempt_count, exiting, admitted>>

(* With nothing else ready the caller keeps running: it is not blocked.      *)
sched_block_current ==
  /\ MayCall
  /\ s_current # Boot
  /\ ~AllEmpty(ready)
  /\ SwitchTo(ready, [state EXCEPT ![s_current] = "BLOCKED"], sched_intent)
  /\ panicked' = Queued(ready, s_current)
  /\ UNCHANGED <<sched_intent, need_resched, preempt_count, exiting, admitted>>

(* thread_exit marks the thread dead with IRQs enabled and then loops on     *)
(* yield, which is the yield action of an exiting thread.                    *)
thread_exit ==
  /\ MayCall
  /\ s_current # Boot
  /\ state' = [state EXCEPT ![s_current] = "DEAD"]
  /\ exiting' = exiting \cup {s_current}
  /\ UNCHANGED <<s_current, sched_intent, ready, s_pick_cursor, need_resched,
                 preempt_count, slice_budget, slice_used, admitted, panicked>>

preempt_disable ==
  /\ MayCall
  /\ preempt_count < MaxPreempt
  /\ preempt_count' = preempt_count + 1
  /\ UNCHANGED <<s_current, state, sched_intent, ready, s_pick_cursor,
                 need_resched, slice_budget, slice_used, exiting, admitted, panicked>>

preempt_enable ==
  /\ MayCall
  /\ preempt_count > 0
  /\ preempt_count' = preempt_count - 1
  /\ UNCHANGED <<s_current, state, sched_intent, ready, s_pick_cursor,
                 need_resched, slice_budget, slice_used, exiting, admitted, panicked>>

-----------------------------------------------------------------------------
(* Interrupts: kernel_irq_entry runs the handler and then sched_irq_exit.    *)

(* Mutant: need_resched is cleared before preemptible() is asked. *)
irq_exit_clears_first(need, used, intents) ==
  /\ \/ /\ Preemptive /\ need /\ preempt_count = 0
        /\ Reschedule(intents)
     \/ /\ ~(Preemptive /\ need /\ preempt_count = 0)
        /\ need_resched' = FALSE
        /\ slice_used' = used
        /\ UNCHANGED <<s_current, state, ready, s_pick_cursor, slice_budget>>
  /\ panicked' = Queued(ready, s_current)
  /\ sched_intent' = intents
  /\ UNCHANGED <<preempt_count, exiting, admitted>>

(* sched_irq_exit asserts that the next thread has an irq_sp; the bootstrap  *)
(* thread's is 0.                                                            *)
sched_irq_exit(need, used, intents) ==
  /\ \/ /\ Preemptive /\ need /\ preempt_count = 0
        /\ Reschedule(intents)
     \/ /\ ~(Preemptive /\ need /\ preempt_count = 0)
        /\ need_resched' = need
        /\ slice_used' = used
        /\ UNCHANGED <<s_current, state, ready, s_pick_cursor, slice_budget>>
  /\ panicked' = (Queued(ready, s_current) \/ (s_current' = Boot /\ s_current # Boot))
  /\ sched_intent' = intents
  /\ UNCHANGED <<preempt_count, exiting, admitted>>

(* sched_on_timer_tick, then the IRQ exit.  over: the task that owns the     *)
(* running thread is past its CPU ceiling, which demotes the thread.         *)
TimerIrq(over) ==
  LET demoted == Preemptive /\ over /\ s_current # Boot
      intents == IF demoted THEN [sched_intent EXCEPT ![s_current] = BACKGROUND]
                            ELSE sched_intent
      used    == IF Preemptive /\ slice_used < slice_budget
                 THEN slice_used + 1 ELSE slice_used
      expired == Preemptive /\ used >= slice_budget
  IN  sched_irq_exit(need_resched \/ demoted \/ expired, used, intents)

(* Any other interrupt, spurious ones included: only the exit path matters. *)
OtherIrq == sched_irq_exit(need_resched, slice_used, sched_intent)

-----------------------------------------------------------------------------
Next ==
  \/ \E t \in Thread : \/ thread_create_named(t)
                       \/ sched_enqueue(t)
                       \/ sched_wake(t)
                       \/ \E raw \in RawIntents : sched_set_thread_intent(t, raw)
  \/ yield
  \/ sched_block_current
  \/ thread_exit
  \/ preempt_disable
  \/ preempt_enable
  \/ \E over \in BOOLEAN : TimerIrq(over)
  \/ OtherIrq

Spec == Init /\ [][Next]_vars

(* The timer is re-armed by every one of its interrupts (event_handle_irq),  *)
(* so it keeps firing; nothing is assumed of the threads.  TimerIrq has no    *)
(* guard, so its weak fairness is that it happens again and again (stated     *)
(* without ENABLED; nothing in the tree disables preemption, and with         *)
(* MaxPreempt = 0 some tick always changes the state).                        *)
FairSpec == Spec /\ []<><<\E over \in BOOLEAN : TimerIrq(over)>>_vars

-----------------------------------------------------------------------------
(* Every variable has the type its declaration in sched.c, thread.h and      *)
(* preempt.h gives it.                                                       *)
TypeOK ==
  /\ s_current \in AnyThread
  /\ state \in [AnyThread -> ThreadState]
  /\ sched_intent \in [AnyThread -> Intent]
  /\ ready \in [Intent -> Seq(AnyThread)]
  /\ s_pick_cursor \in 0..(PatternLen - 1)
  /\ need_resched \in BOOLEAN
  /\ preempt_count \in 0..MaxPreempt
  /\ slice_budget \in Nat
  /\ slice_used \in 0..slice_budget
  /\ exiting \subseteq Thread
  /\ admitted \subseteq Thread
  /\ panicked \in BOOLEAN

(* The ready queues are exact: a thread is queued at most once, only while   *)
(* it is READY, in the queue of its own intent, and the running thread is    *)
(* never queued - whatever order yields, wakes, demotions and IRQ exits      *)
(* come in.                                                                  *)
QueuesExact ==
  \A i \in Intent :
    /\ IsInjective(ready[i])
    /\ \A t \in Range(ready[i]) :
         /\ t \in Created
         /\ t # s_current
         /\ state[t] = "READY"
         /\ sched_intent[t] = i

(* No runnable thread is lost: a thread once handed to sched_enqueue that is *)
(* READY can be found in the queue of its intent, where the pick will see it.*)
NoThreadLost ==
  \A t \in admitted : state[t] = "READY" => t \in Range(ready[sched_intent[t]])

(* One CPU: among the created threads only the current one is RUNNING, and   *)
(* what runs is never a blocked or a merely ready thread.                    *)
OneRunning ==
  /\ state[s_current] \in {"RUNNING", "DEAD"}
  /\ \A t \in Thread : state[t] = "RUNNING" => t = s_current

(* No sequence of legal calls and interrupts reaches a panic of the          *)
(* scheduler ("enqueue of already-queued thread", "current unexpectedly      *)
(* enqueued").                                                               *)
NoPanic == ~panicked

(* A slice that has run out is never forgotten: a reschedule stays pending   *)
(* until the thread is given a new slice, also across sections that disable  *)
(* preemption and across a block that finds no other thread.                 *)
ExpiryPending ==
  slice_budget # 0 /\ slice_used >= slice_budget => need_resched

(* Threads ahead of t in the sequence s, and in the queue i. *)
AheadIn(s, t) == {s[k] : k \in {k \in DOMAIN s : \E m \in DOMAIN s : k < m /\ s[m] = t}}
Ahead(t, i) == AheadIn(ready[i], t)

(* FIFO inside a class: while a thread waits in a queue, no thread gets in   *)
(* front of it - not by yielding, waking, being preempted or changing class. *)
NoOvertaking ==
  [][\A i \in Intent : \A t \in Range(ready[i]) \cap Range(ready'[i]) :
       Ahead(t, i)' \subseteq Ahead(t, i)]_vars

(* No thread waits forever: it leaves the queue of its class, to run or      *)
(* because another thread moved it to a new class, however busy the other    *)
(* classes are and even if no thread ever yields.                            *)
NoStarvation ==
  \A t \in Thread : \A i \in Intent :
    t \in Range(ready[i]) ~> t \notin Range(ready[i])

(* A thread that has called thread_exit is dead ("mark dead and yield to      *)
(* another runnable thread"), so that it is never queued again.               *)
ExitedIsDead == \A t \in exiting : state[t] = "DEAD"
=============================================================================
