---------------------------- MODULE SchedProofs ----------------------------
(***************************************************************************)
(* The scheduler's safety for any set of threads, any intents passed by       *)
(* callers, any depth of preempt_disable and both build configurations.       *)
(*                                                                            *)
(* QueuesExact is not inductive alone.  That waking, yielding and re-queueing *)
(* insert only threads that are in no queue needs OneRunning (the running     *)
(* thread is not READY); that a switch leaves nobody behind needs             *)
(* NoThreadLost; and NoThreadLost needs that only created threads are         *)
(* admitted.  IInv is their conjunction.                                      *)
(***************************************************************************)
EXTENDS ContextSwitch, QueueLemmas

IInv ==
  /\ TypeOK
  /\ QueuesExact
  /\ NoThreadLost
  /\ OneRunning
  /\ NoPanic
  /\ ExpiryPending
  /\ admitted \subseteq Created

(* rq holds only threads that st says are READY, in the queues of their       *)
(* intents, each once; and it holds every READY thread of adm.                *)
Holds(rq, st, intents, adm) ==
  /\ rq \in Queues(AnyThread)
  /\ \A i \in Intent : IsInjective(rq[i])
  /\ \A i \in Intent : \A t \in Range(rq[i]) :
       t \in Thread /\ st[t] = "READY" /\ intents[t] = i
  /\ \A t \in adm : st[t] = "READY" => t \in Range(rq[intents[t]])

-----------------------------------------------------------------------------
(* The initial state satisfies the invariant. *)
LEMMA InitIInv == Init => IInv
<1> SUFFICES ASSUME Init PROVE IInv
  OBVIOUS
<1>1. TypeOK
  <2>1. s_current \in AnyThread /\ state \in [AnyThread -> ThreadState]
    BY DEF Init, AnyThread, ThreadState
  <2>2. sched_intent \in [AnyThread -> Intent]
    BY DEF Init, Intent, INTERACTIVE
  <2>3. ready \in [Intent -> Seq(AnyThread)]
    BY DEF Init, EmptyQueues
  <2>4. s_pick_cursor \in 0..(PatternLen - 1) /\ preempt_count \in 0..MaxPreempt
    BY SchedAssumption DEF Init, PatternLen
  <2>5. slice_budget \in Nat /\ slice_used \in 0..slice_budget
    BY DEF Init
  <2> QED
    BY <2>1, <2>2, <2>3, <2>4, <2>5, Zenon DEF Init, TypeOK
<1>2. \A i \in Intent : ready[i] = <<>>
  BY DEF Init, EmptyQueues
<1>3. QueuesExact
  BY <1>2 DEF QueuesExact, IsInjective, Range
<1> QED
  BY <1>1, <1>3, SchedAssumption
     DEF Init, IInv, NoThreadLost, OneRunning, NoPanic, ExpiryPending, AnyThread

(* The invariant says that the queues hold what the thread states say. *)
LEMMA IInvHolds == IInv => Holds(ready, state, sched_intent, admitted)
  BY DEF IInv, TypeOK, QueuesExact, NoThreadLost, Holds, Queues, Created

(* The outcome of a switch: queues and states agree, one created thread at    *)
(* most runs, it is in no queue, and it has a whole slice.                    *)
Switched(intents) ==
  /\ Holds(ready', state', intents, admitted)
  /\ \A i \in Intent : s_current' \notin Range(ready'[i])
  /\ s_current' \in Thread \cup {s_current}
  /\ state' \in [AnyThread -> ThreadState]
  /\ state'[s_current'] = "RUNNING"
  /\ \A t \in Thread : state'[t] = "RUNNING" => t = s_current'
  /\ s_pick_cursor' \in 0..(PatternLen - 1)
  /\ slice_budget' \in Nat \ {0}
  /\ slice_used' = 0
  /\ \A t \in Thread : state[t] # "NONE" => state'[t] # "NONE"

(* A switch from queues and states that agree, in which no created thread is  *)
(* marked running, leaves queues and states that agree with one running       *)
(* thread, which has a whole slice.                                           *)
LEMMA SwitchHolds ==
  ASSUME NEW rq, NEW st \in [AnyThread -> ThreadState],
         NEW intents \in [AnyThread -> Intent],
         TypeOK, Holds(rq, st, intents, admitted),
         \A t \in Thread : st[t] # "RUNNING",
         \A t \in Thread : state[t] # "NONE" => st[t] # "NONE",
         SwitchTo(rq, st, intents)
  PROVE  Switched(intents)
<1> DEFINE p == PickNext(rq, s_pick_cursor, s_current)
<1>1. /\ ready' = p.ready
      /\ s_pick_cursor' = p.cursor
      /\ s_current' = p.next
      /\ state' = [st EXCEPT ![s_current'] = "RUNNING"]
      /\ slice_budget' = sched_slice_for_intent(intents[s_current'])
      /\ slice_used' = 0
  BY DEF SwitchTo, sched_prepare_running
<1>2. /\ AllEmpty(rq) => p.next = s_current /\ p.ready = rq /\ p.cursor = s_pick_cursor
      /\ ~AllEmpty(rq) => \E i \in Intent : /\ rq[i] # <<>>
                                             /\ p.next = Head(rq[i])
                                             /\ p.ready = rq_pop_head(rq, i)
      /\ p.cursor \in 0..(PatternLen - 1)
  BY PickFromQueues, Zenon DEF TypeOK, Holds
<1> HIDE DEF p
<1>3. slice_budget' \in Nat \ {0}
  BY <1>1 DEF sched_slice_for_intent
<1>6. ASSUME s_current' \in Thread \cup {s_current}
      PROVE  /\ state' \in [AnyThread -> ThreadState]
             /\ state'[s_current'] = "RUNNING"
             /\ \A t \in Thread : state'[t] = "RUNNING" => t = s_current'
             /\ \A t \in Thread : state[t] # "NONE" => state'[t] # "NONE"
  BY <1>1, <1>6 DEF TypeOK, AnyThread, ThreadState
<1>4. CASE AllEmpty(rq)
  <2>1. ready' = rq /\ s_current' = s_current
    BY <1>1, <1>2, <1>4
  <2>2. \A i \in Intent : Range(rq[i]) = {}
    BY <1>4 DEF AllEmpty, Range
  <2>3. Holds(ready', state', intents, admitted)
    BY <1>1, <2>1, <2>2, SchedAssumption, ZenonT(30) DEF Holds, TypeOK, AnyThread
  <2> QED
    BY <1>1, <1>2, <1>3, <1>6, <2>1, <2>2, <2>3, Zenon DEF Switched
<1>5. CASE ~AllEmpty(rq)
  <2>1. PICK i \in Intent : /\ rq[i] # <<>>
                            /\ s_current' = Head(rq[i])
                            /\ ready' = rq_pop_head(rq, i)
    BY <1>1, <1>2, <1>5
  <2>2. /\ ready' \in Queues(AnyThread)
        /\ s_current' \in Range(rq[i])
        /\ \A j \in Intent : IsInjective(ready'[j])
        /\ Range(ready'[i]) = Range(rq[i]) \ {s_current'}
        /\ \A j \in Intent : j # i => ready'[j] = rq[j]
    <3>1. /\ i \in Intent
          /\ rq[i] # <<>>
          /\ rq \in Queues(AnyThread)
          /\ \A j \in Intent : IsInjective(rq[j])
          /\ ready' = rq_pop_head(rq, i)
          /\ s_current' = Head(rq[i])
      BY <2>1 DEF Holds
    <3>2. ready' \in Queues(AnyThread) /\ s_current' \in Range(rq[i])
      BY <3>1, PopMembers
    <3>3. \A j \in Intent : IsInjective(ready'[j])
      BY <3>1, PopMembers
    <3>4. Range(ready'[i]) = Range(rq[i]) \ {s_current'}
      BY <3>1, PopMembers
    <3>5. \A j \in Intent : j # i => ready'[j] = rq[j]
      BY <3>1, PopMembers
    <3> QED
      BY <3>2, <3>3, <3>4, <3>5
  <2>3. s_current' \in Thread /\ st[s_current'] = "READY" /\ intents[s_current'] = i
    BY <2>2 DEF Holds
  <2>4. \A j \in Intent : s_current' \notin Range(ready'[j])
    BY <2>2, <2>3 DEF Holds
  <2>5. Holds(ready', state', intents, admitted)
    <3>1. \A j \in Intent : \A t \in Range(ready'[j]) :
            t \in Thread /\ state'[t] = "READY" /\ intents[t] = j
      <4> SUFFICES ASSUME NEW j \in Intent, NEW t \in Range(ready'[j])
                   PROVE  t \in Thread /\ state'[t] = "READY" /\ intents[t] = j
        OBVIOUS
      <4>1. t \in Range(rq[j]) /\ t # s_current'
        BY <2>2, <2>4
      <4>2. t \in Thread /\ st[t] = "READY" /\ intents[t] = j
        BY <4>1 DEF Holds
      <4> QED
        BY <1>1, <4>1, <4>2 DEF AnyThread
    <3>2. \A t \in admitted : state'[t] = "READY" => t \in Range(ready'[intents[t]])
      <4> SUFFICES ASSUME NEW t \in admitted, state'[t] = "READY"
                   PROVE  t \in Range(ready'[intents[t]])
        OBVIOUS
      <4>1. t \in AnyThread /\ intents[t] \in Intent
        BY DEF TypeOK, AnyThread
      <4>2. t # s_current' /\ st[t] = "READY"
        BY <1>1, <4>1
      <4>3. t \in Range(rq[intents[t]])
        BY <4>2 DEF Holds
      <4> QED
        BY <2>2, <4>1, <4>2, <4>3
    <3> QED
      BY <2>2, <3>1, <3>2 DEF Holds
  <2> QED
    BY <1>1, <1>2, <1>3, <1>6, <2>3, <2>4, <2>5 DEF Switched
<1> QED
  BY <1>4, <1>5

(* Inserting a READY thread that is in no queue keeps queues and states in    *)
(* agreement.                                                                 *)
LEMMA InsertHolds ==
  ASSUME NEW rq, NEW st, NEW intents \in [AnyThread -> Intent],
         NEW others \in SUBSET Thread, NEW adm, NEW t \in Thread,
         Holds(rq, st, intents, others), adm \subseteq others \cup {t},
         ~Queued(rq, t), st[t] = "READY",
         NEW q, q = rq_insert_tail(rq, intents[t], t)
  PROVE  Holds(q, st, intents, adm)
<1>0. PICK i \in Intent : i = intents[t]
  BY DEF AnyThread
<1>1. /\ i \in Intent
      /\ t \in AnyThread
      /\ rq \in Queues(AnyThread)
      /\ \A j \in Intent : IsInjective(rq[j])
      /\ t \notin Range(rq[i])
      /\ q = rq_insert_tail(rq, i, t)
  BY <1>0 DEF Holds, Queued, AnyThread
<1>2. /\ q \in Queues(AnyThread)
      /\ \A j \in Intent : IsInjective(q[j])
      /\ Range(q[i]) = Range(rq[i]) \cup {t}
      /\ \A j \in Intent : j # i => q[j] = rq[j]
  BY ONLY <1>1, InsertMembers
<1>3. \A j \in Intent : \A u \in Range(q[j]) :
        u \in Thread /\ st[u] = "READY" /\ intents[u] = j
  <2> SUFFICES ASSUME NEW j \in Intent, NEW u \in Range(q[j])
               PROVE  u \in Thread /\ st[u] = "READY" /\ intents[u] = j
    OBVIOUS
  <2>1. CASE u \in Range(rq[j])
    BY <2>1 DEF Holds
  <2>2. CASE u \notin Range(rq[j])
    BY <1>0, <1>2, <2>2
  <2> QED
    BY <2>1, <2>2
<1>4. \A u \in adm : st[u] = "READY" => u \in Range(q[intents[u]])
  <2> SUFFICES ASSUME NEW u \in adm, st[u] = "READY" PROVE u \in Range(q[intents[u]])
    OBVIOUS
  <2>1. CASE u = t
    BY <1>0, <1>2, <2>1
  <2>2. CASE u # t
    <3>1. u \in Range(rq[intents[u]])
      BY <2>2 DEF Holds
    <3>2. CASE intents[u] = i
      BY <1>2, <3>1, <3>2
    <3>3. CASE intents[u] # i
      <4>1. intents[u] \in Intent => q[intents[u]] = rq[intents[u]]
        BY <1>2, <3>3
      <4> QED
        BY <2>2, <3>1, <4>1 DEF AnyThread
    <3> QED
      BY <3>2, <3>3
  <2> QED
    BY <2>1, <2>2
<1> QED
  BY <1>2, <1>3, <1>4 DEF Holds

(* An insertion adds nobody but the inserted thread. *)
LEMMA InsertAddsOne ==
  ASSUME NEW rq, NEW st, NEW intents, NEW others, Holds(rq, st, intents, others),
         NEW t \in Thread, ~Queued(rq, t), NEW i \in Intent,
         NEW q, q = rq_insert_tail(rq, i, t)
  PROVE  \A j \in Intent : Range(q[j]) \subseteq Range(rq[j]) \cup {t}
<1>1. /\ t \in AnyThread
      /\ rq \in Queues(AnyThread)
      /\ \A j \in Intent : IsInjective(rq[j])
      /\ t \notin Range(rq[i])
  BY DEF Holds, Queued, AnyThread
<1>2. Range(q[i]) = Range(rq[i]) \cup {t}
  BY <1>1, InsertMembers
<1>3. \A j \in Intent : j # i => q[j] = rq[j]
  BY <1>1, InsertMembers
<1> QED
  BY <1>2, <1>3

-----------------------------------------------------------------------------
(* A switch gives the invariant back when the rest of the state is in order.  *)
LEMMA SwitchedIInv ==
  ASSUME IInv, NEW intents \in [AnyThread -> Intent], Switched(intents),
         sched_intent' = intents, need_resched' \in BOOLEAN, panicked' = FALSE,
         UNCHANGED <<preempt_count, exiting, admitted>>
  PROVE  IInv'
<1>1. TypeOK'
  <2>1. TypeOK
    BY DEF IInv
  <2>2. s_current' \in AnyThread /\ state' \in [AnyThread -> ThreadState]
    BY <2>1 DEF TypeOK, Switched, AnyThread
  <2>3. ready' \in [Intent -> Seq(AnyThread)]
    BY DEF Switched, Holds, Queues
  <2>4. /\ s_pick_cursor' \in 0..(PatternLen - 1)
        /\ slice_budget' \in Nat
        /\ slice_used' \in 0..slice_budget'
    BY DEF Switched
  <2>5. preempt_count' \in 0..MaxPreempt /\ exiting' \subseteq Thread /\ admitted' \subseteq Thread
    BY <2>1 DEF TypeOK
  <2> QED
    BY <2>2, <2>3, <2>4, <2>5, Zenon DEF TypeOK
<1>2. QueuesExact' /\ NoThreadLost'
  BY DEF Switched, Holds, QueuesExact, NoThreadLost, Created
<1>3. OneRunning' /\ NoPanic' /\ ExpiryPending'
  BY DEF Switched, OneRunning, NoPanic, ExpiryPending
<1>4. (admitted \subseteq Created)'
  BY DEF IInv, TypeOK, Switched, Created
<1> QED
  BY <1>1, <1>2, <1>3, <1>4 DEF IInv

(* The running thread is in no queue, and the bootstrap thread never is. *)
LEMMA CurrentNotQueued ==
  ASSUME IInv
  PROVE  ~Queued(ready, s_current) /\ ~Queued(ready, Boot)
  BY SchedAssumption DEF IInv, QueuesExact, Queued, Created

(* yield and a preempting IRQ exit: the running thread goes to the tail of    *)
(* its class (or is the bootstrap thread, or dead) and another one is picked. *)
LEMMA RescheduleSwitches ==
  ASSUME IInv, NEW intents \in [AnyThread -> Intent],
         \A t \in Thread : t # s_current => intents[t] = sched_intent[t],
         Reschedule(intents)
  PROVE  Switched(intents) /\ need_resched' = FALSE
<1>1. TypeOK /\ s_current \in AnyThread /\ state \in [AnyThread -> ThreadState]
  BY DEF IInv, TypeOK
<1>2. /\ state[s_current] \in {"RUNNING", "DEAD"}
      /\ \A t \in Thread : state[t] = "RUNNING" => t = s_current
  BY DEF IInv, OneRunning
<1>3. Holds(ready, state, intents, admitted)
  <2>1. \A i \in Intent : \A t \in Range(ready[i]) : t # s_current
    BY DEF IInv, QueuesExact
  <2>2. \A t \in admitted : t \in Thread /\ (state[t] = "READY" => t # s_current)
    BY <1>1, <1>2 DEF TypeOK
  <2> QED
    BY <2>1, <2>2, IInvHolds DEF Holds
<1>4. CASE Requeues(s_current)
  <2> DEFINE st == [state EXCEPT ![s_current] = "READY"]
             rq == rq_insert_tail(ready, intents[s_current], s_current)
  <2>1. /\ s_current \in Thread
        /\ st \in [AnyThread -> ThreadState]
        /\ st[s_current] = "READY"
        /\ \A t \in Thread : t # s_current => st[t] = state[t]
    BY <1>1, <1>4 DEF Requeues, AnyThread, ThreadState
  <2>2. SwitchTo(rq, st, intents) /\ need_resched' = FALSE
    BY <1>4 DEF Reschedule
  <2> HIDE DEF st, rq
  <2>3. Holds(ready, st, intents, admitted \ {s_current})
    <3>1. \A i \in Intent : \A t \in Range(ready[i]) : t \in Thread /\ t # s_current
      BY DEF IInv, QueuesExact, Created
    <3>2. \A t \in admitted \ {s_current} : t \in Thread /\ t # s_current
      BY <1>1 DEF TypeOK
    <3> QED
      BY <1>3, <2>1, <3>1, <3>2 DEF Holds
  <2>4. Holds(rq, st, intents, admitted)
    <3>1. /\ admitted \ {s_current} \in SUBSET Thread
          /\ admitted \subseteq (admitted \ {s_current}) \cup {s_current}
          /\ ~Queued(ready, s_current)
      BY <1>1, CurrentNotQueued DEF TypeOK
    <3> QED
      BY <2>1, <2>3, <3>1, InsertHolds, Zenon DEF rq
  <2>5. \A t \in Thread : st[t] # "RUNNING"
    BY <1>2, <2>1
  <2>6. \A t \in Thread : state[t] # "NONE" => st[t] # "NONE"
    BY <2>1
  <2> QED
    BY <1>1, <2>1, <2>2, <2>4, <2>5, <2>6, SwitchHolds
<1>5. CASE ~Requeues(s_current)
  <2>1. SwitchTo(ready, state, intents) /\ need_resched' = FALSE
    BY <1>5 DEF Reschedule
  <2>2. \A t \in Thread : state[t] # "RUNNING"
    BY <1>2, <1>5, SchedAssumption DEF Requeues
  <2> QED
    BY <1>1, <1>3, <2>1, <2>2, SwitchHolds
<1> QED
  BY <1>4, <1>5, Zenon

(* sched_irq_exit, with any need_resched and any intents that differ only for *)
(* the running thread.                                                        *)
LEMMA IrqExitIInv ==
  ASSUME IInv, NEW need \in BOOLEAN, NEW used \in 0..slice_budget,
         NEW intents \in [AnyThread -> Intent],
         \A t \in Thread : t # s_current => intents[t] = sched_intent[t],
         slice_budget # 0 /\ used >= slice_budget /\ Preemptive => need,
         ~Preemptive => used = slice_used /\ need = need_resched,
         sched_irq_exit(need, used, intents)
  PROVE  IInv'
<1>1. /\ sched_intent' = intents
      /\ panicked' = (Queued(ready, s_current) \/ (s_current' = Boot /\ s_current # Boot))
      /\ UNCHANGED <<preempt_count, exiting, admitted>>
  BY DEF sched_irq_exit
<1>2. TypeOK /\ QueuesExact /\ NoThreadLost /\ OneRunning /\ ExpiryPending
  BY DEF IInv
<1>3. CASE Preemptive /\ need /\ preempt_count = 0
  <2>1. Reschedule(intents)
    BY <1>3 DEF sched_irq_exit
  <2>2. Switched(intents) /\ need_resched' = FALSE
    BY <2>1, RescheduleSwitches, Zenon
  <2>3. panicked' = FALSE
    BY <1>1, <2>2, CurrentNotQueued, SchedAssumption, Zenon DEF Switched
  <2> QED
    BY <1>1, <2>2, <2>3, SwitchedIInv, Zenon
<1>4. CASE ~(Preemptive /\ need /\ preempt_count = 0)
  <2>1. /\ need_resched' = need
        /\ slice_used' = used
        /\ UNCHANGED <<s_current, state, ready, s_pick_cursor, slice_budget>>
    BY <1>4 DEF sched_irq_exit
  <2>2. TypeOK'
    BY <1>1, <1>2, <2>1, CurrentNotQueued DEF TypeOK
  <2>3. QueuesExact'
    BY <1>1, <1>2, <2>1 DEF QueuesExact, Created
  <2>4. NoThreadLost'
    BY <1>1, <1>2, <2>1, Zenon DEF NoThreadLost, OneRunning, TypeOK
  <2>5. OneRunning' /\ NoPanic' /\ ExpiryPending'
    BY <1>1, <1>2, <2>1, CurrentNotQueued, SchedAssumption, Zenon
       DEF OneRunning, NoPanic, ExpiryPending
  <2>6. (admitted \subseteq Created)'
    BY <1>1, <2>1 DEF IInv, Created
  <2> QED
    BY <2>2, <2>3, <2>4, <2>5, <2>6 DEF IInv
<1> QED
  BY <1>3, <1>4

(* A timer tick, with or without the demotion of an over-limit task. *)
LEMMA TimerIrqIInv ==
  ASSUME IInv, NEW over \in BOOLEAN, TimerIrq(over)
  PROVE  IInv'
<1> DEFINE demoted == Preemptive /\ over /\ s_current # Boot
           intents == IF demoted THEN [sched_intent EXCEPT ![s_current] = BACKGROUND]
                                 ELSE sched_intent
           used    == IF Preemptive /\ slice_used < slice_budget
                      THEN slice_used + 1 ELSE slice_used
           need    == need_resched \/ demoted \/ (Preemptive /\ used >= slice_budget)
<1>1. TypeOK
  BY DEF IInv
<1>2. intents \in [AnyThread -> Intent]
  BY <1>1 DEF TypeOK, Intent, BACKGROUND
<1>3. \A t \in Thread : t # s_current => intents[t] = sched_intent[t]
  BY <1>1 DEF TypeOK, AnyThread
<1>4. used \in 0..slice_budget
  BY <1>1 DEF TypeOK
<1>5. need \in BOOLEAN
  BY <1>1, SchedAssumption DEF TypeOK
<1>6. sched_irq_exit(need, used, intents)
  BY DEF TimerIrq
<1>7. ~Preemptive => used = slice_used /\ need = need_resched
  BY <1>1, SchedAssumption DEF TypeOK
<1>8. slice_budget # 0 /\ used >= slice_budget /\ Preemptive => need
  OBVIOUS
<1> HIDE DEF demoted, intents, used, need
<1> QED
  BY <1>2, <1>3, <1>4, <1>5, <1>6, <1>7, <1>8, IrqExitIInv

(* Any other interrupt. *)
LEMMA OtherIrqIInv == ASSUME IInv, OtherIrq PROVE IInv'
<1>1. /\ need_resched \in BOOLEAN
      /\ slice_used \in 0..slice_budget
      /\ sched_intent \in [AnyThread -> Intent]
      /\ slice_budget # 0 /\ slice_used >= slice_budget => need_resched
  BY DEF IInv, TypeOK, ExpiryPending
<1>2. sched_irq_exit(need_resched, slice_used, sched_intent)
  BY DEF OtherIrq
<1> QED
  BY <1>1, <1>2, IrqExitIInv

(* yield, also as the loop of thread_exit. *)
LEMMA YieldIInv == ASSUME IInv, yield PROVE IInv'
<1>1. /\ Reschedule(sched_intent)
      /\ panicked' = Queued(ready, s_current)
      /\ UNCHANGED <<sched_intent, preempt_count, exiting, admitted>>
  BY DEF yield
<1>2. sched_intent \in [AnyThread -> Intent]
  BY DEF IInv, TypeOK
<1>3. Switched(sched_intent) /\ need_resched' = FALSE
  BY <1>1, <1>2, RescheduleSwitches, Zenon
<1>4. panicked' = FALSE
  BY <1>1, CurrentNotQueued
<1> QED
  BY <1>1, <1>2, <1>3, <1>4, SwitchedIInv, Zenon

(* Blocking while another thread is ready. *)
LEMMA BlockIInv == ASSUME IInv, sched_block_current PROVE IInv'
<1> DEFINE st == [state EXCEPT ![s_current] = "BLOCKED"]
<1>1. /\ s_current # Boot
      /\ SwitchTo(ready, st, sched_intent)
      /\ panicked' = Queued(ready, s_current)
      /\ UNCHANGED <<sched_intent, need_resched, preempt_count, exiting, admitted>>
  BY DEF sched_block_current
<1>2. TypeOK /\ sched_intent \in [AnyThread -> Intent] /\ need_resched \in BOOLEAN
  BY DEF IInv, TypeOK
<1>3. /\ s_current \in Thread
      /\ st \in [AnyThread -> ThreadState]
      /\ st[s_current] = "BLOCKED"
      /\ \A t \in Thread : t # s_current => st[t] = state[t]
  BY <1>1, <1>2 DEF TypeOK, AnyThread, ThreadState
<1> HIDE DEF st
<1>4. Holds(ready, st, sched_intent, admitted)
  <2>1. Holds(ready, state, sched_intent, admitted)
    BY IInvHolds
  <2>2. \A i \in Intent : \A t \in Range(ready[i]) : t # s_current
    BY DEF IInv, QueuesExact
  <2>3. admitted \subseteq Thread
    BY <1>2 DEF TypeOK
  <2> QED
    BY <1>3, <2>1, <2>2, <2>3 DEF Holds
<1>5. /\ \A t \in Thread : st[t] # "RUNNING"
      /\ \A t \in Thread : state[t] # "NONE" => st[t] # "NONE"
  BY <1>3 DEF IInv, OneRunning
<1>6. Switched(sched_intent)
  BY <1>1, <1>2, <1>3, <1>4, <1>5, SwitchHolds
<1>7. panicked' = FALSE
  BY <1>1, CurrentNotQueued
<1> QED
  BY <1>1, <1>2, <1>6, <1>7, SwitchedIInv, Zenon

-----------------------------------------------------------------------------
(* Steps that do not switch.  The running thread stays and is in no queue;    *)
(* it is enough that the new queues and states agree.                         *)
LEMMA StayIInv ==
  ASSUME IInv, sched_intent' \in [AnyThread -> Intent],
         state' \in [AnyThread -> ThreadState], admitted' \in SUBSET Thread,
         Holds(ready', state', sched_intent', admitted'),
         \A i \in Intent : s_current \notin Range(ready'[i]),
         \A t \in Thread : state'[t] = "RUNNING" => state[t] = "RUNNING",
         state'[s_current] = state[s_current],
         \A t \in admitted' : state'[t] # "NONE",
         panicked' = FALSE,
         UNCHANGED <<s_current, s_pick_cursor, need_resched, preempt_count,
                     slice_budget, slice_used, exiting>>
  PROVE  IInv'
<1>1. TypeOK'
  BY Zenon DEF IInv, TypeOK, Holds, Queues
<1>2. QueuesExact' /\ NoThreadLost'
  BY DEF Holds, QueuesExact, NoThreadLost, Created
<1>3. OneRunning' /\ NoPanic' /\ ExpiryPending'
  BY DEF IInv, OneRunning, NoPanic, ExpiryPending
<1>4. (admitted \subseteq Created)'
  BY DEF Created
<1> QED
  BY <1>1, <1>2, <1>3, <1>4 DEF IInv

(* A new thread is READY but in no queue, and not admitted. *)
LEMMA CreateIInv == ASSUME IInv, NEW t \in Thread, thread_create_named(t) PROVE IInv'
<1>1. /\ state[t] = "NONE"
      /\ state' = [state EXCEPT ![t] = "READY"]
      /\ sched_intent' = [sched_intent EXCEPT ![t] = INTERACTIVE]
      /\ UNCHANGED <<s_current, ready, s_pick_cursor, need_resched, preempt_count,
                     slice_budget, slice_used, exiting, admitted, panicked>>
  BY DEF thread_create_named
<1>2. /\ TypeOK
      /\ admitted \subseteq Created
      /\ state[s_current] # "NONE"
      /\ panicked = FALSE
      /\ Holds(ready, state, sched_intent, admitted)
  BY IInvHolds DEF IInv, OneRunning, NoPanic, TypeOK
<1>3. state' \in [AnyThread -> ThreadState] /\ sched_intent' \in [AnyThread -> Intent]
  BY <1>1, <1>2 DEF TypeOK, AnyThread, ThreadState, Intent, INTERACTIVE
<1>4. /\ t \in AnyThread
      /\ \A u \in Thread : u # t => state'[u] = state[u] /\ sched_intent'[u] = sched_intent[u]
      /\ state'[t] = "READY"
      /\ state'[s_current] = state[s_current]
  BY <1>1, <1>2 DEF TypeOK, AnyThread
<1>5. \A u \in admitted : u \in Thread /\ u # t
  BY <1>1, <1>2 DEF Created
<1>6. Holds(ready', state', sched_intent', admitted')
  BY <1>1, <1>2, <1>4, <1>5 DEF Holds
<1>7. \A i \in Intent : s_current \notin Range(ready'[i])
  BY <1>1, CurrentNotQueued DEF Queued
<1>8. \A u \in admitted' : state'[u] # "NONE"
  BY <1>1, <1>2, <1>4, <1>5 DEF Created
<1> QED
  BY <1>1, <1>2, <1>3, <1>4, <1>5, <1>6, <1>7, <1>8, StayIInv, Zenon DEF TypeOK

(* Making a created thread READY and inserting it, as sched_enqueue and       *)
(* sched_wake do.                                                             *)
LEMMA MakeReadyIInv ==
  ASSUME IInv, NEW t \in Thread, t # s_current, state[t] # "NONE", ~Queued(ready, t),
         state' = [state EXCEPT ![t] = "READY"],
         ready' = rq_insert_tail(ready, sched_intent[t], t),
         admitted' \in {admitted, admitted \cup {t}},
         panicked' = FALSE,
         UNCHANGED <<s_current, sched_intent, s_pick_cursor, need_resched, preempt_count,
                     slice_budget, slice_used, exiting>>
  PROVE  IInv'
<1>1. /\ TypeOK
      /\ admitted \subseteq Created
      /\ Holds(ready, state, sched_intent, admitted)
      /\ sched_intent \in [AnyThread -> Intent]
  BY IInvHolds DEF IInv, TypeOK
<1>2. state' \in [AnyThread -> ThreadState]
  BY <1>1, Zenon DEF TypeOK, ThreadState
<1>3. /\ \A u \in Thread : u # t => state'[u] = state[u]
      /\ state'[t] = "READY"
      /\ state'[s_current] = state[s_current]
  BY <1>1 DEF TypeOK, AnyThread
<1> DEFINE others == admitted \ {t}
<1>4. /\ admitted' \in SUBSET Thread
      /\ others \in SUBSET Thread
      /\ admitted' \subseteq others \cup {t}
  BY <1>1 DEF TypeOK
<1>5. Holds(ready, state', sched_intent, others)
  <2>1. \A i \in Intent : \A u \in Range(ready[i]) : u \in Thread /\ u # t
    BY <1>1 DEF Holds, Queued
  <2> QED
    BY <1>1, <1>3, <1>4, <2>1 DEF Holds
<1> HIDE DEF others
<1>6. Holds(ready', state', sched_intent, admitted')
  BY <1>1, <1>3, <1>4, <1>5, InsertHolds, Zenon
<1>7. \A i \in Intent : s_current \notin Range(ready'[i])
  <2>1. sched_intent[t] \in Intent
    BY <1>1 DEF AnyThread
  <2>2. \A i \in Intent : Range(ready'[i]) \subseteq Range(ready[i]) \cup {t}
    BY <1>1, <2>1, InsertAddsOne
  <2> QED
    BY <2>2, CurrentNotQueued DEF Queued
<1>8. \A u \in admitted' : state'[u] # "NONE"
  BY <1>1, <1>3, <1>4 DEF Created, others
<1> QED
  BY <1>1, <1>2, <1>3, <1>4, <1>6, <1>7, <1>8, StayIInv, Zenon

(* sched_enqueue. *)
LEMMA EnqueueIInv == ASSUME IInv, NEW t \in Thread, sched_enqueue(t) PROVE IInv'
<1>1. ~Queued(ready, t) /\ panicked' = FALSE
  BY DEF sched_enqueue, InsertPanics
<1> QED
  BY <1>1, MakeReadyIInv, Zenon DEF sched_enqueue, Created

(* sched_wake: a blocked thread is neither queued nor running. *)
LEMMA WakeIInv == ASSUME IInv, NEW t \in Thread, sched_wake(t) PROVE IInv'
<1>1. state[t] = "BLOCKED"
  BY DEF sched_wake
<1>2. ~Queued(ready, t) /\ t # s_current
  BY <1>1 DEF IInv, QueuesExact, OneRunning, Queued
<1>3. panicked' = FALSE
  BY <1>2 DEF sched_wake, InsertPanics
<1> QED
  BY <1>1, <1>2, <1>3, MakeReadyIInv, Zenon DEF sched_wake

(* sched_set_thread_intent: a queued thread is moved to its new class, any    *)
(* other thread only changes class.                                           *)
LEMMA SetIntentIInv ==
  ASSUME IInv, NEW t \in Thread, NEW raw \in RawIntents, sched_set_thread_intent(t, raw)
  PROVE  IInv'
<1> DEFINE i       == sched_intent_sanitize(raw)
           removed == rq_remove(ready, t)
           was_ready == state[t] = "READY" /\ Queued(ready, t)
<1>1. /\ sched_intent' = [sched_intent EXCEPT ![t] = i]
      /\ ready' = IF was_ready THEN rq_insert_tail(removed, i, t) ELSE ready
      /\ panicked' = (was_ready /\ Queued(removed, t))
      /\ UNCHANGED <<s_current, state, s_pick_cursor, need_resched,
                     preempt_count, slice_budget, slice_used, exiting, admitted>>
  BY DEF sched_set_thread_intent, InsertPanics
<1>2. i \in Intent
  BY DEF sched_intent_sanitize, Intent, BACKGROUND
<1> HIDE DEF i
<1>3. /\ TypeOK
      /\ admitted \subseteq Created
      /\ Holds(ready, state, sched_intent, admitted)
      /\ sched_intent \in [AnyThread -> Intent]
      /\ admitted \in SUBSET Thread
      /\ t \in AnyThread
  BY IInvHolds DEF IInv, TypeOK, AnyThread
<1>4. /\ sched_intent' \in [AnyThread -> Intent]
      /\ \A u \in Thread : u # t => sched_intent'[u] = sched_intent[u]
      /\ sched_intent'[t] = i
  BY <1>1, <1>2, <1>3 DEF AnyThread
<1>5. CASE was_ready
  <2>1. PICK k \in Intent : t \in Range(ready[k])
    BY <1>5 DEF Queued
  <2>2. \A j \in Intent : t \in Range(ready[j]) => j = k
    BY <1>3, <2>1 DEF Holds
  <2>3. ready \in Queues(AnyThread) /\ \A j \in Intent : IsInjective(ready[j])
    BY <1>3 DEF Holds
  <2>4. /\ removed \in Queues(AnyThread)
        /\ Range(removed[k]) = Range(ready[k]) \ {t}
    BY <2>1, <2>2, <2>3, RemoveMembers
  <2>5. \A j \in Intent : IsInjective(removed[j])
    BY <2>1, <2>2, <2>3, RemoveMembers
  <2>6. \A j \in Intent : j # k => removed[j] = ready[j]
    BY <2>1, <2>2, <2>3, RemoveMembers
  <2> HIDE DEF removed
  <2>7. \A j \in Intent : Range(removed[j]) = Range(ready[j]) \ {t}
    BY <2>2, <2>4, <2>6
  <2>8. ~Queued(removed, t)
    BY <2>7 DEF Queued
  <2> DEFINE others == admitted \ {t}
  <2>9. Holds(removed, state, sched_intent', others)
    <3>1. \A j \in Intent : \A u \in Range(removed[j]) :
            u \in Thread /\ state[u] = "READY" /\ sched_intent'[u] = j
      BY <1>3, <1>4, <2>7 DEF Holds
    <3>2. \A u \in admitted \ {t} : state[u] = "READY" => u \in Range(removed[sched_intent'[u]])
      <4> SUFFICES ASSUME NEW u \in admitted, u # t, state[u] = "READY"
                   PROVE  u \in Range(removed[sched_intent'[u]])
        OBVIOUS
      <4>1. u \in Thread /\ sched_intent'[u] = sched_intent[u] /\ sched_intent[u] \in Intent
        BY <1>3, <1>4 DEF AnyThread
      <4>2. u \in Range(ready[sched_intent[u]])
        BY <1>3 DEF Holds
      <4> QED
        BY <2>7, <4>1, <4>2
    <3> QED
      BY <2>4, <2>5, <3>1, <3>2 DEF Holds
  <2>10. /\ others \in SUBSET Thread
         /\ admitted \subseteq others \cup {t}
         /\ state[t] = "READY"
         /\ ready' = rq_insert_tail(removed, sched_intent'[t], t)
    BY <1>1, <1>3, <1>4, <1>5
  <2> HIDE DEF others
  <2>11. Holds(ready', state, sched_intent', admitted)
    BY <1>4, <2>8, <2>9, <2>10, InsertHolds
  <2>12. \A j \in Intent : s_current \notin Range(ready'[j])
    <3>1. t # s_current
      BY <1>5 DEF IInv, OneRunning
    <3>2. \A j \in Intent : Range(ready'[j]) \subseteq Range(removed[j]) \cup {t}
      BY <1>2, <1>4, <2>8, <2>9, <2>10, InsertAddsOne
    <3> QED
      BY <2>7, <3>1, <3>2, CurrentNotQueued DEF Queued
  <2>13. panicked' = FALSE
    BY <1>1, <2>8, Zenon DEF removed
  <2> QED
    BY <1>1, <1>3, <1>4, <2>11, <2>12, <2>13, StayIInv, Zenon DEF TypeOK, Created
<1>6. CASE ~was_ready
  <2>1. ready' = ready /\ panicked' = FALSE
    BY <1>1, <1>6, Zenon
  <2>2. ~Queued(ready, t)
    BY <1>3, <1>6 DEF Holds, Queued
  <2>3. t \in admitted => state[t] # "READY"
    <3>1. t \in admitted /\ state[t] = "READY" => t \in Range(ready[sched_intent[t]])
      BY <1>3 DEF Holds
    <3> QED
      BY <1>3, <2>2, <3>1 DEF Queued
  <2>4. Holds(ready', state', sched_intent', admitted')
    <3>1. \A j \in Intent : \A u \in Range(ready[j]) : u \in Thread /\ u # t
      BY <1>3, <2>2 DEF Holds, Queued
    <3> QED
      BY <1>1, <1>3, <1>4, <2>1, <2>3, <3>1 DEF Holds
  <2>5. \A j \in Intent : s_current \notin Range(ready'[j])
    BY <2>1, CurrentNotQueued DEF Queued
  <2> QED
    BY <1>1, <1>3, <1>4, <2>1, <2>4, <2>5, StayIInv, Zenon DEF TypeOK, Created
<1> QED
  BY <1>5, <1>6

(* thread_exit: the running thread is marked dead and stays current. *)
LEMMA ExitIInv == ASSUME IInv, thread_exit PROVE IInv'
<1>1. /\ s_current # Boot
      /\ state' = [state EXCEPT ![s_current] = "DEAD"]
      /\ exiting' = exiting \cup {s_current}
      /\ UNCHANGED <<s_current, sched_intent, ready, s_pick_cursor, need_resched,
                     preempt_count, slice_budget, slice_used, admitted, panicked>>
  BY DEF thread_exit
<1>2. TypeOK /\ s_current \in Thread
  BY <1>1 DEF IInv, TypeOK, AnyThread
<1>3. /\ state'[s_current] = "DEAD"
      /\ \A t \in AnyThread : t # s_current => state'[t] = state[t]
  BY <1>1, <1>2 DEF TypeOK
<1>4. TypeOK'
  BY <1>1, <1>2 DEF TypeOK, ThreadState
<1>5. QueuesExact'
  BY <1>1, <1>3 DEF IInv, QueuesExact, Created, AnyThread
<1>6. NoThreadLost'
  BY <1>1, <1>2, <1>3 DEF IInv, NoThreadLost, TypeOK, AnyThread
<1>7. OneRunning' /\ NoPanic' /\ ExpiryPending'
  BY <1>1, <1>3 DEF IInv, OneRunning, NoPanic, ExpiryPending, AnyThread
<1>8. (admitted \subseteq Created)'
  BY <1>1, <1>3 DEF IInv, Created, AnyThread
<1> QED
  BY <1>4, <1>5, <1>6, <1>7, <1>8 DEF IInv

(* preempt_disable and preempt_enable change the depth only. *)
LEMMA PreemptIInv == ASSUME IInv, preempt_disable \/ preempt_enable PROVE IInv'
<1>1. /\ preempt_count' \in 0..MaxPreempt
      /\ UNCHANGED <<s_current, state, sched_intent, ready, s_pick_cursor, need_resched,
                     slice_budget, slice_used, exiting, admitted, panicked>>
  BY SchedAssumption DEF IInv, TypeOK, preempt_disable, preempt_enable
<1>2. TypeOK'
  BY <1>1 DEF IInv, TypeOK
<1> QED
  BY <1>1, <1>2
     DEF IInv, QueuesExact, NoThreadLost, OneRunning, NoPanic, ExpiryPending, Created

(* Every step preserves the invariant. *)
LEMMA NextIInv == IInv /\ [Next]_vars => IInv'
<1> SUFFICES ASSUME IInv, [Next]_vars PROVE IInv'
  OBVIOUS
<1>1. ASSUME NEW t \in Thread,
             \/ thread_create_named(t)
             \/ sched_enqueue(t)
             \/ sched_wake(t)
             \/ \E raw \in RawIntents : sched_set_thread_intent(t, raw)
      PROVE  IInv'
  BY <1>1, CreateIInv, EnqueueIInv, WakeIInv, SetIntentIInv
<1>2. CASE yield
  BY <1>2, YieldIInv
<1>3. CASE sched_block_current
  BY <1>3, BlockIInv
<1>4. CASE thread_exit
  BY <1>4, ExitIInv
<1>5. CASE preempt_disable \/ preempt_enable
  BY <1>5, PreemptIInv
<1>6. CASE (\E over \in BOOLEAN : TimerIrq(over)) \/ OtherIrq
  BY <1>6, TimerIrqIInv, OtherIrqIInv
<1>7. CASE UNCHANGED vars
  BY <1>7 DEF vars, IInv, TypeOK, QueuesExact, NoThreadLost, OneRunning, NoPanic,
              ExpiryPending, Created
<1> QED
  BY <1>1, <1>2, <1>3, <1>4, <1>5, <1>6, <1>7 DEF Next

(* The scheduler keeps its invariant in every behaviour. *)
THEOREM SchedInvariant == Spec => []IInv
  BY InitIInv, NextIInv, PTL DEF Spec

-----------------------------------------------------------------------------
(* The variables always have the types of sched.c, thread.h and preempt.h. *)
THEOREM TypeCorrect == Spec => []TypeOK
<1>1. IInv => TypeOK
  BY DEF IInv
<1> QED
  BY <1>1, SchedInvariant, PTL

(* A thread is queued at most once, only while READY and in the queue of its  *)
(* intent, and never while it runs (rq_insert_tail_locked, rq_remove_locked,   *)
(* yield, sched_irq_exit).                                                     *)
THEOREM QueuesAlwaysExact == Spec => []QueuesExact
<1>1. IInv => QueuesExact
  BY DEF IInv
<1> QED
  BY <1>1, SchedInvariant, PTL

(* An admitted thread that is READY is in the queue of its intent. *)
THEOREM NoThreadIsLost == Spec => []NoThreadLost
<1>1. IInv => NoThreadLost
  BY DEF IInv
<1> QED
  BY <1>1, SchedInvariant, PTL

(* Of the created threads only the current one is RUNNING. *)
THEOREM AtMostOneRuns == Spec => []OneRunning
<1>1. IInv => OneRunning
  BY DEF IInv
<1> QED
  BY <1>1, SchedInvariant, PTL

(* No assertion of the scheduler fires. *)
THEOREM NeverPanics == Spec => []NoPanic
<1>1. IInv => NoPanic
  BY DEF IInv
<1> QED
  BY <1>1, SchedInvariant, PTL

(* A slice that has run out keeps a reschedule pending. *)
THEOREM ExpiryStaysPending == Spec => []ExpiryPending
<1>1. IInv => ExpiryPending
  BY DEF IInv
<1> QED
  BY <1>1, SchedInvariant, PTL

-----------------------------------------------------------------------------
(* Waiting in order.  An insertion at the tail puts nobody in front of a       *)
(* thread that is already there (rq_insert_tail_locked).                       *)
LEMMA AheadAppend ==
  ASSUME NEW S, NEW s \in Seq(S), NEW x \in S, NEW t, t # x
  PROVE  AheadIn(Append(s, x), t) \subseteq AheadIn(s, t)
<1> DEFINE r == Append(s, x)
<1>1. /\ Len(s) \in Nat /\ DOMAIN s = 1..Len(s) /\ DOMAIN r = 1..(Len(s) + 1)
      /\ \A k \in 1..Len(s) : r[k] = s[k]
      /\ r[Len(s) + 1] = x
  BY SeqLen, SeqAppend
<1> HIDE DEF r
<1>2. ASSUME NEW k \in DOMAIN r, NEW m \in DOMAIN r, k < m, r[m] = t
      PROVE  r[k] \in AheadIn(s, t)
  <2>1. k \in DOMAIN s /\ m \in DOMAIN s
    BY <1>1, <1>2
  <2> QED
    BY <1>1, <1>2, <2>1 DEF AheadIn
<1> QED
  BY <1>2 DEF AheadIn, r

(* A removal from the middle (rq_remove_locked) moves nobody forward past t. *)
LEMMA AheadRemove ==
  ASSUME NEW S, NEW s \in Seq(S), NEW n \in 1..Len(s), NEW t
  PROVE  AheadIn(Unlinked(s, n), t) \subseteq AheadIn(s, t)
<1> DEFINE r == Unlinked(s, n)
           at(j) == IF j < n THEN j ELSE j + 1
<1>1. /\ Len(s) \in Nat /\ DOMAIN s = 1..Len(s) /\ DOMAIN r = 1..(Len(s) - 1)
      /\ \A j \in 1..(Len(s) - 1) : r[j] = IF j < n THEN s[j] ELSE s[j + 1]
  BY SeqLen, RemoveAtElements
<1>2. \A j \in DOMAIN r : r[j] = s[at(j)] /\ at(j) \in DOMAIN s
  BY <1>1
<1>3. ASSUME NEW k \in DOMAIN r, NEW m \in DOMAIN r, k < m, r[m] = t
      PROVE  r[k] \in AheadIn(s, t)
  <2>1. at(k) < at(m)
    BY <1>1, <1>3
  <2> HIDE DEF at
  <2> QED
    BY <1>2, <1>3, <2>1 DEF AheadIn
<1> HIDE DEF r
<1> QED
  BY <1>3 DEF AheadIn, r

(* A removal at the head (rq_pop_head_intent_locked) only shortens the line. *)
LEMMA AheadTail ==
  ASSUME NEW S, NEW s \in Seq(S), s # <<>>, NEW t
  PROVE  AheadIn(Tail(s), t) \subseteq AheadIn(s, t)
<1> DEFINE r == Tail(s)
<1>1. /\ Len(s) \in Nat /\ DOMAIN s = 1..Len(s) /\ DOMAIN r = 1..(Len(s) - 1)
      /\ \A j \in 1..(Len(s) - 1) : r[j] = s[j + 1]
  BY SeqLen, SeqHeadTail
<1> HIDE DEF r
<1>2. ASSUME NEW k \in DOMAIN r, NEW m \in DOMAIN r, k < m, r[m] = t
      PROVE  r[k] \in AheadIn(s, t)
  <2>1. k + 1 \in DOMAIN s /\ m + 1 \in DOMAIN s /\ k + 1 < m + 1
    BY <1>1, <1>2
  <2> QED
    BY <1>1, <1>2, <2>1 DEF AheadIn
<1> QED
  BY <1>2 DEF AheadIn, r

(* Nobody who is in the same queue of rq and of q is overtaken between them. *)
InOrder(rq, q) ==
  \A i \in Intent : \A t \in Range(rq[i]) \cap Range(q[i]) : AheadIn(q[i], t) \subseteq AheadIn(rq[i], t)

(* A switch pops one head: it keeps the order of the queues it is given. *)
LEMMA SwitchInOrder ==
  ASSUME TypeOK, NEW rq \in Queues(AnyThread), NEW st, NEW intents, SwitchTo(rq, st, intents)
  PROVE  \A i \in Intent : \A t : AheadIn(ready'[i], t) \subseteq AheadIn(rq[i], t)
<1> DEFINE p == PickNext(rq, s_pick_cursor, s_current)
<1>1. ready' = p.ready
  BY DEF SwitchTo
<1>2. /\ AllEmpty(rq) => p.ready = rq
      /\ ~AllEmpty(rq) => \E i \in Intent : rq[i] # <<>> /\ p.ready = rq_pop_head(rq, i)
  <2>1. s_pick_cursor \in 0..(PatternLen - 1)
    BY DEF TypeOK
  <2> QED
    BY <2>1, PickFromQueues
<1> HIDE DEF p
<1>3. CASE AllEmpty(rq)
  BY <1>1, <1>2, <1>3
<1>4. CASE ~AllEmpty(rq)
  <2>1. PICK i \in Intent : rq[i] # <<>> /\ ready' = rq_pop_head(rq, i)
    BY <1>1, <1>2, <1>4
  <2>2. ready'[i] = Tail(rq[i]) /\ \A j \in Intent : j # i => ready'[j] = rq[j]
    BY <2>1 DEF rq_pop_head, Queues
  <2>3. \A t : AheadIn(Tail(rq[i]), t) \subseteq AheadIn(rq[i], t)
    BY <2>1, AheadTail DEF Queues
  <2> QED
    BY <2>2, <2>3
<1> QED
  BY <1>3, <1>4

(* Inserting a thread that is in no queue keeps the order. *)
LEMMA InsertInOrder ==
  ASSUME NEW rq \in Queues(AnyThread), NEW i \in Intent, NEW x \in AnyThread,
         ~Queued(rq, x), NEW q, q = rq_insert_tail(rq, i, x)
  PROVE  \A j \in Intent : \A t \in Range(rq[j]) : AheadIn(q[j], t) \subseteq AheadIn(rq[j], t)
<1>1. q[i] = Append(rq[i], x) /\ \A j \in Intent : j # i => q[j] = rq[j]
  BY DEF rq_insert_tail, Queues
<1>2. \A t \in Range(rq[i]) : t # x
  BY DEF Queued
<1>3. \A t \in Range(rq[i]) : AheadIn(Append(rq[i], x), t) \subseteq AheadIn(rq[i], t)
  BY <1>2, AheadAppend DEF Queues
<1> QED
  BY <1>1, <1>3, Zenon

(* yield and a preempting IRQ exit keep the order: the running thread goes to  *)
(* the tail.                                                                   *)
LEMMA RescheduleInOrder ==
  ASSUME IInv, NEW intents \in [AnyThread -> Intent], Reschedule(intents)
  PROVE  InOrder(ready, ready')
<1> DEFINE again == Requeues(s_current)
           rq    == IF again THEN rq_insert_tail(ready, intents[s_current], s_current) ELSE ready
           st    == IF again THEN [state EXCEPT ![s_current] = "READY"] ELSE state
<1>1. TypeOK /\ ready \in Queues(AnyThread) /\ s_current \in AnyThread /\ intents[s_current] \in Intent
  BY DEF IInv, TypeOK, Queues
<1>2. ~Queued(ready, s_current)
  BY CurrentNotQueued
<1>3. rq \in Queues(AnyThread)
  BY <1>1, SeqAppend DEF rq_insert_tail, Queues
<1>4. \A j \in Intent : \A t \in Range(ready[j]) : AheadIn(rq[j], t) \subseteq AheadIn(ready[j], t)
  <2>1. CASE again
    BY <1>1, <1>2, <2>1, InsertInOrder
  <2>2. CASE ~again
    BY <2>2
  <2> QED BY <2>1, <2>2
<1>5. SwitchTo(rq, st, intents)
  BY DEF Reschedule
<1> HIDE DEF rq, st
<1>6. \A j \in Intent : \A t : AheadIn(ready'[j], t) \subseteq AheadIn(rq[j], t)
  BY <1>1, <1>3, <1>5, SwitchInOrder
<1> QED
  BY <1>4, <1>6 DEF InOrder

(* Moving a queued thread to another class keeps the order of both classes. *)
LEMMA SetIntentInOrder ==
  ASSUME IInv, NEW t \in Thread, NEW raw, sched_set_thread_intent(t, raw)
  PROVE  InOrder(ready, ready')
<1> DEFINE i       == sched_intent_sanitize(raw)
           removed == rq_remove(ready, t)
           was_ready == state[t] = "READY" /\ Queued(ready, t)
<1>1. /\ sched_intent[t] # i
      /\ ready' = IF was_ready THEN rq_insert_tail(removed, i, t) ELSE ready
  BY DEF sched_set_thread_intent
<1>2. i \in Intent
  BY DEF sched_intent_sanitize, Intent, BACKGROUND
<1> HIDE DEF i
<1>3. CASE ~was_ready
  BY <1>1, <1>3 DEF InOrder
<1>4. CASE was_ready
  <2>1. /\ ready \in Queues(AnyThread)
        /\ \A j \in Intent : IsInjective(ready[j])
        /\ \A j \in Intent : t \in Range(ready[j]) => j = sched_intent[t]
    BY IInvHolds DEF Holds
  <2>2. PICK k \in Intent : t \in Range(ready[k]) /\ k = sched_intent[t]
    BY <1>4, <2>1 DEF Queued
  <2>3. PICK n \in 1..Len(ready[k]) : ready[k][n] = t
    BY <2>1, <2>2, MembersOfSeq DEF Queues
  <2>4. removed = [ready EXCEPT ![k] = Unlinked(ready[k], n)]
    <3>1. \A j \in Intent : ready[k][n] \in Range(ready[j]) => j = k
      BY <2>1, <2>2, <2>3
    <3>2. rq_remove(ready, ready[k][n]) = [ready EXCEPT ![k] = Unlinked(ready[k], n)]
      BY <2>1, <3>1, RemoveIs
    <3> QED BY <2>3, <3>2
  <2>5. /\ removed \in Queues(AnyThread)
        /\ Range(removed[k]) = Range(ready[k]) \ {t}
        /\ \A j \in Intent : j # k => removed[j] = ready[j]
    BY <2>1, <2>2, RemoveMembers
  <2>6. removed[k] = Unlinked(ready[k], n)
    BY <2>1, <2>4 DEF Queues
  <2> HIDE DEF removed
  <2>7. \A j \in Intent : \A u : AheadIn(removed[j], u) \subseteq AheadIn(ready[j], u)
    <3>1. \A u : AheadIn(Unlinked(ready[k], n), u) \subseteq AheadIn(ready[k], u)
      BY <2>1, AheadRemove DEF Queues
    <3> QED BY <2>5, <2>6, <3>1, Zenon
  <2>8. ~Queued(removed, t)
    BY <2>1, <2>2, <2>5 DEF Queued
  <2>9. ready' = rq_insert_tail(removed, i, t)
    BY <1>1, <1>4
  <2>10. \A j \in Intent : \A u \in Range(removed[j]) : AheadIn(ready'[j], u) \subseteq AheadIn(removed[j], u)
    BY <1>2, <2>5, <2>8, <2>9, InsertInOrder, Zenon DEF AnyThread
  <2>11. ASSUME NEW j \in Intent, NEW u \in Range(ready[j]) \cap Range(ready'[j])
         PROVE  u \in Range(removed[j])
    <3>1. CASE j # k
      BY <2>5, <2>11, <3>1
    <3>2. CASE j = k
      <4>1. ready'[k] = removed[k]
        BY <1>1, <1>2, <2>2, <2>5, <2>9 DEF rq_insert_tail, Queues
      <4> QED BY <2>11, <3>2, <4>1
    <3> QED BY <3>1, <3>2, Zenon
  <2> QED
    BY <2>7, <2>10, <2>11 DEF InOrder
<1> QED
  BY <1>3, <1>4

(* An IRQ exit switches, or leaves the queues alone. *)
LEMMA IrqExitInOrder ==
  ASSUME IInv, NEW need, NEW used, NEW intents \in [AnyThread -> Intent],
         sched_irq_exit(need, used, intents)
  PROVE  InOrder(ready, ready')
<1>1. Reschedule(intents) \/ ready' = ready
  BY DEF sched_irq_exit
<1> QED
  BY <1>1, RescheduleInOrder DEF InOrder

(* Every step keeps the order of the threads that wait. *)
LEMMA NextInOrder == IInv /\ [Next]_vars => InOrder(ready, ready')
<1> SUFFICES ASSUME IInv, [Next]_vars PROVE InOrder(ready, ready')
  OBVIOUS
<1>1. /\ sched_intent \in [AnyThread -> Intent] /\ s_current \in AnyThread
      /\ TypeOK /\ ready \in Queues(AnyThread)
  BY DEF IInv, TypeOK, Queues
<1>2. ready' = ready => InOrder(ready, ready')
  BY DEF InOrder
<1>3. ASSUME NEW t \in Thread, sched_enqueue(t) \/ sched_wake(t)
      PROVE  InOrder(ready, ready')
  <2>1. ~Queued(ready, t) /\ ready' = rq_insert_tail(ready, sched_intent[t], t)
    BY <1>3 DEF sched_enqueue, sched_wake, IInv, QueuesExact, Queued
  <2>2. t \in AnyThread /\ sched_intent[t] \in Intent
    BY <1>1 DEF AnyThread
  <2> QED
    BY <1>1, <2>1, <2>2, InsertInOrder DEF InOrder
<1>4. CASE yield
  BY <1>1, <1>4, RescheduleInOrder DEF yield
<1>5. CASE sched_block_current
  BY <1>1, <1>5, SwitchInOrder DEF sched_block_current, InOrder
<1>6. ASSUME NEW over \in BOOLEAN, TimerIrq(over)
      PROVE  InOrder(ready, ready')
  <2> DEFINE demoted == Preemptive /\ over /\ s_current # Boot
             intents == IF demoted THEN [sched_intent EXCEPT ![s_current] = BACKGROUND]
                                   ELSE sched_intent
  <2>1. intents \in [AnyThread -> Intent]
    BY <1>1 DEF Intent, BACKGROUND
  <2>2. \E need, used : sched_irq_exit(need, used, intents)
    BY <1>6 DEF TimerIrq
  <2> HIDE DEF intents
  <2> QED
    BY <2>1, <2>2, IrqExitInOrder
<1>7. CASE OtherIrq
  BY <1>1, <1>7, IrqExitInOrder DEF OtherIrq
<1>8. ASSUME NEW t \in Thread, NEW raw \in RawIntents, sched_set_thread_intent(t, raw)
      PROVE  InOrder(ready, ready')
  BY <1>8, SetIntentInOrder
<1>9. ASSUME \/ \E t \in Thread : thread_create_named(t)
             \/ thread_exit \/ preempt_disable \/ preempt_enable \/ UNCHANGED vars
      PROVE  ready' = ready
  BY <1>9 DEF thread_create_named, thread_exit, preempt_disable, preempt_enable, vars
<1> QED
  BY <1>2, <1>3, <1>4, <1>5, <1>6, <1>7, <1>8, <1>9 DEF Next

(* FIFO inside a class, for any number of threads: while a thread waits in a   *)
(* queue nobody gets in front of it, by yielding, waking, being preempted or   *)
(* changing class.                                                             *)
THEOREM WaitsInOrder == Spec => NoOvertaking
<1> DEFINE A == \A i \in Intent : \A t \in Range(ready[i]) \cap Range(ready'[i]) :
                  Ahead(t, i)' \subseteq Ahead(t, i)
<1>1. IInv /\ [Next]_vars => A
  <2>1. InOrder(ready, ready') => A
    BY DEF InOrder, Ahead
  <2> QED BY <2>1, NextInOrder
<1> QED
  BY <1>1, SchedInvariant, PTL DEF Spec, NoOvertaking

(* -------------------------------- contexts -------------------------------- *)

(* In the cooperative build every thread resumes where it stopped.  The       *)
(* inductive invariant is that every thread that exists and is not running    *)
(* has its stopping point in ctx, which rests on the queues holding only      *)
(* threads that exist (QueuesExact).                                          *)

Exists == Created \cup {Boot}

CtxInv ==
  /\ IInv
  /\ saved \in [AnyThread -> SUBSET Contexts]
  /\ \A t \in Exists : t # s_current => "ctx" \in saved[t]
  /\ misresumed = {}

(* A pick continues the running thread or takes one that is queued. *)
LEMMA PickedIsQueued ==
  ASSUME NEW rq \in Queues(AnyThread), NEW st, NEW intents, TypeOK,
         SwitchTo(rq, st, intents)
  PROVE  s_current' = s_current \/ \E i \in Intent : s_current' \in Range(rq[i])
<1> DEFINE p == PickNext(rq, s_pick_cursor, s_current)
<1>0. p = PickNext(rq, s_pick_cursor, s_current)
  OBVIOUS
<1>1. s_current' = p.next
  BY DEF SwitchTo
<1>2. s_pick_cursor \in 0..(PatternLen - 1)
  BY DEF TypeOK
<1> HIDE DEF p
<1>3. /\ AllEmpty(rq) => p.next = s_current
      /\ ~AllEmpty(rq) => \E i \in Intent : rq[i] # <<>> /\ p.next = Head(rq[i])
  BY <1>0, <1>2, PickFromQueues
<1>4. \A i \in Intent : rq[i] # <<>> => Head(rq[i]) \in Range(rq[i])
  BY TailMembers DEF Queues
<1> QED
  BY <1>1, <1>3, <1>4

(* yield and sched_block_current switch to a thread that exists, and bring    *)
(* none into being.                                                           *)
LEMMA SwitchExists ==
  ASSUME IInv, yield \/ sched_block_current
  PROVE  /\ s_current' = s_current \/ s_current' \in Created
         /\ Created' \subseteq Created
<1>1. /\ TypeOK /\ s_current \in AnyThread /\ state \in [AnyThread -> ThreadState]
      /\ state[s_current] # "NONE" /\ ready \in Queues(AnyThread)
      /\ sched_intent \in [AnyThread -> Intent]
  BY DEF IInv, TypeOK, OneRunning, Queues
<1>2. \A i \in Intent : Range(ready[i]) \subseteq Created
  BY DEF IInv, QueuesExact
<1>3. ASSUME NEW rq \in Queues(AnyThread), NEW v \in ThreadState,
             NEW st \in {state, [state EXCEPT ![s_current] = v]},
             \A i \in Intent : Range(rq[i]) \subseteq Range(ready[i]) \cup {s_current},
             SwitchTo(rq, st, sched_intent)
      PROVE  /\ s_current' = s_current \/ s_current' \in Created
             /\ Created' \subseteq Created
  <2>1. s_current' = s_current \/ \E i \in Intent : s_current' \in Range(rq[i])
    BY <1>1, <1>3, PickedIsQueued
  <2>2. s_current' = s_current \/ s_current' \in Created
    BY <1>2, <1>3, <2>1
  <2>3. state' = [st EXCEPT ![s_current'] = "RUNNING"]
    BY <1>3 DEF SwitchTo, sched_prepare_running
  <2>4. \A t \in Thread : t # s_current /\ t # s_current' => state'[t] = state[t]
    BY <1>1, <1>3, <2>3 DEF AnyThread
  <2> QED
    BY <1>1, <2>2, <2>4 DEF Created
<1>4. CASE sched_block_current
  BY <1>1, <1>3, <1>4, Zenon DEF sched_block_current, ThreadState
<1>5. CASE yield /\ ~Requeues(s_current)
  BY <1>1, <1>3, <1>5 DEF yield, Reschedule, ThreadState
<1>6. CASE yield /\ Requeues(s_current)
  <2> DEFINE rq == rq_insert_tail(ready, sched_intent[s_current], s_current)
             st == [state EXCEPT ![s_current] = "READY"]
  <2>1. SwitchTo(rq, st, sched_intent)
    BY <1>6 DEF yield, Reschedule
  <2>2. /\ s_current \in Thread /\ ~Queued(ready, s_current)
        /\ sched_intent[s_current] \in Intent
        /\ Holds(ready, state, sched_intent, admitted)
    BY <1>1, <1>6, CurrentNotQueued, IInvHolds DEF Requeues, AnyThread
  <2>3. \A i \in Intent : Range(rq[i]) \subseteq Range(ready[i]) \cup {s_current}
    BY <2>2, InsertAddsOne
  <2>4. rq \in Queues(AnyThread)
    BY <1>1, <2>2, InsertMembers DEF Holds, Queued
  <2>5. "READY" \in ThreadState
    BY DEF ThreadState
  <2> HIDE DEF rq
  <2> QED
    BY <1>3, <2>1, <2>3, <2>4, <2>5
<1> QED
  BY <1>4, <1>5, <1>6

(* Without preemption an interrupt returns to the thread it came from. *)
LEMMA CoopIrqStays ==
  ASSUME ~Preemptive, (\E over \in BOOLEAN : TimerIrq(over)) \/ OtherIrq
  PROVE  s_current' = s_current /\ state' = state
  BY DEF TimerIrq, OtherIrq, sched_irq_exit

(* The other operations leave the running thread and the threads alone. *)
LEMMA NoSwitchStays ==
  ASSUME IInv, NoSwitch
  PROVE  s_current' = s_current /\ Created' = Created /\ UNCHANGED ctxVars
<1>1. state \in [AnyThread -> ThreadState] /\ s_current \in AnyThread
      /\ state[s_current] # "NONE"
  BY DEF IInv, TypeOK, OneRunning
<1>2. ASSUME NEW t \in Thread, sched_enqueue(t) \/ sched_wake(t)
      PROVE  s_current' = s_current /\ Created' = Created
  BY <1>1, <1>2 DEF sched_enqueue, sched_wake, Created, AnyThread
<1>3. ASSUME NEW t \in Thread, NEW raw \in RawIntents, sched_set_thread_intent(t, raw)
      PROVE  s_current' = s_current /\ Created' = Created
  BY <1>3 DEF sched_set_thread_intent, Created
<1>4. CASE thread_exit
  BY <1>1, <1>4 DEF thread_exit, Created, AnyThread, NoSwitch
<1>5. CASE preempt_disable \/ preempt_enable
  BY <1>5 DEF preempt_disable, preempt_enable, Created, NoSwitch
<1> QED
  BY <1>2, <1>3, <1>4, <1>5 DEF NoSwitch

(* Without CONFIG_PREEMPT (the CONFIG_SCHED_COOPERATIVE build) ctx_switch     *)
(* always loads the context that the thread's last ctx_switch, or             *)
(* thread_create_named, stored: for any set of threads, intents and any       *)
(* nesting of preempt_disable.                                                *)
THEOREM CooperativeResumes == ~Preemptive /\ CtxSpec => []ResumesWhereItStopped
<1> SUFFICES ASSUME ~Preemptive PROVE CtxSpec => []ResumesWhereItStopped
  OBVIOUS
<1>1. CtxInit => CtxInv
  <2> SUFFICES ASSUME CtxInit PROVE CtxInv
    OBVIOUS
  <2>1. IInv /\ s_current = Boot /\ misresumed = {}
    BY InitIInv DEF CtxInit, Init
  <2>2. Exists = {Boot}
    BY SchedAssumption DEF CtxInit, Init, Exists, Created, AnyThread
  <2>3. saved \in [AnyThread -> SUBSET Contexts]
    BY DEF CtxInit
  <2> QED BY <2>1, <2>2, <2>3 DEF CtxInv
<1>2. CtxInv /\ [CtxNext]_<<vars, ctxVars>> => CtxInv'
  <2> SUFFICES ASSUME CtxInv, [CtxNext]_<<vars, ctxVars>> PROVE CtxInv'
    OBVIOUS
  <2>0. /\ IInv /\ s_current \in Exists /\ Exists \subseteq AnyThread
        /\ saved \in [AnyThread -> SUBSET Contexts]
    BY DEF CtxInv, IInv, TypeOK, OneRunning, Exists, Created, AnyThread
  <2>1. IInv'
    <3>1. [Next]_vars
      BY Zenon DEF CtxNext, thread_build_contexts, CoopSwitch, kernel_irq_entry, NoSwitch, Next
    <3> QED BY <2>0, <3>1, NextIInv
  <2>2. ASSUME NEW t \in Thread, thread_build_contexts(t)
        PROVE  CtxInv'
    <3>1. /\ s_current' = s_current /\ Created' = Created \cup {t}
          /\ saved' = [saved EXCEPT ![t] = Contexts] /\ misresumed' = misresumed
      BY <2>0, <2>2 DEF thread_build_contexts, thread_create_named, Created, CtxInv, IInv,
                        TypeOK, AnyThread
    <3>2. \A u \in Exists' : u # s_current' => "ctx" \in saved'[u]
      BY <2>0, <3>1 DEF CtxInv, Exists, Contexts, AnyThread
    <3> QED BY <2>0, <2>1, <3>1, <3>2, Zenon DEF CtxInv
  <2>3. CASE CoopSwitch
    <3>1. /\ s_current' = s_current \/ s_current' \in Created
          /\ Created' \subseteq Created
      BY <2>0, <2>3, SwitchExists DEF CoopSwitch
    <3>2. CASE s_current' = s_current
      BY <2>0, <2>1, <2>3, <3>1, <3>2
         DEF CoopSwitch, ctx_switch, SwitchContexts, ctxVars, CtxInv, Exists
    <3>3. CASE s_current' # s_current
      <4>1. "ctx" \in saved[s_current']
        BY <3>1, <3>3 DEF CtxInv, Exists
      <4>2. /\ misresumed' = misresumed
            /\ saved' = [saved EXCEPT ![s_current] = {"ctx"}, ![s_current'] = {}]
        BY <2>3, <3>3, <4>1 DEF CoopSwitch, ctx_switch, SwitchContexts
      <4>3. saved' \in [AnyThread -> SUBSET Contexts]
        BY <2>0, <4>2, Zenon DEF Contexts
      <4>4. \A u \in Exists' : u # s_current' => "ctx" \in saved'[u]
        BY <2>0, <3>1, <4>2 DEF CtxInv, Exists
      <4> QED BY <2>1, <4>2, <4>3, <4>4, Zenon DEF CtxInv
    <3> QED BY <3>2, <3>3
  <2>4. CASE kernel_irq_entry
    <3>1. s_current' = s_current /\ state' = state
      BY <2>4, CoopIrqStays DEF kernel_irq_entry
    <3>2. UNCHANGED ctxVars
      BY <2>4, <3>1 DEF kernel_irq_entry, IrqFrames, SwitchContexts
    <3> QED BY <2>1, <3>1, <3>2 DEF CtxInv, Exists, Created, ctxVars
  <2>5. CASE NoSwitch
    <3>1. s_current' = s_current /\ Created' = Created /\ UNCHANGED ctxVars
      BY <2>0, <2>5, NoSwitchStays
    <3> QED BY <2>1, <3>1 DEF CtxInv, Exists, ctxVars
  <2>6. CASE UNCHANGED <<vars, ctxVars>>
    BY <2>1, <2>6 DEF CtxInv, Exists, Created, vars, ctxVars
  <2> QED BY <2>2, <2>3, <2>4, <2>5, <2>6 DEF CtxNext
<1>3. CtxInv => ResumesWhereItStopped
  BY DEF CtxInv, ResumesWhereItStopped
<1> QED BY <1>1, <1>2, <1>3, PTL DEF CtxSpec
=============================================================================
