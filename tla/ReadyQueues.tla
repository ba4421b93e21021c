---------------------------- MODULE ReadyQueues ----------------------------
(***************************************************************************)
(* The ready queues of the scheduler (Kern/Kernel/sched/sched.c) as values: *)
(* one FIFO sequence of threads per scheduling intent, the operations of    *)
(* the rq_* functions on them, and the weighted choice of the next intent.  *)
(* RunQueueRing shows that the circular lists of the code implement these   *)
(* sequences.                                                               *)
(***************************************************************************)
EXTENDS Integers, Sequences, FiniteSetsExt, Functions

(* sched_intent_t, numbered as in intent.h. *)
INTERACTIVE == 0
LATENCY     == 1
THROUGHPUT  == 2
BACKGROUND  == 3
Intent      == 0..3

(* Mutant: the range test is off by one. *)
sanitize_off_by_one(raw) == IF raw <= BACKGROUND + 1 THEN raw ELSE BACKGROUND

(* Out-of-range intents are scheduled as background work. *)
sched_intent_sanitize(raw) == IF raw \in Intent THEN raw ELSE BACKGROUND

(* Timer ticks a thread may run before it is asked to reschedule. *)
sched_slice_for_intent(i) ==
  CASE i = INTERACTIVE -> 2
    [] i = LATENCY     -> 3
    [] i = THROUGHPUT  -> 5
    [] OTHER           -> 8

(* The weighted service order: 6 interactive, 4 latency, 2 throughput and   *)
(* 1 background slot in every round of 13.                                  *)
PatternLen == 13

(* Mutant: the last class has no slot of its own. *)
pattern_without_background ==
  [n \in 0..(PatternLen - 1) |->
     IF n < 7 THEN INTERACTIVE ELSE IF n < 11 THEN LATENCY ELSE THROUGHPUT]

k_pick_pattern ==
  [n \in 0..(PatternLen - 1) |->
     IF n < 6 THEN INTERACTIVE
     ELSE IF n < 10 THEN LATENCY
     ELSE IF n < 12 THEN THROUGHPUT ELSE BACKGROUND]

EmptyQueues == [i \in Intent |-> <<>>]

AllEmpty(rq) == \A i \in Intent : rq[i] = <<>>

(* A thread's rq_next link is non-NULL exactly while it is in some queue. *)
Queued(rq, t) == \E i \in Intent : t \in Range(rq[i])

(* Mutant: the link is made but the tail pointer is not advanced. *)
insert_without_tail(rq, i, t) == [rq EXCEPT ![i] = <<t>> \o @]

rq_insert_tail(rq, i, t) == [rq EXCEPT ![i] = Append(@, t)]

rq_pop_head(rq, i) == [rq EXCEPT ![i] = Tail(@)]

(* Position of the first occurrence of t in the sequence s. *)
FirstIndex(s, t) ==
  CHOOSE k \in DOMAIN s : s[k] = t /\ \A j \in 1..(k - 1) : s[j] # t

Unlinked(s, k) == SubSeq(s, 1, k - 1) \o SubSeq(s, k + 1, Len(s))

(* The scan visits the queues in intent order and unlinks the first hit. *)
rq_remove(rq, t) ==
  LET hit == {i \in Intent : t \in Range(rq[i])}
      i   == Min(hit)
  IN  IF hit = {} THEN rq
      ELSE [rq EXCEPT ![i] = Unlinked(@, FirstIndex(@, t))]

(* Offsets from the cursor at which the pattern names a non-empty queue. *)
PatternHits(rq, cursor) ==
  {n \in 0..(PatternLen - 1) : rq[k_pick_pattern[(cursor + n) % PatternLen]] # <<>>}

(* The class to serve and the new cursor: the first hit of the pattern, or    *)
(* the lowest non-empty class for a queue the pattern does not name.          *)
sched_pick_intent(rq, cursor) ==
  LET hits == PatternHits(rq, cursor)
      slot == (cursor + Min(hits)) % PatternLen
  IN  IF hits # {}
      THEN [intent |-> k_pick_pattern[slot], cursor |-> (slot + 1) % PatternLen]
      ELSE [intent |-> Min({i \in Intent : rq[i] # <<>>}), cursor |-> cursor]

(* sched_pick_next_locked with rq_pop_best_locked inlined: cur when nothing  *)
(* is ready (the cursor then stays), else the head of the picked queue.      *)
PickNext(rq, cursor, cur) ==
  IF AllEmpty(rq)
  THEN [next |-> cur, ready |-> rq, cursor |-> cursor]
  ELSE LET pick == sched_pick_intent(rq, cursor)
       IN  [next   |-> Head(rq[pick.intent]),
            ready  |-> rq_pop_head(rq, pick.intent),
            cursor |-> pick.cursor]
=============================================================================
