---------------------------- MODULE RunQueueRing ----------------------------
(***************************************************************************)
(* The representation of the ready queues in sched.c: per intent a circular  *)
(* singly-linked list through rq_next, known by its tail, so that            *)
(* tail->rq_next is the head.  rq_next is also the code's only record of     *)
(* whether a thread is queued (rq_insert_tail_locked, sched_set_thread_intent,*)
(* the asserts of yield and sched_irq_exit).                                 *)
(***************************************************************************)
EXTENDS ReadyQueues, Null

CONSTANT Thread

ASSUME RingAssumption == NULL \notin Thread /\ IsFiniteSet(Thread)

VARIABLES s_ready_tail, rq_next

ringVars == <<s_ready_tail, rq_next>>

RingInit ==
  /\ s_ready_tail = [i \in Intent |-> NULL]
  /\ rq_next = [t \in Thread |-> NULL]

(* The n-th node met when walking along the links nx from the node tail.      *)
NodeFrom(tail, nx) ==
  LET node[n \in 0..Cardinality(Thread)] ==
        IF n = 0 THEN tail
        ELSE IF node[n-1] = NULL THEN NULL ELSE nx[node[n-1]]
  IN  node

(* The number of steps after which the walk is back at the tail. *)
LenFrom(tail, nx) ==
  LET back == {n \in 1..Cardinality(Thread) : NodeFrom(tail, nx)[n] = tail}
  IN  IF tail = NULL \/ back = {} THEN 0 ELSE Min(back)

(* The ring of intent i: its nodes, its length, and its threads in the order  *)
(* they will be popped.                                                       *)
Node(i) == NodeFrom(s_ready_tail[i], rq_next)
RingLen(i) == LenFrom(s_ready_tail[i], rq_next)
RingFrom(tail, nx) == [n \in 1..LenFrom(tail, nx) |-> NodeFrom(tail, nx)[n]]
Ring(i) == RingFrom(s_ready_tail[i], rq_next)

-----------------------------------------------------------------------------
(* Mutant: a second thread is linked in but the tail stays. *)
insert_keeps_tail(i, t) ==
  LET tail == s_ready_tail[i]
  IN  /\ rq_next[t] = NULL
      /\ IF tail = NULL
         THEN rq_next' = [rq_next EXCEPT ![t] = t] /\ s_ready_tail' = [s_ready_tail EXCEPT ![i] = t]
         ELSE rq_next' = [rq_next EXCEPT ![t] = rq_next[tail], ![tail] = t] /\ UNCHANGED s_ready_tail

rq_insert_tail_locked(i, t) ==
  LET tail == s_ready_tail[i]
  IN  /\ rq_next[t] = NULL  \* a queued thread is a panic
      /\ rq_next' = IF tail = NULL THEN [rq_next EXCEPT ![t] = t]
                    ELSE [rq_next EXCEPT ![t] = rq_next[tail], ![tail] = t]
      /\ s_ready_tail' = [s_ready_tail EXCEPT ![i] = t]

rq_pop_head_intent_locked(i) ==
  LET tail == s_ready_tail[i]
      head == rq_next[tail]
  IN  /\ tail # NULL
      /\ s_ready_tail' = IF head = tail THEN [s_ready_tail EXCEPT ![i] = NULL]
                         ELSE s_ready_tail
      /\ rq_next' = IF head = tail THEN [rq_next EXCEPT ![head] = NULL]
                    ELSE [rq_next EXCEPT ![tail] = rq_next[head], ![head] = NULL]

(* Mutant: the unlinked node keeps its link. *)
remove_keeps_link(t) ==
  \E i \in Intent : \E n \in 1..RingLen(i) :
    LET prev == Node(i)[n-1]
    IN  /\ Node(i)[n] = t
        /\ rq_next' = [rq_next EXCEPT ![prev] = rq_next[t]]
        /\ s_ready_tail' = [s_ready_tail EXCEPT
                              ![i] = IF t = prev THEN NULL ELSE IF @ = t THEN prev ELSE @]

(* The scan stops at the first hit; a thread that is in no ring is left alone.*)
rq_remove_locked(t) ==
  \E i \in Intent : \E n \in 1..RingLen(i) :
    LET prev == Node(i)[n-1]
    IN  /\ Node(i)[n] = t
        /\ \A j \in 0..(i-1) : \A m \in 1..RingLen(j) : Node(j)[m] # t
        /\ \A m \in 1..(n-1) : Node(i)[m] # t
        /\ rq_next' = [rq_next EXCEPT ![prev] = rq_next[t], ![t] = NULL]
        /\ s_ready_tail' = [s_ready_tail EXCEPT
                              ![i] = IF t = prev THEN NULL ELSE IF @ = t THEN prev ELSE @]

RingNext ==
  \/ \E i \in Intent : \E t \in Thread : rq_insert_tail_locked(i, t)
  \/ \E i \in Intent : rq_pop_head_intent_locked(i)
  \/ \E t \in Thread : rq_remove_locked(t)

RingSpec == RingInit /\ [][RingNext]_ringVars

-----------------------------------------------------------------------------
(* Links and tails point to threads or are NULL, and rq_next is an exact      *)
(* record of being queued: it is NULL for precisely the threads that no ring  *)
(* holds - the single thread of a ring links to itself.                       *)
LinkMeansQueued ==
  /\ s_ready_tail \in [Intent -> Thread \cup {NULL}]
  /\ rq_next \in [Thread -> Thread \cup {NULL}]
  /\ \A t \in Thread : rq_next[t] # NULL <=> \E i \in Intent : t \in Range(Ring(i))

(* The rings implement FIFO queues: insertion at the tail, removal at the     *)
(* head and removal from the middle do to the walk of each ring what          *)
(* Append, Tail and Unlinked do to a sequence, and to no other ring.          *)
Abstract == INSTANCE FifoQueues WITH ready <- [i \in Intent |-> Ring(i)]
ImplementsFifo == Abstract!Fifo
=============================================================================
