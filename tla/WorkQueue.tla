------------------------------- MODULE WorkQueue -------------------------------
(* The deferred work queue of work_queue.c: a linked list whose head the core *)
(* thread takes and to whose tail interrupt handlers append.  Both run with   *)
(* interrupts masked, so each is one step.                                    *)
EXTENDS Integers, Sequences, FiniteSets, Links, Null

CONSTANT Items

ASSUME ItemsAssumption == NULL \notin Items

workq_init == [head |-> NULL, tail |-> NULL, next |-> [i \in Items |-> NULL]]

workq_enqueue_from_irq(q, item) ==
  LET next == [q.next EXCEPT ![item] = NULL]
  IN IF q.tail # NULL
       THEN [q EXCEPT !.next = [next EXCEPT ![q.tail] = item], !.tail = item]
       ELSE [head |-> item, tail |-> item, next |-> next]

(* Mutant: taking the last item leaves the tail pointing at it. *)
workq_dequeue_keeps_tail(q) ==
  IF q.head = NULL THEN q
  ELSE [q EXCEPT !.head = q.next[q.head], !.next[q.head] = NULL]

(* The queue without its first item (q.head is what the call returns). *)
workq_dequeue(q) ==
  IF q.head = NULL THEN q
  ELSE [head |-> q.next[q.head],
        tail |-> IF q.next[q.head] = NULL THEN NULL ELSE q.tail,
        next |-> [q.next EXCEPT ![q.head] = NULL]]
===============================================================================
