----------------------------- MODULE FifoQueues -----------------------------
(***************************************************************************)
(* What the ready queues promise: one FIFO sequence per intent, each thread   *)
(* in at most one place.  RunQueueRing implements it with linked rings.       *)
(***************************************************************************)
EXTENDS ReadyQueues

CONSTANT Thread

VARIABLE ready

InitFifo == ready = EmptyQueues

Insert(i, t) ==
  /\ ~Queued(ready, t)
  /\ ready' = rq_insert_tail(ready, i, t)

Pop(i) ==
  /\ ready[i] # <<>>
  /\ ready' = rq_pop_head(ready, i)

Unlink(t) == ready' = rq_remove(ready, t)

NextFifo ==
  \/ \E i \in Intent : Pop(i) \/ \E t \in Thread : Insert(i, t)
  \/ \E t \in Thread : Unlink(t)

Fifo == InitFifo /\ [][NextFifo]_ready
=============================================================================
