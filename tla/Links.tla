--------------------------------- MODULE Links ---------------------------------
(* Singly linked lists, as the message queues of endpoint.c and the queue of  *)
(* work_queue.c keep them: a head, and a link from each object to the next.   *)
EXTENDS Integers, Sequences, FiniteSets, Functions

(* The objects reached from the head, at most n of them; nil ends the list. *)
Follow(n, nil, head, next) ==
  LET at[k \in 1..n] ==
        IF k = 1 THEN head
        ELSE IF at[k-1] = nil THEN nil ELSE next[at[k-1]]
      len == Cardinality({k \in 1..n : at[k] # nil})
  IN  [k \in 1..len |-> at[k]]

(* The links h and nx spell out the sequence s of objects of S, whose last    *)
(* one is tl.                                                                 *)
Spells(S, nil, s, h, tl, nx) ==
  /\ s \in Seq(S)
  /\ IsInjective(s)
  /\ h = IF s = <<>> THEN nil ELSE s[1]
  /\ tl = IF s = <<>> THEN nil ELSE s[Len(s)]
  /\ \A k \in 1..Len(s) : nx[s[k]] = IF k = Len(s) THEN nil ELSE s[k + 1]
===============================================================================
