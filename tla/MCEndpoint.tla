----------------------------- MODULE MCEndpoint -----------------------------
(* TLC instances of Endpoint: threads and message objects are interchangeable. *)
EXTENDS Endpoint, TLC

Symmetry == Permutations(Thread) \cup Permutations(Msg)
=============================================================================
