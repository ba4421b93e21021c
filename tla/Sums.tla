--------------------------------- MODULE Sums ---------------------------------
(* Sums over finite sets, for the byte counts of the heap and of a task. *)
EXTENDS Integers, FiniteSetsExt

SumOver(f, S) == MapThenSumSet(LAMBDA x : f[x], S)
===============================================================================
