------------------------------- MODULE MCTask -------------------------------
(* TLC instance of Task: a contract with every limit, and one with an intent  *)
(* out of range, the default window and a limit only on writes.               *)
EXTENDS Task

MCContracts ==
  {[intent |-> LATENCY, window_ticks |-> 2, cpu_ticks_limit |-> 1,
    io_bytes_limit |-> [read |-> 10, write |-> 3], mem_bytes_limit |-> 3],
   [intent |-> 4, window_ticks |-> 0, cpu_ticks_limit |-> 0,
    io_bytes_limit |-> [read |-> 0, write |-> 9], mem_bytes_limit |-> 0]}
=============================================================================
