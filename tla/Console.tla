-------------------------------- MODULE Console --------------------------------
(* The console path of the core thread: uart_driver_pump between the UART and *)
(* the two UART endpoints, and core_poll at their other end.  A message is    *)
(* its tag and what the properties need of its payload.                       *)
EXTENDS Integers, Sequences, FiniteSets

CONSTANTS
  RX_FIFO,        \* depth of the receive FIFO
  POLL_MAX,       \* events core_poll takes in one call (64)
  ClientCmds,     \* commands other holders of the endpoint may send
  MaxTyped        \* bound: characters typed

VARIABLES
  fifo,      \* characters in the UART's receive FIFO
  cmd, evt,  \* queues of the command and event endpoints
  con        \* [typed, lost, got, tx, sent]: ghosts of what was typed, overrun,
             \* handled and written; sent counts the clients' commands

(* Characters are numbered as they are typed; 0 stands for what clients write.*)
ASSUME ClientAssumption ==
  /\ Len(ClientCmds) \in Nat
  /\ \A k \in 1..Len(ClientCmds) : ClientCmds[k].tag = "WRITE" => ClientCmds[k].ch = 0

consoleVars == <<fifo, cmd, evt, con>>

ConsoleInit ==
  /\ fifo = <<>> /\ cmd = <<>> /\ evt = <<>>
  /\ con = [typed |-> 0, lost |-> {}, got |-> <<>>, tx |-> <<>>, sent |-> 0]

RxEvent(c) == [tag |-> "RX_EVENT", ch |-> c]
Write(c) == [tag |-> "WRITE", len |-> 1, ch |-> c]

(* The answers to the status that cap_dup may give (see CapTable). *)
StatusOf(cap_st) ==
  CASE cap_st = "CAP_OK" -> "OK"
    [] cap_st = "CAP_ERR_DENIED" -> "NO_RIGHTS"
    [] cap_st = "CAP_ERR_NO_MEM" -> "OUT_OF_MEMORY"
    [] OTHER -> "INVALID_ARG"

Answers(m) ==
  CASE m.tag = "QUERY_INTENTS" -> {<<[tag |-> "QUERY_INTENTS", status |-> "OK"]>>}
    [] m.tag = "OPEN_CONTRACT" /\ m.len >= 8 ->
         {<<[tag |-> "OPEN_CONTRACT", status |-> s]>> :
            s \in IF m.kind \in {"CMD", "EVT"}
                    THEN {StatusOf(c) : c \in {"CAP_OK", "CAP_ERR_DENIED", "CAP_ERR_NO_MEM",
                                               "CAP_ERR_INVALID"}}
                    ELSE {"INVALID_ARG"}}
    [] OTHER -> {<<>>}

(* One turn of the command loop of uart_driver_pump. *)
PumpCommand ==
  /\ cmd # <<>>
  /\ \E a \in Answers(Head(cmd)) : evt' = evt \o a
  /\ con' = IF Head(cmd).tag = "WRITE" /\ Head(cmd).len > 0
              THEN [con EXCEPT !.tx = Append(@, Head(cmd).ch)] ELSE con
  /\ cmd' = Tail(cmd)
  /\ UNCHANGED fifo

(* Mutant: a character is dropped when an event is still waiting. *)
PumpRxWhenEmpty ==
  /\ fifo # <<>>
  /\ evt' = IF evt = <<>> THEN <<RxEvent(Head(fifo))>> ELSE evt
  /\ fifo' = Tail(fifo)
  /\ UNCHANGED <<cmd, con>>

(* One turn of its receive loop. *)
PumpRx ==
  /\ fifo # <<>>
  /\ evt' = Append(evt, RxEvent(Head(fifo)))
  /\ fifo' = Tail(fifo)
  /\ UNCHANGED <<cmd, con>>

(* One event in core_poll: a character is handled and echoed, anything else   *)
(* is dropped.                                                                *)
PollEvent ==
  /\ evt # <<>>
  /\ evt' = Tail(evt)
  /\ IF Head(evt).tag = "RX_EVENT"
       THEN /\ con' = [con EXCEPT !.got = Append(@, Head(evt).ch)]
            /\ cmd' = Append(cmd, Write(Head(evt).ch))
       ELSE UNCHANGED <<con, cmd>>
  /\ UNCHANGED fifo

(* The user types the next character; a full FIFO overruns. *)
Type ==
  LET c == con.typed + 1
  IN /\ con.typed < MaxTyped
     /\ IF Len(fifo) < RX_FIFO
          THEN fifo' = Append(fifo, c) /\ con' = [con EXCEPT !.typed = c]
          ELSE fifo' = fifo /\ con' = [con EXCEPT !.typed = c, !.lost = @ \cup {c}]
     /\ UNCHANGED <<cmd, evt>>

ClientSends ==
  /\ con.sent < Len(ClientCmds)
  /\ cmd' = Append(cmd, ClientCmds[con.sent + 1])
  /\ con' = [con EXCEPT !.sent = @ + 1]
  /\ UNCHANGED <<fifo, evt>>

(* The typed characters in a queue, by their places. *)
RxIn(s) == [k \in {k \in DOMAIN s : s[k].tag = "RX_EVENT"} |-> s[k].ch]
WritesIn(s) == [k \in {k \in DOMAIN s : s[k].tag = "WRITE" /\ s[k].len > 0 /\ s[k].ch # 0} |-> s[k].ch]
Echoed(s) == [k \in {k \in DOMAIN s : s[k] # 0} |-> s[k]]

Rising(f) == \A j, k \in DOMAIN f : j < k => f[j] < f[k]
Before(f, g) == \A j \in DOMAIN f, k \in DOMAIN g : f[j] < g[k]
Held(f) == {f[k] : k \in DOMAIN f}

(* Every character that was not overrun in the FIFO is handled once and in    *)
(* the order typed, and echoed in that order, however the pump, core_poll's   *)
(* limit and the clients' commands interleave.                                *)
ConsoleInOrder ==
  /\ Rising(con.got) /\ Rising(RxIn(evt)) /\ Rising(fifo)
  /\ Before(con.got, RxIn(evt)) /\ Before(con.got, fifo) /\ Before(RxIn(evt), fifo)
  /\ Held(con.got) \cup Held(RxIn(evt)) \cup Held(fifo) = (1..con.typed) \ con.lost
  /\ Rising(Echoed(con.tx)) /\ Rising(WritesIn(cmd)) /\ Before(Echoed(con.tx), WritesIn(cmd))
  /\ Held(Echoed(con.tx)) \cup Held(WritesIn(cmd)) = Held(con.got)
===============================================================================
