------------------------------ MODULE Endpoint ------------------------------
(***************************************************************************)
(* IPC endpoints (Kern/Kernel/ipc/endpoint.c) over the scheduler of Sched.   *)
(* Sections between irq_save and irq_restore are atomic; an interrupt may     *)
(* switch threads between any two of them.  An endpoint holds a doubly-linked *)
(* list of message objects and one slot for a waiting receiver.               *)
(*                                                                            *)
(* Left out: payload bytes (a tag stands for tag, len and data) and the paths *)
(* that return an error without touching anything: bad arguments, a handle    *)
(* the capability table refuses, and a closed endpoint (nothing sets closed). *)
(***************************************************************************)
EXTENDS Sched, Links, Null

CONSTANTS Endpoints, \* endpoint objects
          Msg,       \* objects of the ipc_msg slab cache
          MaxTag     \* bound on the number of messages sent

ASSUME EndpointAssumption ==
  /\ NULL \notin Msg \cup AnyThread \cup Endpoints
  /\ MaxTag \in Nat
  /\ IsFiniteSet(Msg)

VARIABLES
  q_head, q_tail,   \* first and last message of each endpoint, or NULL
  waiting_recv,     \* the receiver each endpoint will wake, or NULL
  next, prev, tag,  \* fields of the message objects
  pc,               \* where each thread is in the IPC code
  at,               \* the endpoint it works on
  m,                \* the message object it holds
  cache,            \* free objects of the slab cache
  last_tag,         \* tags handed to senders so far
  delivered,        \* how often each tag was copied out to a receiver
  missed            \* receivers whose wake came before they were blocked

listVars == <<q_head, q_tail, next, prev>>
ipcVars  == <<q_head, q_tail, waiting_recv, next, prev, tag, pc, at, m,
              cache, last_tag, delivered, missed>>

Tags == 1..MaxTag

EndpointInit ==
  /\ Init
  /\ q_head = [e \in Endpoints |-> NULL]
  /\ q_tail = [e \in Endpoints |-> NULL]
  /\ waiting_recv = [e \in Endpoints |-> NULL]
  /\ next = [x \in Msg |-> NULL]
  /\ prev = [x \in Msg |-> NULL]
  /\ tag = [x \in Msg |-> 0]
  /\ pc = [t \in Thread |-> "user"]
  /\ at = [t \in Thread |-> NULL]
  /\ m = [t \in Thread |-> NULL]
  /\ cache = Msg
  /\ last_tag = 0
  /\ delivered = [n \in Tags |-> 0]
  /\ missed = {}

(* The messages linked by nx from the head h. *)
WalkFrom(h, nx) == Follow(Cardinality(Msg), NULL, h, nx)

(* The queued messages of e. *)
Walk(e) == WalkFrom(q_head[e], next)

-----------------------------------------------------------------------------
(* Mutant: the first message of an empty list becomes its head only.          *)
push_without_tail(e, x) ==
  /\ next' = [next EXCEPT ![x] = NULL]
  /\ prev' = [prev EXCEPT ![x] = q_tail[e]]
  /\ q_head' = [q_head EXCEPT ![e] = IF q_tail[e] = NULL THEN x ELSE @]
  /\ q_tail' = q_tail

q_push_tail(e, x) ==
  LET tail == q_tail[e]
  IN  /\ prev' = [prev EXCEPT ![x] = tail]
      /\ next' = IF tail # NULL THEN [next EXCEPT ![x] = NULL, ![tail] = x]
                                ELSE [next EXCEPT ![x] = NULL]
      /\ q_head' = IF tail # NULL THEN q_head ELSE [q_head EXCEPT ![e] = x]
      /\ q_tail' = [q_tail EXCEPT ![e] = x]

(* Mutant: the tail is not cleared when the last message leaves. *)
pop_keeps_tail(e) ==
  LET x == q_head[e]
  IN  /\ q_head' = [q_head EXCEPT ![e] = next[x]]
      /\ next' = [next EXCEPT ![x] = NULL]
      /\ UNCHANGED <<q_tail, prev>>

(* q_pop_head on a non-empty list. *)
q_pop_head(e) ==
  LET x == q_head[e]
      n == next[x]
  IN  /\ q_head' = [q_head EXCEPT ![e] = n]
      /\ q_tail' = IF n # NULL THEN q_tail ELSE [q_tail EXCEPT ![e] = NULL]
      /\ next' = [next EXCEPT ![x] = NULL]
      /\ prev' = IF n # NULL THEN [prev EXCEPT ![x] = NULL, ![n] = NULL]
                             ELSE [prev EXCEPT ![x] = NULL]

-----------------------------------------------------------------------------
(* Steps of the running thread t.  Goto moves it inside the IPC code.         *)
Runs(t, where) == s_current = t /\ MayCall /\ pc[t] = where

Goto(t, where) == pc' = [pc EXCEPT ![t] = where]

(* ipc_send_cap up to irq_save: a fresh object, zeroed and filled.  An empty  *)
(* cache is a panic (ipc_msg_alloc), which ends the behaviour.                *)
ipc_msg_alloc(t, e) ==
  /\ Runs(t, "user")
  /\ last_tag < MaxTag
  /\ \E x \in cache :
       /\ cache' = cache \ {x}
       /\ m' = [m EXCEPT ![t] = x]
       /\ tag' = [tag EXCEPT ![x] = last_tag + 1]
       /\ next' = [next EXCEPT ![x] = NULL]
       /\ prev' = [prev EXCEPT ![x] = NULL]
  /\ last_tag' = last_tag + 1
  /\ at' = [at EXCEPT ![t] = e]
  /\ Goto(t, "send")
  /\ UNCHANGED <<vars, q_head, q_tail, waiting_recv, delivered, missed>>

(* Wake the registered receiver; sched_wake ignores one that is not blocked.  *)
WakeReceiver(e) ==
  LET w == waiting_recv[e]
  IN  IF w # NULL /\ state[w] = "BLOCKED"
      THEN sched_wake(w) /\ UNCHANGED missed
      ELSE UNCHANGED vars /\ missed' = missed \cup ({w} \ {NULL})

(* Mutants: the waiter is forgotten without a wake; it is woken and kept.     *)
send_without_wake(t) ==
  LET e == at[t]
  IN  /\ Runs(t, "send")
      /\ q_push_tail(e, m[t])
      /\ waiting_recv' = [waiting_recv EXCEPT ![e] = NULL]
      /\ m' = [m EXCEPT ![t] = NULL]
      /\ Goto(t, "user")
      /\ UNCHANGED <<vars, tag, at, cache, last_tag, delivered, missed>>

send_keeps_waiter(t) ==
  LET e == at[t]
  IN  /\ Runs(t, "send")
      /\ q_push_tail(e, m[t])
      /\ WakeReceiver(e)
      /\ m' = [m EXCEPT ![t] = NULL]
      /\ Goto(t, "user")
      /\ UNCHANGED <<waiting_recv, tag, at, cache, last_tag, delivered>>

(* The masked section of ipc_send_cap: queue the message, wake the receiver.  *)
ipc_send_cap(t) ==
  LET e == at[t]
  IN  /\ Runs(t, "send")
      /\ q_push_tail(e, m[t])
      /\ waiting_recv' = [waiting_recv EXCEPT ![e] = NULL]
      /\ WakeReceiver(e)
      /\ m' = [m EXCEPT ![t] = NULL]
      /\ Goto(t, "user")
      /\ UNCHANGED <<tag, at, cache, last_tag, delivered>>

(* Take the first message of e; it is copied out after irq_restore.           *)
TakeHead(t, e) ==
  /\ q_head[e] # NULL
  /\ q_pop_head(e)
  /\ m' = [m EXCEPT ![t] = q_head[e]]
  /\ Goto(t, "copy")
  /\ UNCHANGED <<waiting_recv, tag, cache, last_tag, delivered>>

(* One round of the loop of ipc_recv_cap under the mask: take a message, or   *)
(* give up because another thread waits, or register as the waiter.           *)
ipc_recv_cap(t, e) ==
  /\ \/ Runs(t, "user")
     \/ Runs(t, "recv") /\ at[t] = e
  /\ at' = [at EXCEPT ![t] = e]
  /\ \/ TakeHead(t, e)
     \/ /\ q_head[e] = NULL
        /\ waiting_recv[e] \notin {NULL, t}
        /\ Goto(t, "user")
        /\ UNCHANGED <<listVars, waiting_recv, tag, m, cache, last_tag, delivered>>
     \/ /\ q_head[e] = NULL
        /\ waiting_recv[e] \in {NULL, t}
        /\ waiting_recv' = [waiting_recv EXCEPT ![e] = t]
        /\ Goto(t, "block")
        /\ UNCHANGED <<listVars, tag, m, cache, last_tag, delivered>>
  /\ missed' = missed \ {t}
  /\ UNCHANGED vars

(* The call of sched_block_current after irq_restore.  It returns at once     *)
(* when no thread is ready; either way the loop is entered again.             *)
recv_block(t) ==
  /\ Runs(t, "block")
  /\ IF AllEmpty(ready) THEN UNCHANGED vars ELSE sched_block_current
  /\ Goto(t, "recv")
  /\ UNCHANGED <<listVars, waiting_recv, tag, at, m, cache, last_tag, delivered, missed>>

(* A try that finds the queue empty changes nothing.                          *)
ipc_try_recv_cap(t, e) ==
  /\ Runs(t, "user")
  /\ at' = [at EXCEPT ![t] = e]
  /\ TakeHead(t, e)
  /\ UNCHANGED <<vars, missed>>

(* Copy out and free, with interrupts enabled.                                *)
ipc_msg_free(t) ==
  /\ Runs(t, "copy")
  /\ delivered' = [delivered EXCEPT ![tag[m[t]]] = @ + 1]
  /\ cache' = cache \cup {m[t]}
  /\ m' = [m EXCEPT ![t] = NULL]
  /\ Goto(t, "user")
  /\ UNCHANGED <<vars, listVars, waiting_recv, tag, at, last_tag, missed>>

-----------------------------------------------------------------------------
(* Threads are created and admitted by whoever runs in user code; between IPC *)
(* calls a thread may yield or exit.                                          *)
InUserCode == \A t \in Thread : s_current = t => pc[t] = "user"

EndpointNext ==
  \/ \E t \in Thread :
       \/ \E e \in Endpoints : \/ ipc_msg_alloc(t, e)
                               \/ ipc_recv_cap(t, e)
                               \/ ipc_try_recv_cap(t, e)
       \/ ipc_send_cap(t)
       \/ recv_block(t)
       \/ ipc_msg_free(t)
  \/ /\ InUserCode
     /\ \/ yield
        \/ thread_exit
        \/ \E t \in Thread : \/ thread_create_named(t)
                             \/ state[t] = "READY" /\ sched_enqueue(t)
     /\ UNCHANGED ipcVars
  \/ /\ (\E over \in BOOLEAN : TimerIrq(over)) \/ OtherIrq
     /\ UNCHANGED ipcVars

EndpointSpec == EndpointInit /\ [][EndpointNext]_<<vars, ipcVars>>

-----------------------------------------------------------------------------
(* Links, waiters, program points and counters have the types of endpoint.h   *)
(* and ipc_message.h.                                                         *)
EndpointTypeOK ==
  /\ TypeOK
  /\ q_head \in [Endpoints -> Msg \cup {NULL}]
  /\ q_tail \in [Endpoints -> Msg \cup {NULL}]
  /\ waiting_recv \in [Endpoints -> Thread \cup {NULL}]
  /\ next \in [Msg -> Msg \cup {NULL}] /\ prev \in [Msg -> Msg \cup {NULL}]
  /\ tag \in [Msg -> 0..MaxTag]
  /\ pc \in [Thread -> {"user", "send", "recv", "block", "copy"}]
  /\ at \in [Thread -> Endpoints \cup {NULL}]
  /\ m \in [Thread -> Msg \cup {NULL}]
  /\ cache \subseteq Msg
  /\ last_tag \in 0..MaxTag
  /\ delivered \in [Tags -> Nat]
  /\ missed \subseteq Thread

(* The number of places where the message n is: linked in a queue, held by a  *)
(* sender or receiver, or delivered.                                          *)
Places(n) ==
  LET linked == {p \in Endpoints \X (1..Cardinality(Msg)) :
                   p[2] \in DOMAIN Walk(p[1]) /\ tag[Walk(p[1])[p[2]]] = n}
      held   == {t \in Thread : m[t] # NULL /\ tag[m[t]] = n}
  IN  Cardinality(linked) + Cardinality(held) + delivered[n]

(* A message is never lost and never delivered twice, whatever the            *)
(* interleaving of senders and receivers and however objects are reused.      *)
ExactlyOnce == \A n \in 1..last_tag : Places(n) = 1

(* A registered receiver implies an empty queue, and is a thread that is      *)
(* inside the loop of ipc_recv_cap on that endpoint: no send wakes a thread   *)
(* that has gone on to something else.                                        *)
WaiterIsWaiting ==
  \A e \in Endpoints : waiting_recv[e] # NULL =>
    /\ q_head[e] = NULL
    /\ pc[waiting_recv[e]] \in {"recv", "block"}
    /\ at[waiting_recv[e]] = e

(* A receiver sleeps only where the next send will wake it: "Queue empty:     *)
(* block until a sender wakes us" (endpoint.c).                               *)
NoLostWakeup ==
  \A t \in Thread : state[t] = "BLOCKED" =>
    waiting_recv[at[t]] = t /\ q_head[at[t]] = NULL

(* The only sends that fail to wake a sleeping receiver are those that come   *)
(* between its irq_restore and its sched_block_current: every other sleeper   *)
(* is registered on a queue that is still empty.                              *)
OnlyTheWindowLosesWakeups ==
  \A t \in Thread : state[t] = "BLOCKED" /\ t \notin missed =>
    waiting_recv[at[t]] = t /\ q_head[at[t]] = NULL

(* The linked lists implement FIFO channels. *)
Implemented == INSTANCE Channel WITH
  Endpoint <- Endpoints, Tag <- Tags,
  chan <- [e \in Endpoints |-> [k \in DOMAIN Walk(e) |-> tag[Walk(e)[k]]]]
ImplementsChannel == Implemented!Chan
=============================================================================
