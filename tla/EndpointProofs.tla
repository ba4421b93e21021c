---------------------------- MODULE EndpointProofs ----------------------------
(******************************************************************************)
(* The IPC endpoints, for any number of threads, endpoints, message objects   *)
(* and messages.                                                              *)
(*                                                                            *)
(* What the code keeps in links the invariant keeps in sequences: Lists says  *)
(* that q_head, q_tail and next spell out one injective sequence of objects   *)
(* per endpoint, no object in two of them; FollowIs shows that walking the    *)
(* links returns that sequence.                                               *)
(******************************************************************************)
EXTENDS Endpoint, SchedProofs

(* One well-formed list per endpoint, with no object in common. *)
Lists(Q, hd, tl, nx) ==
  /\ \A e \in Endpoints : Spells(Msg, NULL, Q[e], hd[e], tl[e], nx)
  /\ \A e, f \in Endpoints : e # f => Range(Q[e]) \cap Range(Q[f]) = {}

Walks == [e \in Endpoints |-> Walk(e)]

(* Every object is free, or linked in a list, or held by one thread. *)
InList(Q, x) == \E e \in Endpoints : x \in Range(Q[e])

Objects(Q, holds, free) ==
  /\ \A x \in Msg : x \in free <=> ~InList(Q, x) /\ \A t \in Thread : holds[t] # x
  /\ \A t \in Thread : ~InList(Q, holds[t])
  /\ \A t, u \in Thread : holds[t] = holds[u] /\ holds[t] # NULL => t = u

(* The tags of the objects in use are distinct, and are those of the messages *)
(* accepted and not yet delivered; the others were delivered once.            *)
TagsExact ==
  /\ \A x \in Msg \ cache : tag[x] \in 1..last_tag
  /\ \A x, y \in Msg \ cache : tag[x] = tag[y] => x = y
  /\ \A n \in Tags : delivered[n] = IF n <= last_tag /\ \A x \in Msg \ cache : tag[x] # n
                                    THEN 1 ELSE 0

(* What a thread holds and where it works follow from where it is in the code. *)
Control ==
  \A t \in Thread :
    /\ m[t] # NULL <=> pc[t] \in {"send", "copy"}
    /\ pc[t] # "user" => at[t] \in Endpoints
    /\ state[t] = "BLOCKED" => pc[t] = "recv"

(* A receiver that is about to sleep or sleeps is registered, unless a send   *)
(* has come in between.                                                       *)
Registered ==
  \A t \in Thread : pc[t] = "block" \/ state[t] = "BLOCKED" =>
    t \in missed \/ waiting_recv[at[t]] = t

IpcInv ==
  /\ EndpointTypeOK
  /\ Lists(Walks, q_head, q_tail, next)
  /\ Objects(Walks, m, cache)
  /\ TagsExact
  /\ Control
  /\ WaiterIsWaiting
  /\ Registered

EInv == IInv /\ IpcInv

-----------------------------------------------------------------------------
(* NULL is no object. *)
LEMMA NullMsg == NULL \notin Msg
  BY EndpointAssumption, Zenon

(* Walking every list of a well-formed set of lists returns its sequences. *)
LEMMA WalksOf ==
  ASSUME NEW Q \in [Endpoints -> Seq(Msg)], NEW hd, NEW tl, NEW nx, Lists(Q, hd, tl, nx)
  PROVE  [e \in Endpoints |-> WalkFrom(hd[e], nx)] = Q
<1>1. IsFiniteSet(Msg) /\ NULL \notin Msg /\ Cardinality(Msg) \in Nat
  BY EndpointAssumption, FS_CardinalityType, Zenon
<1>2. \A e \in Endpoints : WalkFrom(hd[e], nx) = Q[e]
  BY <1>1, FollowIs DEF Lists, WalkFrom
<1> QED
  BY <1>2, Zenon

(* Writes to the links of objects in no list leave the lists as they are. *)
LEMMA ListsFrame ==
  ASSUME NEW Q, NEW hd, NEW tl, NEW nx, Lists(Q, hd, tl, nx),
         NEW nx2, \A y : InList(Q, y) => nx2[y] = nx[y]
  PROVE  Lists(Q, hd, tl, nx2)
<1>1. ASSUME NEW e \in Endpoints PROVE Spells(Msg, NULL, Q[e], hd[e], tl[e], nx2)
  <2>1. Spells(Msg, NULL, Q[e], hd[e], tl[e], nx) /\ \A y \in Range(Q[e]) : nx2[y] = nx[y]
    BY Zenon DEF Lists, InList
  <2> QED
    BY <2>1, NullMsg, SpellsFrame, Zenon
<1> QED
  BY <1>1, Zenon DEF Lists

(* q_push_tail appends an object that is in no list. *)
LEMMA PushLists ==
  ASSUME NEW Q \in [Endpoints -> Seq(Msg)], Lists(Q, q_head, q_tail, next),
         EndpointTypeOK, NEW e \in Endpoints, NEW x \in Msg, ~InList(Q, x),
         q_push_tail(e, x)
  PROVE  LET Q2 == [Q EXCEPT ![e] = Append(@, x)]
         IN  /\ Q2 \in [Endpoints -> Seq(Msg)]
             /\ Lists(Q2, q_head', q_tail', next')
             /\ \A y : InList(Q2, y) <=> InList(Q, y) \/ y = x
<1> DEFINE Q2 == [Q EXCEPT ![e] = Append(@, x)]
<1>1. /\ Q2 \in [Endpoints -> Seq(Msg)]
      /\ Q2[e] = Append(Q[e], x)
      /\ \A f \in Endpoints : f # e => Q2[f] = Q[f]
  BY AppendMembers, Zenon
<1>2. Range(Q2[e]) = Range(Q[e]) \cup {x}
  BY <1>1, AppendMembers
<1> HIDE DEF Q2
<1>3. /\ next'[x] = NULL
      /\ q_tail[e] # NULL => next'[q_tail[e]] = x
      /\ \A y \in Msg : y # x /\ y # q_tail[e] => next'[y] = next[y]
  <2>1. q_tail[e] # NULL => q_tail[e] \in Range(Q[e]) /\ q_tail[e] \in Msg
    BY NullMsg, SpellsFacts DEF Lists
  <2>2. q_tail[e] # x
    BY <2>1, EndpointAssumption, Zenon DEF InList
  <2> QED
    BY <2>1, <2>2, EndpointAssumption, Zenon DEF q_push_tail, EndpointTypeOK
<1>4. /\ q_head'[e] = IF q_tail[e] # NULL THEN q_head[e] ELSE x
      /\ q_tail'[e] = x
      /\ \A f \in Endpoints : f # e => q_head'[f] = q_head[f] /\ q_tail'[f] = q_tail[f]
  BY Zenon DEF q_push_tail, EndpointTypeOK
<1>5. Spells(Msg, NULL, Q2[e], q_head'[e], q_tail'[e], next')
  <2>1. Spells(Msg, NULL, Q[e], q_head[e], q_tail[e], next) /\ x \notin Range(Q[e])
    BY Zenon DEF Lists, InList
  <2>2. \A y \in Range(Q[e]) : y \in Msg /\ y # x
    BY <2>1, MembersOfSeq, Zenon
  <2>3. \A y \in Range(Q[e]) : y # q_tail[e] => next'[y] = next[y]
    BY <1>3, <2>2, Zenon
  <2>4. Spells(Msg, NULL, Append(Q[e], x), q_head'[e], x, next')
    BY <1>3, <1>4, <2>1, <2>3, NullMsg, SpellsAppend
  <2> QED
    BY <1>1, <1>4, <2>4, Zenon
<1>6. ASSUME NEW f \in Endpoints, f # e
      PROVE  Spells(Msg, NULL, Q2[f], q_head'[f], q_tail'[f], next')
  <2>1. Spells(Msg, NULL, Q[f], q_head[f], q_tail[f], next)
    BY Zenon DEF Lists
  <2>2. q_tail[e] # NULL => q_tail[e] \in Range(Q[e])
    BY NullMsg, SpellsFacts, Zenon DEF Lists
  <2>3. \A y \in Range(Q[f]) : y \in Msg /\ y # x /\ y # NULL /\ y \notin Range(Q[e])
    BY <1>6, MembersOfSeq, EndpointAssumption DEF Lists, InList
  <2>4. \A y \in Range(Q[f]) : next'[y] = next[y]
    BY <1>3, <2>2, <2>3, Zenon
  <2>5. Spells(Msg, NULL, Q[f], q_head[f], q_tail[f], next')
    BY <2>1, <2>4, NullMsg, SpellsFrame, Zenon
  <2> QED
    BY <1>1, <1>4, <1>6, <2>5, Zenon
<1>7. \A f, g \in Endpoints : f # g => Range(Q2[f]) \cap Range(Q2[g]) = {}
  <2>1. \A f \in Endpoints : f # e => Range(Q2[f]) \cap Range(Q2[e]) = {}
    BY <1>1, <1>2, Zenon DEF Lists, InList
  <2>2. \A f, g \in Endpoints : f # e /\ g # e /\ f # g => Range(Q2[f]) \cap Range(Q2[g]) = {}
    BY <1>1, Zenon DEF Lists
  <2> QED
    BY <2>1, <2>2, Zenon
<1>8. \A y : InList(Q2, y) <=> InList(Q, y) \/ y = x
  BY <1>1, <1>2, Zenon DEF InList
<1> QED
  BY <1>1, <1>5, <1>6, <1>7, <1>8, Zenon DEF Lists, Q2

(* q_pop_head takes the first object off its list, and no other anywhere. *)
LEMMA PopLists ==
  ASSUME NEW Q \in [Endpoints -> Seq(Msg)], Lists(Q, q_head, q_tail, next),
         EndpointTypeOK, NEW e \in Endpoints, q_head[e] # NULL, q_pop_head(e)
  PROVE  LET Q2 == [Q EXCEPT ![e] = Tail(@)]
         IN  /\ Q2 \in [Endpoints -> Seq(Msg)]
             /\ Lists(Q2, q_head', q_tail', next')
             /\ \A y : InList(Q2, y) <=> InList(Q, y) /\ y # q_head[e]
             /\ InList(Q, q_head[e])
             /\ Q[e] # <<>> /\ q_head[e] = Head(Q[e])
<1> DEFINE Q2 == [Q EXCEPT ![e] = Tail(@)]
           x  == q_head[e]
<1>1. Spells(Msg, NULL, Q[e], x, q_tail[e], next) /\ x \in Msg
  BY Zenon DEF Lists, EndpointTypeOK
<1>2. /\ \A y \in Msg : y # x => next'[y] = next[y]
      /\ q_head'[e] = next[x]
      /\ q_tail'[e] = IF next[x] # NULL THEN q_tail[e] ELSE NULL
      /\ \A f \in Endpoints : f # e => q_head'[f] = q_head[f] /\ q_tail'[f] = q_tail[f]
  BY <1>1, Zenon DEF q_pop_head, EndpointTypeOK
<1>3. \A f \in Endpoints : \A y \in Range(Q[f]) : y \in Msg
  BY MembersOfSeq, Zenon
<1>4. /\ Q[e] # <<>> /\ x = Head(Q[e])
      /\ Spells(Msg, NULL, Tail(Q[e]), q_head'[e], q_tail'[e], next')
  <2> DEFINE nx2 == next'
             tl2 == q_tail'[e]
             h2  == q_head'[e]
  <2>1. /\ \A y \in Range(Q[e]) : y # x => nx2[y] = next[y]
        /\ tl2 = IF next[x] # NULL THEN q_tail[e] ELSE NULL
        /\ h2 = next[x]
    BY <1>2, <1>3, Zenon
  <2> HIDE DEF nx2, tl2, h2, x
  <2>2. /\ Q[e] # <<>> /\ x = Head(Q[e])
        /\ Spells(Msg, NULL, Tail(Q[e]), next[x], tl2, nx2)
    BY <1>1, <2>1, NullMsg, SpellsTail DEF x
  <2> QED
    BY <2>1, <2>2, Zenon DEF nx2, tl2, h2
<1>5. /\ x \in Range(Q[e])
      /\ Tail(Q[e]) \in Seq(Msg)
      /\ Range(Tail(Q[e])) = Range(Q[e]) \ {x}
  BY <1>1, <1>4, TailMembers DEF Spells
<1>6. /\ Q2 \in [Endpoints -> Seq(Msg)]
      /\ Q2[e] = Tail(Q[e])
      /\ \A f \in Endpoints : f # e => Q2[f] = Q[f]
  BY <1>5, Zenon
<1> HIDE DEF Q2, x
<1>7. ASSUME NEW f \in Endpoints, f # e
      PROVE  Spells(Msg, NULL, Q2[f], q_head'[f], q_tail'[f], next')
  <2>1. Spells(Msg, NULL, Q[f], q_head[f], q_tail[f], next)
    BY Zenon DEF Lists
  <2>2. \A y \in Range(Q[f]) : next'[y] = next[y]
    BY <1>2, <1>3, <1>5, <1>7, Zenon DEF Lists
  <2>3. Spells(Msg, NULL, Q[f], q_head[f], q_tail[f], next')
    BY <2>1, <2>2, NullMsg, SpellsFrame, Zenon
  <2> QED
    BY <1>2, <1>6, <1>7, <2>3, Zenon
<1>8. \A f, g \in Endpoints : f # g => Range(Q2[f]) \cap Range(Q2[g]) = {}
  BY <1>5, <1>6, Zenon DEF Lists
<1>9. \A y : InList(Q2, y) <=> InList(Q, y) /\ y # x
  BY <1>5, <1>6, Zenon DEF Lists, InList
<1>10. InList(Q, x)
  BY <1>5, Zenon DEF InList
<1> QED
  BY <1>4, <1>6, <1>7, <1>8, <1>9, <1>10, Zenon DEF Lists, Q2, x

-----------------------------------------------------------------------------
(* The walks of a state that satisfies the invariant are sequences. *)
LEMMA WalksType == ASSUME IpcInv PROVE Walks \in [Endpoints -> Seq(Msg)]
  BY Zenon DEF IpcInv, Lists, Spells, Walks

(* What is known of the running thread when it takes a step of the IPC code.  *)
LEMMA Running ==
  ASSUME IInv, IpcInv, NEW t \in Thread, NEW where, Runs(t, where)
  PROVE  /\ s_current = t /\ pc[t] = where
         /\ state[t] # "BLOCKED"
         /\ m[t] # NULL <=> where \in {"send", "copy"}
         /\ where # "user" => at[t] \in Endpoints
         /\ \A e \in Endpoints : waiting_recv[e] = t =>
              where \in {"recv", "block"} /\ at[t] = e /\ q_head[e] = NULL
<1>1. s_current = t /\ pc[t] = where /\ state[t] # "BLOCKED"
  BY Zenon DEF Runs, IInv, OneRunning
<1>2. t # NULL
  BY EndpointAssumption, Zenon DEF AnyThread
<1> QED
  BY <1>1, <1>2, Zenon DEF IpcInv, Control, WaiterIsWaiting

(* Lists and Objects in the next state follow from any sequences that the     *)
(* new links spell out.                                                       *)
LEMMA NextLists ==
  ASSUME NEW Q \in [Endpoints -> Seq(Msg)],
         Lists(Q, q_head', q_tail', next'), Objects(Q, m', cache')
  PROVE  /\ Walks' = Q
         /\ Lists(Walks, q_head, q_tail, next)'
         /\ Objects(Walks, m, cache)'
<1>1. Walks' = Q
  BY WalksOf DEF Walks, Walk
<1> QED
  BY <1>1, Zenon

(* Filling a fresh object changes no list; the object becomes the caller's,   *)
(* with a tag of its own.                                                     *)
LEMMA AllocIpcInv ==
  ASSUME IInv, IpcInv, NEW t \in Thread, NEW e \in Endpoints, ipc_msg_alloc(t, e)
  PROVE  IpcInv' /\ Walks' = Walks
<1> DEFINE Q == Walks
<1>1. /\ Q \in [Endpoints -> Seq(Msg)]
      /\ Lists(Q, q_head, q_tail, next) /\ Objects(Q, m, cache) /\ EndpointTypeOK
  BY WalksType, Zenon DEF IpcInv
<1>2. /\ s_current = t /\ pc[t] = "user" /\ m[t] = NULL /\ state[t] # "BLOCKED"
      /\ \A f \in Endpoints : waiting_recv[f] # t
  BY Running DEF ipc_msg_alloc
<1>3. PICK x \in cache :
         /\ cache' = cache \ {x}
         /\ m' = [m EXCEPT ![t] = x]
         /\ tag' = [tag EXCEPT ![x] = last_tag + 1]
         /\ next' = [next EXCEPT ![x] = NULL]
         /\ prev' = [prev EXCEPT ![x] = NULL]
  BY Zenon DEF ipc_msg_alloc
<1>4. /\ last_tag < MaxTag /\ last_tag' = last_tag + 1
      /\ at' = [at EXCEPT ![t] = e]
      /\ pc' = [pc EXCEPT ![t] = "send"]
      /\ UNCHANGED <<vars, q_head, q_tail, waiting_recv, delivered, missed>>
  BY Zenon DEF ipc_msg_alloc, Goto
<1>5. x \in Msg /\ ~InList(Q, x) /\ \A u \in Thread : m[u] # x
  BY <1>1, <1>3, Zenon DEF Objects, EndpointTypeOK
<1> HIDE DEF Q
<1>6. EndpointTypeOK'
  BY <1>1, <1>3, <1>4, <1>5, EndpointAssumption DEF EndpointTypeOK, TypeOK, vars, Created
<1>7. Lists(Q, q_head', q_tail', next')
  <2>1. \A y : InList(Q, y) => next'[y] = next[y]
    <3>1. \A y : InList(Q, y) => y \in Msg
      BY <1>1, MembersOfSeq, Zenon DEF InList
    <3> QED
      BY <1>1, <1>3, <1>5, <3>1, Zenon DEF EndpointTypeOK
  <2>2. Lists(Q, q_head, q_tail, next')
    BY <1>1, <2>1, ListsFrame, Zenon
  <2> QED
    BY <1>4, <2>2, Zenon
<1>8. Objects(Q, m', cache')
  <2>1. m'[t] = x /\ \A u \in Thread : u # t => m'[u] = m[u]
    BY <1>1, <1>3, Zenon DEF EndpointTypeOK
  <2>2. ASSUME NEW y \in Msg
        PROVE  y \in cache' <=> ~InList(Q, y) /\ \A u \in Thread : m'[u] # y
    BY <1>1, <1>2, <1>3, <1>5, <2>1, EndpointAssumption DEF Objects
  <2> QED
    BY <1>1, <1>2, <1>5, <2>1, <2>2 DEF Objects
<1>9. TagsExact'
  <2>1. Msg \ cache' = (Msg \ cache) \cup {x} /\ x \notin Msg \ cache
    BY <1>3, <1>5, Zenon
  <2>2. /\ tag'[x] = last_tag + 1
        /\ \A y \in Msg \ cache : tag'[y] = tag[y] /\ tag[y] \in 1..last_tag
    BY <1>1, <1>3, <1>5 DEF EndpointTypeOK, IpcInv, TagsExact
  <2>3. last_tag \in Nat
    BY <1>1, EndpointAssumption DEF EndpointTypeOK
  <2>4. \A y \in Msg \ cache' : tag'[y] \in 1..last_tag'
    BY <1>4, <2>1, <2>2, <2>3
  <2>5. \A y, z \in Msg \ cache' : tag'[y] = tag'[z] => y = z
    BY <2>1, <2>2, <2>3 DEF IpcInv, TagsExact
  <2>6. ASSUME NEW n \in Tags
        PROVE  delivered'[n] = IF n <= last_tag' /\ \A y \in Msg \ cache' : tag'[y] # n
                               THEN 1 ELSE 0
    <3>1. delivered'[n] = delivered[n] /\ n \in Nat
      BY <1>4 DEF Tags
    <3>2. CASE n = last_tag + 1
      BY <1>4, <2>1, <2>2, <2>3, <3>1, <3>2 DEF IpcInv, TagsExact
    <3>3. CASE n # last_tag + 1
      <4>1. n <= last_tag' <=> n <= last_tag
        BY <1>4, <2>3, <3>1, <3>3
      <4>2. (\A y \in Msg \ cache' : tag'[y] # n) <=> (\A y \in Msg \ cache : tag[y] # n)
        BY <2>1, <2>2, <3>3, Zenon
      <4> QED
        BY <3>1, <4>1, <4>2, Zenon DEF IpcInv, TagsExact
    <3> QED
      BY <3>2, <3>3, Zenon
  <2> QED
    BY <2>4, <2>5, <2>6, Zenon DEF TagsExact
<1>10. Control'
  BY <1>1, <1>2, <1>3, <1>4, <1>5, EndpointAssumption, Zenon
     DEF Control, IpcInv, EndpointTypeOK, vars
<1>11. WaiterIsWaiting'
  BY <1>1, <1>2, <1>4 DEF WaiterIsWaiting, IpcInv, EndpointTypeOK
<1>12. Registered'
  BY <1>1, <1>2, <1>4, Zenon DEF Registered, IpcInv, EndpointTypeOK, vars
<1>13. /\ Walks' = Q
       /\ Lists(Walks, q_head, q_tail, next)'
       /\ Objects(Walks, m, cache)'
  BY <1>1, <1>7, <1>8, NextLists, Zenon
<1> QED
  BY <1>6, <1>9, <1>10, <1>11, <1>12, <1>13, Zenon DEF IpcInv, Q

(* What WakeReceiver does: the registered receiver is not asleep afterwards,  *)
(* and it has missed the wake if it was about to sleep.                       *)
LEMMA WakeEffect ==
  ASSUME IInv, IpcInv, NEW e \in Endpoints, WakeReceiver(e)
  PROVE  /\ \A u \in Thread : state'[u] = "BLOCKED" => state[u] = "BLOCKED" /\ u # waiting_recv[e]
         /\ missed \subseteq missed' /\ missed' \subseteq Thread
         /\ waiting_recv[e] # NULL /\ pc[waiting_recv[e]] = "block" => waiting_recv[e] \in missed'
         /\ [Next]_vars
<1> DEFINE w == waiting_recv[e]
<1>1. w \in Thread \cup {NULL} /\ state \in [AnyThread -> ThreadState] /\ missed \subseteq Thread
  BY Zenon DEF IpcInv, EndpointTypeOK, TypeOK
<1>2. CASE w # NULL /\ state[w] = "BLOCKED"
  <2>1. sched_wake(w) /\ UNCHANGED missed /\ w \in Thread
    BY <1>1, <1>2, Zenon DEF WakeReceiver
  <2>2. pc[w] = "recv"
    BY <1>2, <2>1, Zenon DEF IpcInv, Control
  <2>3. Next
    BY <2>1, Zenon DEF Next
  <2> HIDE DEF w
  <2>4. \A u \in Thread : state'[u] = "BLOCKED" => state[u] = "BLOCKED" /\ u # w
    BY <1>1, <2>1, Zenon DEF sched_wake, AnyThread
  <2> QED
    BY <1>1, <2>1, <2>2, <2>3, <2>4, Zenon DEF w
<1>3. CASE ~(w # NULL /\ state[w] = "BLOCKED")
  <2>1. UNCHANGED vars /\ missed' = missed \cup ({w} \ {NULL})
    BY <1>3, Zenon DEF WakeReceiver
  <2>2. state' = state
    BY <2>1, Zenon DEF vars
  <2>3. \A u \in Thread : u # NULL
    BY EndpointAssumption, Zenon DEF AnyThread
  <2> HIDE DEF w
  <2> QED
    BY <1>1, <1>3, <2>1, <2>2, <2>3, Zenon DEF w
<1> QED
  BY <1>2, <1>3, Zenon

(* Queueing a message moves it from its sender to the end of one list, and    *)
(* clears the registration of the receiver it wakes.                          *)
LEMMA SendIpcInv ==
  ASSUME IInv, TypeOK', IpcInv, NEW t \in Thread, ipc_send_cap(t)
  PROVE  /\ IpcInv'
         /\ at[t] \in Endpoints /\ m[t] \in Msg \ cache
         /\ Walks' = [Walks EXCEPT ![at[t]] = Append(@, m[t])]
<1> DEFINE Q == Walks
           e == at[t]
           x == m[t]
           Q2 == [Q EXCEPT ![e] = Append(@, x)]
<1>1. /\ Q \in [Endpoints -> Seq(Msg)]
      /\ Lists(Q, q_head, q_tail, next) /\ Objects(Q, m, cache) /\ EndpointTypeOK
  BY WalksType, Zenon DEF IpcInv
<1>2. /\ s_current = t /\ pc[t] = "send" /\ m[t] # NULL /\ state[t] # "BLOCKED"
      /\ e \in Endpoints
      /\ \A f \in Endpoints : waiting_recv[f] # t
  BY Running, Zenon DEF ipc_send_cap
<1>3. /\ q_push_tail(e, x)
      /\ waiting_recv' = [waiting_recv EXCEPT ![e] = NULL]
      /\ WakeReceiver(e)
      /\ m' = [m EXCEPT ![t] = NULL]
      /\ pc' = [pc EXCEPT ![t] = "user"]
      /\ UNCHANGED <<tag, at, cache, last_tag, delivered>>
  BY Zenon DEF ipc_send_cap, Goto
<1>4. x \in Msg /\ ~InList(Q, x) /\ x \notin cache
  BY <1>1, <1>2, Zenon DEF Objects, EndpointTypeOK
<1>5. /\ \A u \in Thread : state'[u] = "BLOCKED" =>
           state[u] = "BLOCKED" /\ u # waiting_recv[e]
      /\ missed \subseteq missed' /\ missed' \subseteq Thread
      /\ waiting_recv[e] # NULL /\ pc[waiting_recv[e]] = "block" => waiting_recv[e] \in missed'
  BY <1>2, <1>3, WakeEffect, Zenon
<1> HIDE DEF Q, e, x
<1>6. EndpointTypeOK'
  <2>1. /\ q_head' \in [Endpoints -> Msg \cup {NULL}]
        /\ q_tail' \in [Endpoints -> Msg \cup {NULL}]
        /\ next' \in [Msg -> Msg \cup {NULL}]
        /\ prev' \in [Msg -> Msg \cup {NULL}]
    BY <1>1, <1>2, <1>3, <1>4, Zenon DEF EndpointTypeOK, q_push_tail
  <2>2. /\ waiting_recv' \in [Endpoints -> Thread \cup {NULL}]
        /\ m' \in [Thread -> Msg \cup {NULL}]
        /\ pc' \in [Thread -> {"user", "send", "recv", "block", "copy"}]
    BY <1>1, <1>3, Zenon DEF EndpointTypeOK
  <2> QED
    BY <1>1, <1>3, <1>5, <2>1, <2>2, Zenon DEF EndpointTypeOK
<1>7. /\ Q2 \in [Endpoints -> Seq(Msg)]
      /\ Lists(Q2, q_head', q_tail', next')
      /\ \A y : InList(Q2, y) <=> InList(Q, y) \/ y = x
  BY <1>1, <1>2, <1>3, <1>4, PushLists, Zenon
<1> HIDE DEF Q2
<1>8. Objects(Q2, m', cache')
  <2>1. m'[t] = NULL /\ \A u \in Thread : u # t => m'[u] = m[u]
    BY <1>1, <1>3, Zenon DEF EndpointTypeOK
  <2>2. cache' = cache /\ m[t] = x /\ NULL \notin Msg
    BY <1>3, EndpointAssumption, Zenon DEF x
  <2>3. ASSUME NEW y \in Msg
        PROVE  y \in cache' <=> ~InList(Q2, y) /\ \A u \in Thread : m'[u] # y
    BY <1>1, <1>4, <1>7, <2>1, <2>2, Zenon DEF Objects
  <2>4. ~InList(Q2, NULL)
    BY <1>7, <2>2, MembersOfSeq, Zenon DEF InList
  <2>5. \A u \in Thread : u # t => m[u] # x
    BY <1>1, <1>2, <2>2, Zenon DEF Objects
  <2>6. \A u \in Thread : ~InList(Q2, m'[u])
    BY <1>1, <1>7, <2>1, <2>4, <2>5, Zenon DEF Objects
  <2> QED
    BY <1>1, <2>1, <2>3, <2>6 DEF Objects
<1>9. TagsExact'
  BY <1>3, Zenon DEF TagsExact, IpcInv
<1>10. Control'
  BY <1>1, <1>2, <1>3, <1>5, Zenon DEF Control, IpcInv, EndpointTypeOK
<1>11. WaiterIsWaiting'
  <2>1. \A f \in Endpoints : f # e => q_head'[f] = q_head[f] /\ waiting_recv'[f] = waiting_recv[f]
    BY <1>1, <1>3, Zenon DEF q_push_tail, EndpointTypeOK
  <2>2. waiting_recv'[e] = NULL /\ \A u \in Thread : u # t => pc'[u] = pc[u] /\ at'[u] = at[u]
    BY <1>1, <1>2, <1>3, Zenon DEF EndpointTypeOK
  <2>3. \A f \in Endpoints : waiting_recv[f] \in Thread \cup {NULL}
    BY <1>1, Zenon DEF EndpointTypeOK
  <2> QED
    BY <1>2, <2>1, <2>2, <2>3 DEF WaiterIsWaiting, IpcInv
<1>12. Registered'
  <2> SUFFICES ASSUME NEW u \in Thread, pc'[u] = "block" \/ state'[u] = "BLOCKED", u \notin missed'
               PROVE  waiting_recv'[at'[u]] = u
    BY Zenon DEF Registered
  <2>1. u # t /\ pc'[u] = pc[u] /\ at'[u] = at[u]
    BY <1>1, <1>2, <1>3, <1>5, Zenon DEF EndpointTypeOK
  <2>2. pc[u] = "block" \/ state[u] = "BLOCKED"
    BY <1>5, <2>1, Zenon
  <2>3. waiting_recv[at[u]] = u /\ at[u] \in Endpoints
    BY <1>5, <2>2, Zenon DEF IpcInv, Registered, Control
  <2>4. u # NULL /\ u # waiting_recv[e]
    BY <1>5, <2>1, EndpointAssumption, Zenon DEF AnyThread
  <2> QED
    BY <1>1, <1>3, <2>1, <2>3, <2>4, Zenon DEF EndpointTypeOK
<1>13. /\ Walks' = Q2
       /\ Lists(Walks, q_head, q_tail, next)'
       /\ Objects(Walks, m, cache)'
  BY <1>7, <1>8, NextLists, Zenon
<1> QED
  BY <1>2, <1>4, <1>6, <1>9, <1>10, <1>11, <1>12, <1>13, Zenon DEF IpcInv, Q, Q2, e, x

(* Taking the first message moves it from its list to the receiver, whether   *)
(* in ipc_recv_cap or in ipc_try_recv_cap.                                    *)
LEMMA TakeIpcInv ==
  ASSUME IInv, IpcInv, NEW t \in Thread, NEW e \in Endpoints,
         Runs(t, "user") \/ (Runs(t, "recv") /\ at[t] = e),
         at' = [at EXCEPT ![t] = e], TakeHead(t, e),
         missed' \in {missed, missed \ {t}}, UNCHANGED vars
  PROVE  /\ IpcInv'
         /\ Walks[e] # <<>>
         /\ Walks' = [Walks EXCEPT ![e] = Tail(@)]
<1> DEFINE Q == Walks
           x == q_head[e]
           Q2 == [Q EXCEPT ![e] = Tail(@)]
<1>1. /\ Q \in [Endpoints -> Seq(Msg)]
      /\ Lists(Q, q_head, q_tail, next) /\ Objects(Q, m, cache) /\ EndpointTypeOK
  BY WalksType, Zenon DEF IpcInv
<1>2. /\ q_head[e] # NULL
      /\ q_pop_head(e)
      /\ m' = [m EXCEPT ![t] = x]
      /\ pc' = [pc EXCEPT ![t] = "copy"]
      /\ UNCHANGED <<waiting_recv, tag, cache, last_tag, delivered>>
      /\ state' = state
  BY Zenon DEF TakeHead, Goto, vars
<1>3. /\ s_current = t /\ m[t] = NULL /\ state[t] # "BLOCKED" /\ pc[t] \in {"user", "recv"}
      /\ \A f \in Endpoints : waiting_recv[f] # t
  <2>1. CASE Runs(t, "user")
    BY <2>1, Running
  <2>2. CASE Runs(t, "recv") /\ at[t] = e
    BY <1>2, <2>2, Running, Zenon
  <2> QED
    BY <2>1, <2>2, Zenon
<1>4. x \in Msg
  BY <1>1, <1>2, Zenon DEF EndpointTypeOK
<1>5. /\ Q2 \in [Endpoints -> Seq(Msg)]
      /\ Lists(Q2, q_head', q_tail', next')
      /\ \A y : InList(Q2, y) <=> InList(Q, y) /\ y # x
      /\ InList(Q, x)
      /\ Q[e] # <<>>
  BY <1>1, <1>2, PopLists, Zenon
<1> HIDE DEF Q, x, Q2
<1>6. EndpointTypeOK'
  <2>1. /\ q_head' \in [Endpoints -> Msg \cup {NULL}]
        /\ q_tail' \in [Endpoints -> Msg \cup {NULL}]
        /\ next' \in [Msg -> Msg \cup {NULL}]
        /\ prev' \in [Msg -> Msg \cup {NULL}]
    BY <1>1, <1>2, <1>4, Zenon DEF EndpointTypeOK, q_pop_head, x
  <2>2. /\ m' \in [Thread -> Msg \cup {NULL}]
        /\ pc' \in [Thread -> {"user", "send", "recv", "block", "copy"}]
        /\ at' \in [Thread -> Endpoints \cup {NULL}]
        /\ missed' \subseteq Thread
    BY <1>1, <1>2, <1>4, Zenon DEF EndpointTypeOK
  <2>3. TypeOK'
    BY <1>1, Zenon DEF EndpointTypeOK, TypeOK, vars
  <2> QED
    BY <1>1, <1>2, <2>1, <2>2, <2>3, Zenon DEF EndpointTypeOK
<1>7. Objects(Q2, m', cache')
  <2>1. m'[t] = x /\ \A u \in Thread : u # t => m'[u] = m[u]
    BY <1>1, <1>2, Zenon DEF EndpointTypeOK
  <2>2. cache' = cache /\ NULL \notin Msg
    BY <1>2, EndpointAssumption, Zenon
  <2>3. ASSUME NEW y \in Msg
        PROVE  y \in cache' <=> ~InList(Q2, y) /\ \A u \in Thread : m'[u] # y
    <3>1. CASE y = x
      BY <1>1, <1>5, <2>1, <2>2, <3>1, Zenon DEF Objects
    <3>2. CASE y # x
      <4>1. (\A u \in Thread : m'[u] # y) <=> (\A u \in Thread : m[u] # y)
        BY <1>3, <2>1, <2>2, <3>2, Zenon
      <4> QED
        BY <1>1, <1>5, <2>2, <3>2, <4>1, Zenon DEF Objects
    <3> QED
      BY <3>1, <3>2, Zenon
  <2>4. \A u \in Thread : ~InList(Q2, m'[u])
    BY <1>1, <1>5, <2>1, Zenon DEF Objects
  <2>5. \A u \in Thread : u # t => m[u] # x
    BY <1>1, <1>5 DEF Objects
  <2> QED
    BY <1>1, <2>1, <2>3, <2>4, <2>5 DEF Objects
<1>8. TagsExact'
  BY <1>2, Zenon DEF TagsExact, IpcInv
<1>9. Control'
  BY <1>1, <1>2, <1>3, <1>4, EndpointAssumption, Zenon DEF Control, IpcInv, EndpointTypeOK
<1>10. WaiterIsWaiting'
  <2>1. \A f \in Endpoints : f # e => q_head'[f] = q_head[f]
    BY <1>1, <1>2, Zenon DEF q_pop_head, EndpointTypeOK
  <2>2. waiting_recv[e] = NULL
    BY <1>2, Zenon DEF IpcInv, WaiterIsWaiting
  <2>3. \A f \in Endpoints : waiting_recv[f] \in Thread \cup {NULL}
    BY <1>1, Zenon DEF EndpointTypeOK
  <2>4. \A u \in Thread : u # t => pc'[u] = pc[u] /\ at'[u] = at[u]
    BY <1>1, <1>2, Zenon DEF EndpointTypeOK
  <2> QED
    BY <1>2, <1>3, <2>1, <2>2, <2>3, <2>4 DEF WaiterIsWaiting, IpcInv
<1>11. Registered'
  BY <1>1, <1>2, <1>3, Zenon DEF Registered, IpcInv, EndpointTypeOK
<1>12. /\ Walks' = Q2
       /\ Lists(Walks, q_head, q_tail, next)'
       /\ Objects(Walks, m, cache)'
  BY <1>5, <1>7, NextLists, Zenon
<1> QED
  BY <1>5, <1>6, <1>8, <1>9, <1>10, <1>11, <1>12, Zenon DEF IpcInv, Q, Q2

(* A step that leaves links, objects and tags alone leaves what is said of    *)
(* them alone.                                                                *)
LEMMA SameLists ==
  ASSUME IpcInv, UNCHANGED <<listVars, tag, m, cache, last_tag, delivered>>
  PROVE  /\ Walks' = Walks
         /\ Lists(Walks, q_head, q_tail, next)'
         /\ Objects(Walks, m, cache)'
         /\ TagsExact'
<1>1. Walks' = Walks
  BY Zenon DEF Walks, Walk, listVars
<1>2. Lists(Walks, q_head', q_tail', next') /\ Objects(Walks, m', cache')
  BY Zenon DEF IpcInv, listVars
<1> QED
  BY <1>1, <1>2, Zenon DEF TagsExact, IpcInv

(* A round of ipc_recv_cap on an empty queue: the thread gives up because     *)
(* another is registered, or registers itself.                                *)
LEMMA WaitIpcInv ==
  ASSUME IInv, IpcInv, NEW t \in Thread, NEW e \in Endpoints,
         Runs(t, "user") \/ (Runs(t, "recv") /\ at[t] = e),
         at' = [at EXCEPT ![t] = e],
         q_head[e] = NULL,
         \/ /\ waiting_recv[e] \notin {NULL, t}
            /\ Goto(t, "user")
            /\ UNCHANGED waiting_recv
         \/ /\ waiting_recv[e] \in {NULL, t}
            /\ waiting_recv' = [waiting_recv EXCEPT ![e] = t]
            /\ Goto(t, "block"),
         UNCHANGED <<listVars, tag, m, cache, last_tag, delivered>>,
         missed' = missed \ {t}, UNCHANGED vars
  PROVE  IpcInv' /\ Walks' = Walks
<1>1. EndpointTypeOK /\ state' = state /\ q_head' = q_head /\ m' = m
  BY Zenon DEF IpcInv, vars, listVars
<1>2. /\ s_current = t /\ m[t] = NULL /\ state[t] # "BLOCKED" /\ pc[t] \in {"user", "recv"}
      /\ \A f \in Endpoints : waiting_recv[f] = t => f = e /\ pc[t] = "recv"
  <2>1. CASE Runs(t, "user")
    BY <2>1, Running
  <2>2. CASE Runs(t, "recv") /\ at[t] = e
    BY <2>2, Running, Zenon
  <2> QED
    BY <2>1, <2>2, Zenon
<1>3. /\ at'[t] = e
      /\ \A u \in Thread : u # t => pc'[u] = pc[u] /\ at'[u] = at[u]
      /\ \A f \in Endpoints : f # e => waiting_recv'[f] = waiting_recv[f]
      /\ \/ /\ waiting_recv[e] \notin {NULL, t}
            /\ pc'[t] = "user"
            /\ waiting_recv' = waiting_recv
         \/ /\ waiting_recv[e] \in {NULL, t}
            /\ pc'[t] = "block"
            /\ waiting_recv'[e] = t
  BY <1>1, Zenon DEF EndpointTypeOK, Goto
<1>4. EndpointTypeOK'
  <2>1. /\ waiting_recv' \in [Endpoints -> Thread \cup {NULL}]
        /\ pc' \in [Thread -> {"user", "send", "recv", "block", "copy"}]
        /\ at' \in [Thread -> Endpoints \cup {NULL}]
        /\ missed' \subseteq Thread
    BY <1>1 DEF EndpointTypeOK, Goto
  <2>2. TypeOK'
    BY <1>1, Zenon DEF EndpointTypeOK, TypeOK, vars
  <2> QED
    BY <1>1, <2>1, <2>2, Zenon DEF EndpointTypeOK, listVars
<1>5. Control'
  BY <1>1, <1>2, <1>3, ZenonT(30) DEF Control, IpcInv
<1>6. WaiterIsWaiting'
  <2>1. \A f \in Endpoints : waiting_recv[f] \in Thread \cup {NULL}
    BY <1>1, Zenon DEF EndpointTypeOK
  <2> QED
    BY <1>1, <1>2, <1>3, <2>1 DEF WaiterIsWaiting, IpcInv
<1>7. Registered'
  <2> SUFFICES ASSUME NEW u \in Thread, pc'[u] = "block" \/ state'[u] = "BLOCKED", u \notin missed'
               PROVE  waiting_recv'[at'[u]] = u
    BY Zenon DEF Registered
  <2>1. CASE u = t
    BY <1>1, <1>2, <1>3, <2>1, Zenon
  <2>2. CASE u # t
    <3>1. waiting_recv[at[u]] = u /\ at[u] \in Endpoints /\ u # NULL
      BY <1>1, <1>3, <2>2, EndpointAssumption, Zenon DEF IpcInv, Registered, Control, AnyThread
    <3> QED
      BY <1>3, <2>2, <3>1, Zenon
  <2> QED
    BY <2>1, <2>2, Zenon
<1> QED
  BY <1>4, <1>5, <1>6, <1>7, SameLists, Zenon DEF IpcInv

(* The thread that blocks after registering is registered still, or has       *)
(* missed its wake.                                                           *)
LEMMA BlockIpcInv ==
  ASSUME IInv, TypeOK', IpcInv, NEW t \in Thread, recv_block(t)
  PROVE  IpcInv' /\ Walks' = Walks /\ [Next]_vars
<1>1. /\ s_current = t /\ pc[t] = "block" /\ m[t] = NULL /\ at[t] \in Endpoints
      /\ EndpointTypeOK
  BY Running DEF recv_block, IpcInv
<1>2. /\ pc' = [pc EXCEPT ![t] = "recv"]
      /\ UNCHANGED <<listVars, waiting_recv, tag, at, m, cache, last_tag, delivered, missed>>
  BY Zenon DEF recv_block, Goto
<1>3. pc'[t] = "recv" /\ \A u \in Thread : u # t => pc'[u] = pc[u]
  BY <1>1, <1>2, Zenon DEF EndpointTypeOK
<1>4. \A u \in Thread : state'[u] = "BLOCKED" => state[u] = "BLOCKED" \/ u = t
  <2>1. CASE AllEmpty(ready)
    BY <2>1, Zenon DEF recv_block, vars
  <2>2. CASE ~AllEmpty(ready)
    <3>1. SwitchTo(ready, [state EXCEPT ![t] = "BLOCKED"], sched_intent)
      BY <1>1, <2>2, Zenon DEF recv_block, sched_block_current
    <3>2. \E p : state' = [[state EXCEPT ![t] = "BLOCKED"] EXCEPT ![p] = "RUNNING"]
      BY <3>1, Zenon DEF SwitchTo, sched_prepare_running
    <3> QED
      BY <3>2, Zenon DEF IInv, TypeOK, AnyThread
  <2> QED
    BY <2>1, <2>2, Zenon
<1>5. EndpointTypeOK'
  BY <1>1, <1>2, Zenon DEF EndpointTypeOK, listVars
<1>6. Control'
  BY <1>1, <1>2, <1>3, <1>4, Zenon DEF Control, IpcInv
<1>7. WaiterIsWaiting'
  <2>1. q_head' = q_head
    BY <1>2, Zenon DEF listVars
  <2>2. \A f \in Endpoints : waiting_recv[f] \in Thread \cup {NULL}
    BY <1>1, Zenon DEF EndpointTypeOK
  <2> QED
    BY <1>1, <1>2, <1>3, <2>1, <2>2 DEF WaiterIsWaiting, IpcInv
<1>8. Registered'
  BY <1>1, <1>2, <1>3, <1>4, Zenon DEF Registered, IpcInv
<1>9. [Next]_vars
  BY Zenon DEF recv_block, Next
<1> QED
  BY <1>2, <1>5, <1>6, <1>7, <1>8, <1>9, SameLists, Zenon DEF IpcInv

(* Copying a message out delivers its tag for the first time, and frees the   *)
(* object.                                                                    *)
LEMMA FreeIpcInv ==
  ASSUME IInv, IpcInv, NEW t \in Thread, ipc_msg_free(t)
  PROVE  IpcInv' /\ Walks' = Walks
<1> DEFINE Q == Walks
           x == m[t]
<1>1. /\ Q \in [Endpoints -> Seq(Msg)]
      /\ Lists(Q, q_head, q_tail, next) /\ Objects(Q, m, cache) /\ EndpointTypeOK
  BY WalksType, Zenon DEF IpcInv
<1>2. /\ s_current = t /\ pc[t] = "copy" /\ m[t] # NULL /\ state[t] # "BLOCKED"
      /\ \A f \in Endpoints : waiting_recv[f] # t
  BY Running, Zenon DEF ipc_msg_free
<1>3. /\ delivered' = [delivered EXCEPT ![tag[x]] = @ + 1]
      /\ cache' = cache \cup {x}
      /\ m' = [m EXCEPT ![t] = NULL]
      /\ pc' = [pc EXCEPT ![t] = "user"]
      /\ UNCHANGED <<vars, q_head, q_tail, next, prev, waiting_recv, tag, at, last_tag, missed>>
  BY Zenon DEF ipc_msg_free, Goto, listVars
<1>4. x \in Msg /\ ~InList(Q, x) /\ x \notin cache
  BY <1>1, <1>2, Zenon DEF Objects, EndpointTypeOK
<1>5. /\ tag[x] \in Tags /\ tag[x] \in 1..last_tag
      /\ delivered[tag[x]] = 0
      /\ delivered'[tag[x]] = 1
      /\ \A n \in Tags : n # tag[x] => delivered'[n] = delivered[n]
      /\ delivered' \in [Tags -> Nat]
  <2>1. tag[x] \in 1..last_tag /\ last_tag \in 0..MaxTag
    BY <1>1, <1>4, Zenon DEF IpcInv, TagsExact, EndpointTypeOK
  <2>2. tag[x] \in Tags
    BY <2>1, EndpointAssumption DEF Tags
  <2>3. delivered[tag[x]] = 0
    BY <1>4, <2>2, Zenon DEF IpcInv, TagsExact
  <2>4. delivered \in [Tags -> Nat]
    BY <1>1, Zenon DEF EndpointTypeOK
  <2> HIDE DEF x
  <2> QED
    BY <1>3, <2>1, <2>2, <2>3, <2>4
<1> HIDE DEF Q, x
<1>6. EndpointTypeOK'
  <2>1. /\ m' \in [Thread -> Msg \cup {NULL}]
        /\ pc' \in [Thread -> {"user", "send", "recv", "block", "copy"}]
        /\ cache' \subseteq Msg
    BY <1>1, <1>3, <1>4, Zenon DEF EndpointTypeOK
  <2>2. TypeOK'
    BY <1>1, <1>3, Zenon DEF EndpointTypeOK, TypeOK, vars
  <2> QED
    BY <1>1, <1>3, <1>5, <2>1, <2>2, Zenon DEF EndpointTypeOK
<1>7. Objects(Q, m', cache')
  <2>1. m'[t] = NULL /\ m[t] = x /\ \A u \in Thread : u # t => m'[u] = m[u]
    BY <1>1, <1>3, Zenon DEF EndpointTypeOK, x
  <2>2. NULL \notin Msg /\ ~InList(Q, NULL)
    BY <1>1, EndpointAssumption, MembersOfSeq, Zenon DEF InList
  <2>3. ASSUME NEW y \in Msg
        PROVE  y \in cache' <=> ~InList(Q, y) /\ \A u \in Thread : m'[u] # y
    <3>1. CASE y = x
      BY <1>1, <1>2, <1>3, <1>4, <2>1, <2>2, <3>1 DEF Objects
    <3>2. CASE y # x
      <4>1. (\A u \in Thread : m'[u] # y) <=> (\A u \in Thread : m[u] # y)
        BY <2>1, <2>2, <3>2, Zenon
      <4> QED
        BY <1>1, <1>3, <3>2, <4>1, Zenon DEF Objects
    <3> QED
      BY <3>1, <3>2, Zenon
  <2> QED
    BY <1>1, <2>1, <2>2, <2>3, Zenon DEF Objects
<1>8. TagsExact'
  <2>1. Msg \ cache' = (Msg \ cache) \ {x} /\ tag' = tag /\ last_tag' = last_tag
    BY <1>3, Zenon
  <2>2. x \in Msg \ cache /\ \A y \in (Msg \ cache) \ {x} : tag[y] # tag[x]
    BY <1>4, Zenon DEF IpcInv, TagsExact
  <2>3. ASSUME NEW n \in Tags
        PROVE  delivered'[n] = IF n <= last_tag' /\ \A y \in Msg \ cache' : tag'[y] # n
                               THEN 1 ELSE 0
    <3>1. CASE n = tag[x]
      BY <1>5, <2>1, <2>2, <3>1
    <3>2. CASE n # tag[x]
      <4>1. (\A y \in Msg \ cache' : tag'[y] # n) <=> (\A y \in Msg \ cache : tag[y] # n)
        BY <2>1, <2>2, <3>2, Zenon
      <4> QED
        BY <1>5, <2>1, <3>2, <4>1, Zenon DEF IpcInv, TagsExact
    <3> QED
      BY <3>1, <3>2, Zenon
  <2> QED
    BY <2>1, <2>3, Zenon DEF TagsExact, IpcInv
<1>9. Control'
  BY <1>1, <1>2, <1>3, Zenon DEF Control, IpcInv, EndpointTypeOK, vars
<1>10. WaiterIsWaiting'
  <2>1. \A f \in Endpoints : waiting_recv[f] \in Thread \cup {NULL}
    BY <1>1, Zenon DEF EndpointTypeOK
  <2>2. \A u \in Thread : u # t => pc'[u] = pc[u]
    BY <1>1, <1>3, Zenon DEF EndpointTypeOK
  <2> QED
    BY <1>2, <1>3, <2>1, <2>2 DEF WaiterIsWaiting, IpcInv
<1>11. Registered'
  BY <1>1, <1>2, <1>3, Zenon DEF Registered, IpcInv, EndpointTypeOK, vars
<1>12. /\ Walks' = Q
       /\ Lists(Walks, q_head, q_tail, next)'
       /\ Objects(Walks, m, cache)'
  <2>1. Lists(Q, q_head', q_tail', next')
    BY <1>1, <1>3, Zenon
  <2> QED
    BY <1>1, <1>7, <2>1, NextLists, Zenon
<1> QED
  BY <1>6, <1>8, <1>9, <1>10, <1>11, <1>12, Zenon DEF IpcInv, Q

(* No scheduler entry point but sched_block_current puts a thread to sleep. *)
LEMMA NobodyFallsAsleep ==
  ASSUME IInv,
         \/ yield \/ thread_exit \/ OtherIrq
         \/ \E t \in Thread : thread_create_named(t) \/ sched_enqueue(t)
         \/ \E over \in BOOLEAN : TimerIrq(over)
  PROVE  \A u \in Thread : state'[u] = "BLOCKED" => state[u] = "BLOCKED"
<1>1. state \in [AnyThread -> ThreadState] /\ Thread \subseteq AnyThread
  BY Zenon DEF IInv, TypeOK, AnyThread
<1>2. ASSUME NEW intents, Reschedule(intents)
      PROVE  \A u \in Thread : state'[u] = "BLOCKED" => state[u] = "BLOCKED"
  <2>1. \E p, st : /\ st \in {state, [state EXCEPT ![s_current] = "READY"]}
                   /\ state' = [st EXCEPT ![p] = "RUNNING"]
    BY <1>2, Zenon DEF Reschedule, SwitchTo, sched_prepare_running
  <2> QED
    BY <1>1, <2>1, Zenon
<1>3. ASSUME NEW need, NEW used, NEW intents, sched_irq_exit(need, used, intents)
      PROVE  \A u \in Thread : state'[u] = "BLOCKED" => state[u] = "BLOCKED"
  BY <1>2, <1>3, Zenon DEF sched_irq_exit
<1>4. CASE yield
  BY <1>2, <1>4, Zenon DEF yield
<1>5. CASE thread_exit
  BY <1>1, <1>5, Zenon DEF thread_exit
<1>6. CASE OtherIrq
  BY <1>3, <1>6, Zenon DEF OtherIrq
<1>7. CASE \E t \in Thread : thread_create_named(t) \/ sched_enqueue(t)
  BY <1>1, <1>7, Zenon DEF thread_create_named, sched_enqueue
<1>8. CASE \E over \in BOOLEAN : TimerIrq(over)
  BY <1>3, <1>8, Zenon DEF TimerIrq
<1> QED
  BY <1>4, <1>5, <1>6, <1>7, <1>8, Zenon

(* Scheduler steps between IPC steps. *)
LEMMA SchedIpcInv ==
  ASSUME IpcInv, TypeOK', UNCHANGED ipcVars,
         \A u \in Thread : state'[u] = "BLOCKED" => state[u] = "BLOCKED"
  PROVE  IpcInv' /\ Walks' = Walks
<1>1. /\ UNCHANGED <<listVars, tag, m, cache, last_tag, delivered>>
      /\ UNCHANGED <<waiting_recv, pc, at, missed, q_head>>
  BY Zenon DEF ipcVars, listVars
<1>2. EndpointTypeOK'
  BY <1>1, Zenon DEF IpcInv, EndpointTypeOK, listVars
<1>3. Control' /\ WaiterIsWaiting' /\ Registered'
  BY <1>1, Zenon DEF IpcInv, Control, WaiterIsWaiting, Registered
<1> QED
  BY <1>1, <1>2, <1>3, SameLists, Zenon DEF IpcInv

-----------------------------------------------------------------------------
(* A step of the endpoints is a step of the scheduler or leaves it alone. *)
LEMMA StepsOfSched == ASSUME EInv, EndpointNext PROVE [Next]_vars
<1>1. ASSUME NEW t \in Thread, NEW e \in Endpoints,
             ipc_msg_alloc(t, e) \/ ipc_recv_cap(t, e) \/ ipc_try_recv_cap(t, e)
      PROVE  UNCHANGED vars
  BY <1>1, Zenon DEF ipc_msg_alloc, ipc_recv_cap, ipc_try_recv_cap
<1>2. ASSUME NEW t \in Thread, ipc_send_cap(t) PROVE [Next]_vars
  <2>1. at[t] \in Endpoints /\ WakeReceiver(at[t])
    BY <1>2, Running, Zenon DEF EInv, ipc_send_cap
  <2> QED
    BY <2>1, WakeEffect, Zenon DEF EInv
<1>3. ASSUME NEW t \in Thread, recv_block(t) PROVE [Next]_vars
  BY <1>3, Zenon DEF recv_block, Next
<1>4. ASSUME NEW t \in Thread, ipc_msg_free(t) PROVE [Next]_vars
  BY <1>4, Zenon DEF ipc_msg_free
<1>5. ASSUME yield \/ thread_exit
               \/ \E t \in Thread : thread_create_named(t) \/ sched_enqueue(t)
      PROVE  Next
  BY <1>5, Zenon DEF Next
<1>6. ASSUME (\E over \in BOOLEAN : TimerIrq(over)) \/ OtherIrq PROVE Next
  BY <1>6, Zenon DEF Next
<1> QED
  BY <1>1, <1>2, <1>3, <1>4, <1>5, <1>6, Zenon DEF EndpointNext

(* What one step does to the sequences of queued objects: one object is       *)
(* appended, or the first one removed, or nothing changes.                    *)
Moves ==
  \/ \E e \in Endpoints, x \in Msg \ cache : /\ Walks' = [Walks EXCEPT ![e] = Append(@, x)]
                                             /\ tag' = tag
  \/ \E e \in Endpoints : /\ Walks[e] # <<>>
                          /\ Walks' = [Walks EXCEPT ![e] = Tail(@)]
                          /\ tag' = tag
  \/ Walks' = Walks /\ \A x \in Msg \ cache : tag'[x] = tag[x]

(* Every step preserves the invariant, and moves messages as a queue does. *)
LEMMA NextEInv == ASSUME EInv, [EndpointNext]_<<vars, ipcVars>> PROVE EInv' /\ Moves
<1>1. IInv /\ IpcInv
  BY Zenon DEF EInv
<1>2. IInv' /\ TypeOK'
  <2>1. [Next]_vars
    BY StepsOfSched, Zenon
  <2> QED
    BY <1>1, <2>1, NextIInv, Zenon DEF IInv
<1>3. ASSUME NEW t \in Thread, NEW e \in Endpoints, ipc_msg_alloc(t, e)
      PROVE  IpcInv' /\ Moves
  <2>1. IpcInv' /\ Walks' = Walks
    BY <1>1, <1>3, AllocIpcInv, Zenon
  <2>2. \A x \in Msg \ cache : tag'[x] = tag[x]
    BY <1>1, <1>3, Zenon DEF ipc_msg_alloc, IpcInv, EndpointTypeOK
  <2> QED
    BY <2>1, <2>2, Zenon DEF Moves
<1>4. ASSUME NEW t \in Thread, ipc_send_cap(t)
      PROVE  IpcInv' /\ Moves
  <2>1. /\ IpcInv'
        /\ at[t] \in Endpoints /\ m[t] \in Msg \ cache
        /\ Walks' = [Walks EXCEPT ![at[t]] = Append(@, m[t])]
    BY <1>1, <1>2, <1>4, SendIpcInv, Zenon
  <2>2. tag' = tag
    BY <1>4, Zenon DEF ipc_send_cap
  <2> QED
    BY <2>1, <2>2, Zenon DEF Moves
<1>5. ASSUME NEW t \in Thread, NEW e \in Endpoints,
             ipc_recv_cap(t, e) \/ ipc_try_recv_cap(t, e)
      PROVE  IpcInv' /\ Moves
  <2>1. /\ Runs(t, "user") \/ (Runs(t, "recv") /\ at[t] = e)
        /\ at' = [at EXCEPT ![t] = e]
        /\ missed' \in {missed, missed \ {t}}
        /\ UNCHANGED vars
    BY <1>5, Zenon DEF ipc_recv_cap, ipc_try_recv_cap
  <2>2. CASE TakeHead(t, e)
    <3>1. IpcInv' /\ Walks[e] # <<>> /\ Walks' = [Walks EXCEPT ![e] = Tail(@)]
      BY <1>1, <2>1, <2>2, TakeIpcInv, Zenon
    <3>2. tag' = tag
      BY <2>2, Zenon DEF TakeHead
    <3> QED
      BY <3>1, <3>2, Zenon DEF Moves
  <2>3. CASE ~TakeHead(t, e)
    <3>1. /\ q_head[e] = NULL
          /\ \/ /\ waiting_recv[e] \notin {NULL, t}
                /\ Goto(t, "user")
                /\ UNCHANGED waiting_recv
             \/ /\ waiting_recv[e] \in {NULL, t}
                /\ waiting_recv' = [waiting_recv EXCEPT ![e] = t]
                /\ Goto(t, "block")
          /\ UNCHANGED <<listVars, tag, m, cache, last_tag, delivered>>
          /\ missed' = missed \ {t}
      BY <1>5, <2>3, Zenon DEF ipc_recv_cap, ipc_try_recv_cap
    <3>2. IpcInv' /\ Walks' = Walks
      BY <1>1, <2>1, <3>1, WaitIpcInv, Zenon
    <3> QED
      BY <3>1, <3>2, Zenon DEF Moves
  <2> QED
    BY <2>2, <2>3, Zenon
<1>6. ASSUME NEW t \in Thread, recv_block(t)
      PROVE  IpcInv' /\ Moves
  <2>1. IpcInv' /\ Walks' = Walks
    BY <1>1, <1>2, <1>6, BlockIpcInv, Zenon
  <2> QED
    BY <1>6, <2>1, Zenon DEF Moves, recv_block
<1>7. ASSUME NEW t \in Thread, ipc_msg_free(t)
      PROVE  IpcInv' /\ Moves
  <2>1. IpcInv' /\ Walks' = Walks
    BY <1>1, <1>7, FreeIpcInv, Zenon
  <2> QED
    BY <1>7, <2>1, Zenon DEF Moves, ipc_msg_free
<1>8. ASSUME UNCHANGED ipcVars,
             \/ yield \/ thread_exit \/ OtherIrq
             \/ \E t \in Thread : thread_create_named(t) \/ sched_enqueue(t)
             \/ \E over \in BOOLEAN : TimerIrq(over)
      PROVE  IpcInv' /\ Moves
  <2>1. IpcInv' /\ Walks' = Walks
    BY <1>1, <1>2, <1>8, NobodyFallsAsleep, SchedIpcInv, Zenon
  <2> QED
    BY <1>8, <2>1, Zenon DEF Moves, ipcVars
<1>9. ASSUME UNCHANGED <<vars, ipcVars>>
      PROVE  IpcInv' /\ Moves
  <2>1. IpcInv' /\ Walks' = Walks
    BY <1>1, <1>2, <1>9, SchedIpcInv, Zenon DEF vars
  <2> QED
    BY <1>9, <2>1, Zenon DEF Moves, ipcVars
<1>10. IpcInv' /\ Moves
  BY <1>3, <1>4, <1>5, <1>6, <1>7, <1>8, <1>9, Zenon DEF EndpointNext
<1> QED
  BY <1>2, <1>10, Zenon DEF EInv

(* The initial state satisfies the invariant: empty lists, all objects free. *)
LEMMA InitEInv == ASSUME EndpointInit PROVE EInv
<1> DEFINE Q == [e \in Endpoints |-> <<>>]
<1>1. IInv
  BY InitIInv, Zenon DEF EndpointInit
<1>2. EndpointTypeOK
  BY <1>1, EndpointAssumption DEF EndpointInit, EndpointTypeOK, IInv, Tags
<1>3. Lists(Q, q_head, q_tail, next) /\ Q \in [Endpoints -> Seq(Msg)]
  <2>1. <<>> \in Seq(Msg) /\ IsInjective(<<>>) /\ Range(<<>>) = {} /\ Len(<<>>) = 0
    BY DEF IsInjective, Range
  <2> QED
    BY <2>1 DEF EndpointInit, Lists, Spells
<1>4. Walks = Q
  <2> HIDE DEF Q
  <2> QED
    BY <1>3, WalksOf DEF Walks, Walk
<1>5. Objects(Q, m, cache)
  <2>1. \A x : ~InList(Q, x)
    BY DEF InList, Range
  <2> HIDE DEF Q
  <2> QED
    BY <2>1, EndpointAssumption, Zenon DEF EndpointInit, Objects
<1>6. TagsExact
  BY DEF TagsExact, EndpointInit, Tags
<1>7. Control /\ Registered
  <2>1. \A t \in Thread : state[t] # "BLOCKED"
    BY Zenon DEF EndpointInit, Init, AnyThread
  <2> QED
    BY <2>1, Zenon DEF Control, Registered, EndpointInit
<1>8. WaiterIsWaiting
  BY Zenon DEF EndpointInit, WaiterIsWaiting
<1> QED
  BY <1>1, <1>2, <1>3, <1>4, <1>5, <1>6, <1>7, <1>8, Zenon DEF EInv, IpcInv

(* The invariant holds in every reachable state of senders, receivers and     *)
(* interrupts.                                                                *)
THEOREM EndpointInvariant == EndpointSpec => []EInv
<1>1. EndpointInit => EInv
  BY InitEInv, Zenon
<1>2. EInv /\ [EndpointNext]_<<vars, ipcVars>> => EInv'
  BY NextEInv, Zenon
<1> QED
  BY <1>1, <1>2, PTL DEF EndpointSpec

(* The fields of the endpoints and messages keep their types. *)
THEOREM EndpointTypeCorrect == EndpointSpec => []EndpointTypeOK
<1>1. EInv => EndpointTypeOK
  BY Zenon DEF EInv, IpcInv
<1> QED
  BY <1>1, EndpointInvariant, PTL

(* A registered receiver waits on an empty queue in the loop of ipc_recv_cap. *)
THEOREM WaitersWait == EndpointSpec => []WaiterIsWaiting
<1>1. EInv => WaiterIsWaiting
  BY Zenon DEF EInv, IpcInv
<1> QED
  BY <1>1, EndpointInvariant, PTL

(* A sleeping receiver that no send will wake was overtaken by a send between *)
(* its irq_restore and its sched_block_current; there is no other way to lose *)
(* a wakeup.                                                                  *)
THEOREM LostWakeupsAreInTheWindow == EndpointSpec => []OnlyTheWindowLosesWakeups
<1>1. EInv => OnlyTheWindowLosesWakeups
  <2> SUFFICES ASSUME EInv, NEW t \in Thread, state[t] = "BLOCKED", t \notin missed
               PROVE  waiting_recv[at[t]] = t /\ q_head[at[t]] = NULL
    BY Zenon DEF OnlyTheWindowLosesWakeups
  <2>1. at[t] \in Endpoints /\ waiting_recv[at[t]] = t
    BY Zenon DEF EInv, IpcInv, Control, Registered
  <2>2. t # NULL
    BY EndpointAssumption, Zenon DEF AnyThread
  <2> QED
    BY <2>1, <2>2, Zenon DEF EInv, IpcInv, WaiterIsWaiting
<1> QED
  BY <1>1, EndpointInvariant, PTL

(* Every accepted message is in exactly one place: in one list, once; or with *)
(* one thread; or delivered, once.                                            *)
THEOREM MessagesExactlyOnce == EndpointSpec => []ExactlyOnce
<1>1. EInv => ExactlyOnce
  <2> SUFFICES ASSUME EInv, NEW n \in 1..last_tag PROVE Places(n) = 1
    BY Zenon DEF ExactlyOnce
  <2> DEFINE linked == {p \in Endpoints \X (1..Cardinality(Msg)) :
                          p[2] \in DOMAIN Walk(p[1]) /\ tag[Walk(p[1])[p[2]]] = n}
             held   == {t \in Thread : m[t] # NULL /\ tag[m[t]] = n}
  <2>1. Places(n) = Cardinality(linked) + Cardinality(held) + delivered[n]
    BY Zenon DEF Places
  <2>2. /\ EndpointTypeOK /\ TagsExact
        /\ Lists(Walks, q_head, q_tail, next) /\ Objects(Walks, m, cache)
    BY Zenon DEF EInv, IpcInv
  <2>3. n \in Tags /\ n <= last_tag
    BY <2>2, EndpointAssumption DEF EndpointTypeOK, Tags
  <2>4. \A e \in Endpoints : /\ Walk(e) \in Seq(Msg)
                             /\ IsInjective(Walk(e))
                             /\ Walks[e] = Walk(e)
                             /\ Len(Walk(e)) <= Cardinality(Msg)
                             /\ Len(Walk(e)) \in Nat /\ Cardinality(Msg) \in Nat
    <3>1. \A e \in Endpoints : Walk(e) \in Seq(Msg) /\ IsInjective(Walk(e)) /\ Walks[e] = Walk(e)
      BY <2>2, Zenon DEF Lists, Spells, Walks
    <3> QED
      BY <3>1, InjectiveLen, SeqLen, FS_CardinalityType, EndpointAssumption, Zenon
  <2>5. ASSUME NEW p \in linked
        PROVE  /\ p[1] \in Endpoints /\ p[2] \in 1..Len(Walk(p[1]))
               /\ Walk(p[1])[p[2]] \in Msg \ cache
               /\ InList(Walks, Walk(p[1])[p[2]])
               /\ p = <<p[1], p[2]>>
               /\ tag[Walk(p[1])[p[2]]] = n
    <3>1. p[1] \in Endpoints /\ p[2] \in 1..Len(Walk(p[1])) /\ p = <<p[1], p[2]>>
      BY <2>4, SeqLen
    <3>2. Walk(p[1])[p[2]] \in Msg /\ Walk(p[1])[p[2]] \in Range(Walk(p[1]))
      BY <2>4, <3>1, MembersOfSeq, SeqItem
    <3>3. InList(Walks, Walk(p[1])[p[2]])
      BY <2>4, <3>1, <3>2, Zenon DEF InList
    <3> QED
      BY <2>2, <3>1, <3>2, <3>3, Zenon DEF Objects
  <2>6. \A t \in held : m[t] \in Msg \ cache /\ tag[m[t]] = n /\ ~InList(Walks, m[t])
    BY <2>2, Zenon DEF Objects, EndpointTypeOK
  <2>7. CASE \A x \in Msg \ cache : tag[x] # n
    <3>1. linked = {} /\ held = {}
      BY <2>5, <2>6, <2>7, Zenon
    <3>2. delivered[n] = 1
      BY <2>2, <2>3, <2>7, Zenon DEF TagsExact
    <3>3. Cardinality(linked) = 0 /\ Cardinality(held) = 0
      BY <3>1, FS_EmptySet, Zenon
    <3> HIDE DEF linked, held
    <3> QED
      BY <2>1, <3>2, <3>3
  <2>8. ASSUME NEW x \in Msg \ cache, tag[x] = n
        PROVE  Places(n) = 1
    <3>1. delivered[n] = 0
      BY <2>2, <2>3, <2>8, Zenon DEF TagsExact
    <3>2. \A y \in Msg \ cache : tag[y] = n => y = x
      BY <2>2, <2>8, Zenon DEF TagsExact
    <3>3. CASE InList(Walks, x)
      <4>1. held = {}
        BY <2>6, <3>2, <3>3, Zenon
      <4>2. PICK e \in Endpoints : x \in Range(Walk(e))
        BY <2>4, <3>3, Zenon DEF InList
      <4>3. PICK k \in 1..Len(Walk(e)) : Walk(e)[k] = x
        BY <2>4, <4>2, MembersOfSeq, Zenon
      <4>4. <<e, k>> \in linked
        BY <2>4, <2>8, <4>3, SeqLen
      <4>5. ASSUME NEW p \in linked PROVE p = <<e, k>>
        <5>1. Walk(p[1])[p[2]] = x /\ p[1] \in Endpoints /\ p[2] \in 1..Len(Walk(p[1]))
          BY <2>5, <3>2, Zenon
        <5>2. x \in Range(Walk(p[1]))
          BY <2>4, <5>1, MembersOfSeq
        <5>3. p[1] = e
          BY <2>2, <2>4, <4>2, <5>1, <5>2, Zenon DEF Lists
        <5>4. p[2] = k
          BY <2>4, <4>3, <5>1, <5>3, MembersOfSeq
        <5> QED
          BY <2>5, <5>3, <5>4, Zenon
      <4>6. linked = {<<e, k>>}
        BY <4>4, <4>5, Zenon
      <4>7. Cardinality(linked) = 1 /\ Cardinality(held) = 0
        BY <4>1, <4>6, FS_EmptySet, FS_Singleton, Zenon
      <4> HIDE DEF linked, held
      <4> QED
        BY <2>1, <3>1, <4>7
    <3>4. CASE ~InList(Walks, x)
      <4>1. linked = {}
        BY <2>5, <3>2, <3>4, Zenon
      <4>2. PICK t \in Thread : m[t] = x
        BY <2>2, <3>4, Zenon DEF Objects
      <4>3. x # NULL
        BY EndpointAssumption, Zenon
      <4>4. held = {t}
        BY <2>2, <2>6, <2>8, <3>2, <4>2, <4>3 DEF Objects
      <4>5. Cardinality(linked) = 0 /\ Cardinality(held) = 1
        BY <4>1, <4>4, FS_EmptySet, FS_Singleton, Zenon
      <4> HIDE DEF linked, held
      <4> QED
        BY <2>1, <3>1, <4>5
    <3> QED
      BY <3>3, <3>4, Zenon
  <2> QED
    BY <2>7, <2>8, Zenon
<1> QED
  BY <1>1, EndpointInvariant, PTL

-----------------------------------------------------------------------------
(* The tags of a sequence of objects. *)
TagsOf(s, tg) == [k \in DOMAIN s |-> tg[s[k]]]

(* Appending an object appends its tag. *)
LEMMA TagsOfAppend ==
  ASSUME NEW s \in Seq(Msg), NEW x \in Msg, NEW tg
  PROVE  TagsOf(Append(s, x), tg) = Append(TagsOf(s, tg), tg[x])
<1>1. /\ Len(s) \in Nat /\ DOMAIN s = 1..Len(s)
      /\ DOMAIN Append(s, x) = 1..(Len(s) + 1)
      /\ \A k \in 1..Len(s) : Append(s, x)[k] = s[k]
      /\ Append(s, x)[Len(s) + 1] = x
  BY SeqLen, SeqAppend
<1>2. TagsOf(s, tg) \in Seq({tg[y] : y \in Msg \cup {x}}) /\ Len(TagsOf(s, tg)) = Len(s)
  BY <1>1, SeqItem DEF TagsOf
<1> QED
  BY <1>1, <1>2 DEF TagsOf

(* Removing the first object removes its tag. *)
LEMMA TagsOfTail ==
  ASSUME NEW s \in Seq(Msg), s # <<>>, NEW tg
  PROVE  TagsOf(s, tg) # <<>> /\ TagsOf(Tail(s), tg) = Tail(TagsOf(s, tg))
<1>1. /\ Len(s) \in Nat \ {0} /\ DOMAIN s = 1..Len(s)
      /\ Tail(s) \in Seq(Msg) /\ Len(Tail(s)) = Len(s) - 1
      /\ \A k \in 1..(Len(s) - 1) : Tail(s)[k] = s[k + 1]
  BY SeqLen, SeqHeadTail, SeqNone, Zenon
<1>2. DOMAIN Tail(s) = 1..(Len(s) - 1)
  BY <1>1, SeqLen, Zenon
<1>3. /\ TagsOf(s, tg) \in Seq({tg[y] : y \in Msg})
      /\ Len(TagsOf(s, tg)) = Len(s)
      /\ TagsOf(s, tg) # <<>>
  BY <1>1, SeqItem DEF TagsOf
<1> QED
  BY <1>1, <1>2, <1>3 DEF TagsOf

(* The linked lists are FIFO channels: every step of the code is the          *)
(* acceptance of a message at the end of one channel, the removal of the      *)
(* first message of one channel, or no step of the channels at all.           *)
THEOREM ChannelRefinement == EndpointSpec => ImplementsChannel
<1> DEFINE chan == [e \in Endpoints |-> [k \in DOMAIN Walk(e) |-> tag[Walk(e)[k]]]]
<1>1. EndpointInit => Implemented!InitChan
  <2> SUFFICES ASSUME EndpointInit PROVE chan = [e \in Endpoints |-> <<>>]
    BY Zenon DEF Implemented!InitChan
  <2>1. EInv
    BY InitEInv, Zenon
  <2>2. \A e \in Endpoints : Walk(e) = <<>>
    BY <2>1, NullMsg, SpellsFacts, Zenon DEF EndpointInit, EInv, IpcInv, Lists, Walks
  <2> QED
    BY <2>2
<1>2. ASSUME EInv, EInv', Moves PROVE [Implemented!NextChan]_chan
  <2>1. /\ Walks \in [Endpoints -> Seq(Msg)] /\ Walks' \in [Endpoints -> Seq(Msg)]
        /\ \A e \in Endpoints : Walks[e] = Walk(e) /\ Walks'[e] = Walk(e)'
        /\ \A e \in Endpoints : \A x \in Range(Walks[e]) : x \in Msg \ cache
    <3>1. Walks \in [Endpoints -> Seq(Msg)]
      BY <1>2, WalksType, Zenon DEF EInv
    <3>2. Walks' \in [Endpoints -> Seq(Msg)]
      BY <1>2, Zenon DEF EInv, IpcInv, Lists, Spells, Walks
    <3>3. \A e \in Endpoints : \A x \in Range(Walks[e]) : x \in Msg \ cache
      BY <1>2, <3>1, MembersOfSeq, Zenon DEF EInv, IpcInv, Objects, InList
    <3> QED
      BY <3>1, <3>2, <3>3, Zenon DEF Walks
  <2>2. /\ chan = [e \in Endpoints |-> TagsOf(Walks[e], tag)]
        /\ chan' = [e \in Endpoints |-> TagsOf(Walks'[e], tag')]
    BY <2>1, Zenon DEF TagsOf
  <2> HIDE DEF chan
  <2>3. CASE \E e \in Endpoints, x \in Msg \ cache :
               Walks' = [Walks EXCEPT ![e] = Append(@, x)] /\ tag' = tag
    <3>1. PICK e \in Endpoints, x \in Msg \ cache :
               Walks' = [Walks EXCEPT ![e] = Append(@, x)] /\ tag' = tag
      BY <2>3, Zenon
    <3>2. chan' = [chan EXCEPT ![e] = Append(@, tag[x])]
      <4>1. TagsOf(Walks'[e], tag') = Append(TagsOf(Walks[e], tag), tag[x])
        BY <2>1, <3>1, TagsOfAppend
      <4>2. \A f \in Endpoints : f # e => TagsOf(Walks'[f], tag') = TagsOf(Walks[f], tag)
        BY <2>1, <3>1, Zenon
      <4> QED
        BY <2>2, <4>1, <4>2, Zenon
    <3>3. tag[x] \in Tags
      BY <1>2, EndpointAssumption DEF EInv, IpcInv, TagsExact, EndpointTypeOK, Tags
    <3> QED
      BY <3>2, <3>3, Zenon DEF Implemented!NextChan, Implemented!Accept, chan
  <2>4. CASE \E e \in Endpoints : /\ Walks[e] # <<>>
                                  /\ Walks' = [Walks EXCEPT ![e] = Tail(@)]
                                  /\ tag' = tag
    <3>1. PICK e \in Endpoints : /\ Walks[e] # <<>>
                                 /\ Walks' = [Walks EXCEPT ![e] = Tail(@)]
                                 /\ tag' = tag
      BY <2>4, Zenon
    <3>2. chan[e] # <<>> /\ chan' = [chan EXCEPT ![e] = Tail(@)]
      <4>1. /\ TagsOf(Walks[e], tag) # <<>>
            /\ TagsOf(Walks'[e], tag') = Tail(TagsOf(Walks[e], tag))
        BY <2>1, <3>1, TagsOfTail, Zenon
      <4>2. \A f \in Endpoints : f # e => TagsOf(Walks'[f], tag') = TagsOf(Walks[f], tag)
        BY <2>1, <3>1, Zenon
      <4> QED
        BY <2>2, <4>1, <4>2, Zenon
    <3> QED
      BY <3>2, Zenon DEF Implemented!NextChan, Implemented!Take, chan
  <2>5. CASE Walks' = Walks /\ \A x \in Msg \ cache : tag'[x] = tag[x]
    <3>1. ASSUME NEW e \in Endpoints PROVE TagsOf(Walks'[e], tag') = TagsOf(Walks[e], tag)
      <4>1. \A k \in DOMAIN Walks[e] : Walks[e][k] \in Msg \ cache
        BY <2>1, MembersOfSeq, SeqLen
      <4> QED
        BY <2>5, <4>1, Zenon DEF TagsOf
    <3> QED
      BY <2>2, <3>1, Zenon
  <2> QED
    BY <1>2, <2>3, <2>4, <2>5, Zenon DEF Moves
<1>3. EInv /\ EInv' /\ [EndpointNext]_<<vars, ipcVars>> => [Implemented!NextChan]_chan
  BY <1>2, NextEInv, Zenon
<1> QED
  BY <1>1, <1>3, EndpointInvariant, PTL DEF EndpointSpec, ImplementsChannel, Implemented!Chan
=============================================================================
