------------------------------ MODULE ListProofs ------------------------------
(******************************************************************************)
(* The linked lists of the kernel hold the sequences they stand for.          *)
(*                                                                            *)
(* The rings of sched.c implement FIFO queues, for any finite set of threads. *)
(* RInv says that the walk of every ring is a sequence of different threads   *)
(* whose links close to a circle, that no thread is in two rings, and that    *)
(* rq_next is NULL outside all of them.  Circle is stated over a sequence, a  *)
(* tail and a link function given as parameters, so that the same lemma reads *)
(* off the walk before and after a step.                                      *)
(*                                                                            *)
(* The list of deferred work holds the items in the order they were enqueued, *)
(* for any set of items: WorkInv adds to that order that an item is linked    *)
(* exactly while its flag says it is queued.                                  *)
(******************************************************************************)
EXTENDS RunQueueRing, CoreLoop, QueueLemmas

(* The links nx, entered behind tail, go once round the elements of s. *)
Circle(s, tail, nx) ==
  /\ s \in Seq(Thread)
  /\ IsInjective(s)
  /\ tail = IF s = <<>> THEN NULL ELSE s[Len(s)]
  /\ \A k \in 1..Len(s) : nx[s[k]] = IF k = Len(s) THEN s[1] ELSE s[k + 1]

(* The tails and links spell the queues Q, and nothing else is linked. *)
Rings(Q, tails, nx) ==
  /\ Q \in Queues(Thread)
  /\ tails \in [Intent -> Thread \cup {NULL}]
  /\ nx \in [Thread -> Thread \cup {NULL}]
  /\ \A i \in Intent : Circle(Q[i], tails[i], nx)
  /\ \A i, j \in Intent : i # j => Range(Q[i]) \cap Range(Q[j]) = {}
  /\ \A t \in Thread : nx[t] # NULL <=> \E i \in Intent : t \in Range(Q[i])

(* The abstract queues of the present state. *)
AllRings == [i \in Intent |-> Ring(i)]

RInv == Rings(AllRings, s_ready_tail, rq_next)

-----------------------------------------------------------------------------
(* The walk along links that stay among the threads satisfies its recursion.  *)
LEMMA NodeIs ==
  ASSUME NEW tail \in Thread \cup {NULL}, NEW nx \in [Thread -> Thread \cup {NULL}]
  PROVE  /\ NodeFrom(tail, nx)[0] = tail
         /\ \A n \in 1..Cardinality(Thread) :
              NodeFrom(tail, nx)[n] =
                IF NodeFrom(tail, nx)[n - 1] = NULL THEN NULL ELSE nx[NodeFrom(tail, nx)[n - 1]]
<1> DEFINE C == Cardinality(Thread)
           S == Thread \cup {NULL}
           F == [x \in S |-> IF x = NULL THEN NULL ELSE nx[x]]
           Rec(g) == [n \in 0..C |-> IF n = 0 THEN tail
                                     ELSE IF g[n - 1] = NULL THEN NULL ELSE nx[g[n - 1]]]
           node == CHOOSE g : g = Rec(g)
<1>1. C \in Nat
  BY RingAssumption, FS_CardinalityType, Zenon
<1>2. F \in [S -> S]
  BY Zenon
<1>3. NodeFrom(tail, nx) = node
  BY Zenon DEF NodeFrom
<1> HIDE DEF C
<1>4. PICK w \in [0..C -> S] : Iterates(w, C, tail, F)
  <2> HIDE DEF F, S
  <2>1. tail \in S
    BY Zenon DEF S
  <2> QED
    BY <1>1, <1>2, <2>1, IterationExists, Zenon
<1>5. \A n \in 0..C : w[n] = Rec(w)[n]
  <2> TAKE n \in 0..C
  <2>1. CASE n = 0
    BY <1>4, <2>1, Zenon DEF Iterates
  <2>2. CASE n # 0
    <3>1. n - 1 \in 0..C /\ w[n - 1] \in S
      BY <1>1, <2>2
    <3>2. w[n] = F[w[n - 1]]
      <4>1. n \in 1..C
        BY <1>1, <2>2
      <4> QED BY <1>4, <4>1, Zenon DEF Iterates
    <3> QED BY <2>2, <3>1, <3>2
  <2> QED BY <2>1, <2>2
<1>6. w = Rec(w)
  BY <1>5, Zenon
<1>7. node = Rec(node)
  <2> HIDE DEF Rec
  <2> QED BY <1>6
<1> HIDE DEF node
<1>8. /\ node[0] = tail
      /\ \A n \in 1..C : node[n] = IF node[n - 1] = NULL THEN NULL ELSE nx[node[n - 1]]
  <2>1. \A n \in 0..C : Rec(node)[n] = IF n = 0 THEN tail
                                       ELSE IF node[n - 1] = NULL THEN NULL ELSE nx[node[n - 1]]
    BY Zenon
  <2> HIDE DEF Rec
  <2>2. \A n \in 0..C : node[n] = IF n = 0 THEN tail
                                  ELSE IF node[n - 1] = NULL THEN NULL ELSE nx[node[n - 1]]
    BY <1>7, <2>1, Zenon
  <2> QED BY <1>1, <2>2
<1> QED
  BY <1>3, <1>8, Zenon DEF C

(* The walk of a circle meets its elements in order, and returns to the tail  *)
(* after the last of them and not before.                                     *)
LEMMA RingOf ==
  ASSUME NEW s, NEW tail \in Thread \cup {NULL}, NEW nx \in [Thread -> Thread \cup {NULL}],
         Circle(s, tail, nx)
  PROVE  /\ LenFrom(tail, nx) = Len(s)
         /\ RingFrom(tail, nx) = s
         /\ NodeFrom(tail, nx)[0] = tail
         /\ \A n \in 1..Len(s) : NodeFrom(tail, nx)[n] = s[n]
<1> DEFINE node == NodeFrom(tail, nx)
           C == Cardinality(Thread)
           L == Len(s)
<1>1. C \in Nat /\ L \in Nat /\ L <= C
  <2>1. s \in Seq(Thread) /\ IsInjective(s)
    BY Zenon DEF Circle
  <2>2. Len(s) \in Nat /\ \A j \in 1..Len(s) : s[j] \in Thread
    BY <2>1, SeqLen, SeqItem, Zenon
  <2> QED BY <2>1, <2>2, RingAssumption, FS_CardinalityType, InjectiveLen
<1>2. /\ node[0] = tail
      /\ \A n \in 1..C : node[n] = IF node[n - 1] = NULL THEN NULL ELSE nx[node[n - 1]]
  BY NodeIs, Zenon
<1>3. /\ s \in Seq(Thread)
      /\ \A k \in 1..L : s[k] \in Thread /\ s[k] # NULL
      /\ \A j, k \in 1..L : s[j] = s[k] => j = k
      /\ \A k \in 1..L : nx[s[k]] = IF k = L THEN s[1] ELSE s[k + 1]
      /\ tail = IF L = 0 THEN NULL ELSE s[L]
      /\ s = [k \in 1..L |-> s[k]]
  BY RingAssumption, MembersOfSeq, SeqItem, SeqLen, SeqNone DEF Circle
<1> HIDE DEF node, C, L
<1>4. \A n \in 1..L : node[n] = s[n]
  <2> DEFINE bad == {n \in 1..L : node[n] # s[n]}
  <2> SUFFICES ASSUME bad # {} PROVE FALSE
    BY Zenon
  <2>1. bad \in SUBSET Nat
    OBVIOUS
  <2> DEFINE n == Min(bad)
  <2>2. n \in bad /\ \A y \in bad : n <= y
    <3> HIDE DEF bad
    <3> QED BY <2>1, MinOfNats
  <2> HIDE DEF n
  <2>3. n \in 1..L /\ n \in 1..C /\ node[n] # s[n]
    BY <1>1, <2>2
  <2>4. CASE n = 1
    <3>1. node[n - 1] = s[L] /\ L \in 1..L
      BY <1>1, <1>2, <1>3, <2>3, <2>4
    <3>2. nx[s[L]] = s[1]
      BY <1>3, <3>1, Zenon
    <3> QED BY <1>2, <1>3, <2>3, <2>4, <3>1, <3>2
  <2>5. CASE n # 1
    <3>1. n - 1 \in 1..L /\ n - 1 \notin bad
      <4>1. n - 1 \in 1..L /\ ~(n <= n - 1)
        BY <1>1, <2>3, <2>5
      <4> HIDE DEF bad
      <4> QED BY <2>2, <4>1
    <3>2. node[n - 1] = s[n - 1]
      BY <3>1, Zenon
    <3>3. n - 1 # L /\ (n - 1) + 1 = n
      BY <1>1, <2>3
    <3>4. nx[s[n - 1]] = s[n]
      BY <1>3, <3>1, <3>3, Zenon
    <3> QED BY <1>2, <1>3, <2>3, <3>1, <3>2, <3>4
  <2> QED BY <2>4, <2>5
<1>5. LenFrom(tail, nx) = L
  <2> DEFINE back == {n \in 1..C : node[n] = tail}
  <2>1. LenFrom(tail, nx) = IF tail = NULL \/ back = {} THEN 0 ELSE Min(back)
    BY Zenon DEF LenFrom, node, C
  <2>2. CASE L = 0
    BY <1>3, <2>1, <2>2, Zenon
  <2>3. CASE L # 0
    <3>1. L \in 1..L /\ L \in back /\ tail # NULL
      BY <1>1, <1>3, <1>4, <2>3
    <3>2. \A n \in back : L <= n
      <4> SUFFICES ASSUME NEW n \in back, ~(L <= n) PROVE FALSE
        BY Zenon
      <4>1. n \in 1..L /\ node[n] = s[L]
        BY <1>1, <1>3, <2>3
      <4> QED BY <1>1, <1>3, <1>4, <3>1, <4>1
    <3>3. back \in SUBSET Nat
      OBVIOUS
    <3> HIDE DEF back
    <3>4. Min(back) \in back /\ Min(back) \in Nat /\ \A y \in back : Min(back) <= y
      BY <3>1, <3>3, MinOfNats, Zenon
    <3>5. Min(back) = L
      BY <1>1, <3>1, <3>2, <3>4
    <3> QED BY <2>1, <3>1, <3>5
  <2> QED BY <2>2, <2>3
<1>6. RingFrom(tail, nx) = s
  <2>1. RingFrom(tail, nx) = [n \in 1..L |-> node[n]]
    BY <1>5, Zenon DEF RingFrom, node
  <2>2. [n \in 1..L |-> node[n]] = [n \in 1..L |-> s[n]]
    BY <1>4, Zenon
  <2>3. s = [n \in 1..L |-> s[n]]
    BY <1>3, Zenon
  <2> QED BY <2>1, <2>2, <2>3
<1> QED
  BY <1>2, <1>4, <1>5, <1>6, Zenon DEF node, L

(* Hence the rings of a state are the queues that its links spell. *)
LEMMA RingsAre ==
  ASSUME NEW Q, NEW tails, NEW nx, Rings(Q, tails, nx)
  PROVE  Q = [i \in Intent |-> RingFrom(tails[i], nx)]
<1>1. Q \in [Intent -> Seq(Thread)]
  BY Zenon DEF Rings, Queues
<1>2. ASSUME NEW i \in Intent PROVE Q[i] = RingFrom(tails[i], nx)
  <2>1. tails[i] \in Thread \cup {NULL} /\ nx \in [Thread -> Thread \cup {NULL}]
        /\ Circle(Q[i], tails[i], nx)
    BY Zenon DEF Rings
  <2> QED BY <2>1, RingOf, ZenonT(30)
<1> QED
  BY <1>1, <1>2, Zenon

-----------------------------------------------------------------------------
(* What a circle says, position by position. *)
LEMMA CircleFacts ==
  ASSUME NEW s, NEW tail, NEW nx, Circle(s, tail, nx)
  PROVE  /\ s \in Seq(Thread) /\ Len(s) \in Nat /\ IsInjective(s)
         /\ \A k \in 1..Len(s) : s[k] \in Thread /\ s[k] # NULL /\ s[k] \in Range(s)
         /\ \A x \in Range(s) : x \in Thread /\ \E k \in 1..Len(s) : x = s[k]
         /\ \A j, k \in 1..Len(s) : s[j] = s[k] => j = k
         /\ \A k \in 1..Len(s) : nx[s[k]] = IF k = Len(s) THEN s[1] ELSE s[k + 1]
         /\ tail = IF Len(s) = 0 THEN NULL ELSE s[Len(s)]
         /\ s = <<>> <=> Len(s) = 0
  BY RingAssumption, MembersOfSeq, SeqItem, SeqLen, SeqNone DEF Circle

(* A sequence with those facts is a circle. *)
LEMMA CircleBy ==
  ASSUME NEW s \in Seq(Thread), NEW tail, NEW nx,
         \A j, k \in 1..Len(s) : s[j] = s[k] => j = k,
         \A k \in 1..Len(s) : nx[s[k]] = IF k = Len(s) THEN s[1] ELSE s[k + 1],
         tail = IF Len(s) = 0 THEN NULL ELSE s[Len(s)]
  PROVE  Circle(s, tail, nx)
<1>1. s = <<>> <=> Len(s) = 0
  BY SeqNone, Zenon
<1>2. IsInjective(s)
  BY MembersOfSeq, Zenon
<1> QED
  BY <1>1, <1>2, Zenon DEF Circle

(* A circle stays one as long as the links of its own threads do. *)
LEMMA CircleFrame ==
  ASSUME NEW s, NEW tail, NEW nx, NEW nx2, Circle(s, tail, nx),
         \A x \in Range(s) : nx2[x] = nx[x]
  PROVE  Circle(s, tail, nx2)
<1>1. \A k \in 1..Len(s) : s[k] \in Range(s)
  BY CircleFacts, Zenon
<1> QED
  BY <1>1, Zenon DEF Circle

(* Links as rq_insert_tail_locked leaves them. *)
InsertLinks(tail, nx, t) ==
  IF tail = NULL THEN [nx EXCEPT ![t] = t] ELSE [nx EXCEPT ![t] = nx[tail], ![tail] = t]

(* Linking a thread behind the tail appends it to the circle. *)
LEMMA InsertCircle ==
  ASSUME NEW s, NEW tail, NEW nx \in [Thread -> Thread \cup {NULL}], NEW t \in Thread,
         Circle(s, tail, nx), t \notin Range(s),
         NEW nx2, nx2 = InsertLinks(tail, nx, t)
  PROVE  /\ Circle(Append(s, t), t, nx2)
         /\ nx2 \in [Thread -> Thread \cup {NULL}]
         /\ \A x \in Thread \ Range(Append(s, t)) : nx2[x] = nx[x]
         /\ Range(Append(s, t)) = Range(s) \cup {t}
<1> DEFINE L == Len(s)
           r == Append(s, t)
<1>1. /\ s \in Seq(Thread) /\ L \in Nat
      /\ \A k \in 1..L : s[k] \in Thread /\ s[k] # NULL /\ s[k] \in Range(s)
      /\ \A j, k \in 1..L : s[j] = s[k] => j = k
      /\ \A k \in 1..L : nx[s[k]] = IF k = L THEN s[1] ELSE s[k + 1]
      /\ tail = IF L = 0 THEN NULL ELSE s[L]
  BY CircleFacts
<1>2. /\ r \in Seq(Thread) /\ Len(r) = L + 1
      /\ \A k \in 1..L : r[k] = s[k]
      /\ r[L + 1] = t
  BY <1>1, SeqAppend
<1>3. Range(r) = Range(s) \cup {t}
  BY <1>1, AppendMembers
<1>4. \A k \in 1..L : s[k] # t
  BY <1>1, Zenon
<1> HIDE DEF L, r
<1>5. \A j, k \in 1..Len(r) : r[j] = r[k] => j = k
  <2> SUFFICES ASSUME NEW j \in 1..(L + 1), NEW k \in 1..(L + 1), r[j] = r[k] PROVE j = k
    BY <1>2, Zenon
  <2>1. CASE j = L + 1 /\ k # L + 1
    BY <1>1, <1>2, <1>4, <2>1
  <2>2. CASE j # L + 1 /\ k = L + 1
    BY <1>1, <1>2, <1>4, <2>2
  <2>3. CASE j # L + 1 /\ k # L + 1
    <3>1. j \in 1..L /\ k \in 1..L
      BY <1>1, <2>3
    <3> QED BY <1>1, <1>2, <3>1
  <2> QED BY <2>1, <2>2, <2>3
<1>6. /\ nx2 \in [Thread -> Thread \cup {NULL}]
      /\ \A x \in Thread : x # t /\ x # tail => nx2[x] = nx[x]
      /\ tail = NULL => nx2[t] = t
      /\ tail # NULL => nx2[t] = nx[tail] /\ nx2[tail] = t
  <2>1. CASE L = 0
    BY <1>1, <2>1, RingAssumption, Zenon DEF InsertLinks
  <2>2. CASE L # 0
    <3>1. L \in 1..L /\ tail = s[L]
      BY <1>1, <2>2
    <3>2. tail \in Thread /\ tail # NULL /\ tail # t
      BY <1>1, <1>4, <3>1, Zenon
    <3> QED BY <3>2 DEF InsertLinks
  <2> QED BY <2>1, <2>2
<1>7. ASSUME NEW k \in 1..(L + 1)
      PROVE  nx2[r[k]] = IF k = L + 1 THEN r[1] ELSE r[k + 1]
  <2>1. CASE L = 0
    BY <1>1, <1>2, <1>6, <2>1
  <2>2. CASE L # 0
    <3>1. L \in 1..L /\ 1 \in 1..L /\ tail = s[L] /\ tail # NULL
      BY <1>1, <2>2
    <3>2. CASE k = L + 1
      <4>1. nx[tail] = s[1] /\ nx2[t] = nx[tail]
        BY <1>1, <1>6, <3>1, Zenon
      <4> QED BY <1>2, <3>1, <3>2, <4>1
    <3>3. CASE k = L
      <4>1. k # L + 1 /\ r[k] = tail /\ nx2[tail] = t
        BY <1>1, <1>2, <1>6, <3>1, <3>3, Zenon
      <4> QED BY <1>2, <3>3, <4>1
    <3>4. CASE k # L /\ k # L + 1
      <4>1. k \in 1..L /\ k + 1 \in 1..L
        BY <1>1, <3>4
      <4>2. s[k] # tail /\ s[k] # t /\ s[k] \in Thread /\ nx[s[k]] = s[k + 1]
        BY <1>1, <1>4, <3>1, <3>4, <4>1, Zenon
      <4> QED BY <1>2, <1>6, <3>4, <4>1, <4>2
    <3> QED BY <3>2, <3>3, <3>4
  <2> QED BY <2>1, <2>2
<1>8. Circle(r, t, nx2)
  <2>1. t = IF Len(r) = 0 THEN NULL ELSE r[Len(r)]
    BY <1>1, <1>2
  <2>2. \A k \in 1..Len(r) : nx2[r[k]] = IF k = Len(r) THEN r[1] ELSE r[k + 1]
    BY <1>2, <1>7, Zenon
  <2> QED BY <1>2, <1>5, <2>1, <2>2, CircleBy, Zenon
<1>9. \A x \in Thread \ Range(r) : nx2[x] = nx[x]
  <2>1. tail = NULL \/ tail \in Range(s)
    BY <1>1
  <2> QED BY <1>3, <1>6, <2>1, RingAssumption
<1> QED
  BY <1>3, <1>6, <1>8, <1>9, Zenon DEF r

(* Links and tail as rq_remove_locked leaves them when prev is before t, and   *)
(* the node before position n of a ring.                                      *)
UnlinkLinks(nx, prev, t) == [nx EXCEPT ![prev] = nx[t], ![t] = NULL]
UnlinkTail(tail, prev, t) == IF t = prev THEN NULL ELSE IF tail = t THEN prev ELSE tail
PrevAt(s, tail, n) == IF n = 1 THEN tail ELSE s[n - 1]

(* Unlinking the thread at position n, whose predecessor is the tail when n is *)
(* 1, leaves the circle without that position.  A thread that is its own       *)
(* predecessor is the only one, and the tail becomes NULL.                     *)
LEMMA UnlinkCircle ==
  ASSUME NEW s, NEW tail, NEW nx \in [Thread -> Thread \cup {NULL}],
         Circle(s, tail, nx), NEW n \in 1..Len(s),
         NEW t, t = s[n], NEW prev, prev = PrevAt(s, tail, n),
         NEW nx2, nx2 = UnlinkLinks(nx, prev, t),
         NEW tail2, tail2 = UnlinkTail(tail, prev, t)
  PROVE  /\ Circle(Unlinked(s, n), tail2, nx2)
         /\ tail2 \in Thread \cup {NULL}
         /\ nx2 \in [Thread -> Thread \cup {NULL}]
         /\ \A x \in Thread \ Range(s) : nx2[x] = nx[x]
         /\ Range(Unlinked(s, n)) = Range(s) \ {t}
         /\ nx2[t] = NULL
<1> DEFINE L == Len(s)
           r == Unlinked(s, n)
<1>1. /\ s \in Seq(Thread) /\ L \in Nat /\ IsInjective(s)
      /\ \A k \in 1..L : s[k] \in Thread /\ s[k] # NULL /\ s[k] \in Range(s)
      /\ \A j, k \in 1..L : s[j] = s[k] => j = k
      /\ \A k \in 1..L : nx[s[k]] = IF k = L THEN s[1] ELSE s[k + 1]
      /\ tail = IF L = 0 THEN NULL ELSE s[L]
  BY CircleFacts
<1>2. /\ r \in Seq(Thread) /\ Len(r) = L - 1
      /\ \A j \in 1..(L - 1) : r[j] = IF j < n THEN s[j] ELSE s[j + 1]
  BY <1>1, RemoveAtElements
<1>3. Range(r) = Range(s) \ {t}
  BY <1>1, RemoveAtMembers
<1>0. n \in 1..L
  BY Zenon
<1> HIDE DEF L, r
<1>4. L \in 1..L /\ 1 \in 1..L /\ tail = s[L] /\ (n # 1 => n - 1 \in 1..L)
  BY <1>1, <1>0
<1>5. PICK p \in 1..L : prev = s[p] /\ p = IF n = 1 THEN L ELSE n - 1
  BY <1>4, Zenon DEF PrevAt
<1>6. t \in Thread /\ prev \in Thread /\ tail \in Thread /\ t \in Range(s) /\ prev \in Range(s)
  BY <1>1, <1>0, <1>4, <1>5, Zenon
<1>7. /\ nx2 \in [Thread -> Thread \cup {NULL}]
      /\ nx2[t] = NULL
      /\ prev # t => nx2[prev] = nx[t]
      /\ \A x \in Thread : x # t /\ x # prev => nx2[x] = nx[x]
  BY <1>6, Zenon DEF UnlinkLinks
<1>8. \A k \in 1..L : /\ k # n => s[k] # t
                      /\ k # p => s[k] # prev
  BY <1>1, <1>0, <1>5, Zenon
<1>9. \A j, k \in 1..Len(r) : r[j] = r[k] => j = k
  <2> SUFFICES ASSUME NEW j \in 1..(L - 1), NEW k \in 1..(L - 1), r[j] = r[k] PROVE j = k
    BY <1>2, Zenon
  <2>1. j \in 1..L /\ k \in 1..L /\ j + 1 \in 1..L /\ k + 1 \in 1..L
    BY <1>1
  <2>2. r[j] = s[IF j < n THEN j ELSE j + 1] /\ r[k] = s[IF k < n THEN k ELSE k + 1]
    BY <1>2, Zenon
  <2>3. (IF j < n THEN j ELSE j + 1) = (IF k < n THEN k ELSE k + 1)
    BY <1>1, <2>1, <2>2, Zenon
  <2> QED BY <1>0, <2>1, <2>3
<1>10. ASSUME NEW j \in 1..(L - 1)
       PROVE  nx2[r[j]] = IF j = L - 1 THEN r[1] ELSE r[j + 1]
  <2>1. L >= 2 /\ j \in 1..L /\ j + 1 \in 1..L /\ 1 \in 1..(L - 1) /\ L \in 2..L
    BY <1>1
  <2>2. r[1] = IF n = 1 THEN s[2] ELSE s[1]
    BY <1>2, <1>0, <2>1
  <2>3. CASE j + 1 < n
    <3>1. r[j] = s[j] /\ j # L - 1 /\ j + 1 \in 1..(L - 1) /\ r[j + 1] = s[j + 1]
      BY <1>1, <1>2, <1>0, <2>1, <2>3
    <3>2. j # n /\ j # p /\ j # L
      BY <1>0, <1>5, <2>1, <2>3
    <3> QED BY <1>1, <1>7, <1>8, <2>1, <3>1, <3>2
  <2>4. CASE j + 1 = n
    <3>1. r[j] = prev /\ prev # t /\ n # 1
      BY <1>1, <1>2, <1>0, <1>5, <1>8, <2>1, <2>4
    <3>2. nx2[r[j]] = nx[s[n]]
      BY <1>7, <3>1, Zenon
    <3>3. CASE n = L
      BY <1>1, <1>0, <2>2, <2>4, <3>1, <3>2, <3>3
    <3>4. CASE n # L
      <4>1. j # L - 1 /\ j + 1 \in 1..(L - 1) /\ r[j + 1] = s[n + 1]
        BY <1>1, <1>2, <1>0, <2>1, <2>4, <3>4
      <4> QED BY <1>1, <1>0, <3>2, <3>4, <4>1
    <3> QED BY <3>3, <3>4
  <2>5. CASE n <= j
    <3>1. r[j] = s[j + 1] /\ j + 1 # n
      BY <1>2, <1>0, <2>1, <2>5
    <3>2. CASE j + 1 # L
      <4>1. j # L - 1 /\ j + 1 \in 1..(L - 1) /\ r[j + 1] = s[(j + 1) + 1]
        BY <1>1, <1>2, <1>0, <2>1, <2>5, <3>2
      <4>2. j + 1 # p
        BY <1>0, <1>5, <2>1, <2>5, <3>2
      <4> QED BY <1>1, <1>7, <1>8, <2>1, <3>1, <3>2, <4>1, <4>2
    <3>3. CASE j + 1 = L /\ n = 1
      <4>1. j = L - 1 /\ r[j] = prev /\ prev # t
        BY <1>1, <1>0, <1>5, <1>8, <2>1, <3>1, <3>3
      <4>2. nx[t] = s[2]
        BY <1>1, <1>0, <2>1, <3>3
      <4> QED BY <1>7, <2>2, <3>3, <4>1, <4>2
    <3>4. CASE j + 1 = L /\ n # 1
      <4>1. j = L - 1 /\ j + 1 # p
        BY <1>1, <1>0, <1>5, <2>1, <2>5, <3>4
      <4>2. nx2[s[j + 1]] = nx[s[j + 1]] /\ nx[s[j + 1]] = s[1]
        BY <1>1, <1>7, <1>8, <2>1, <3>1, <3>4, <4>1, Zenon
      <4> QED BY <2>2, <3>1, <3>4, <4>1, <4>2
    <3> QED BY <3>2, <3>3, <3>4
  <2> QED BY <1>0, <2>1, <2>3, <2>4, <2>5
<1>11. tail2 = IF Len(r) = 0 THEN NULL ELSE r[Len(r)]
  <2>1. CASE L = 1
    BY <1>1, <1>2, <1>0, <1>5, <2>1 DEF UnlinkTail
  <2>2. CASE L # 1
    <3>1. p # n /\ t # prev /\ L - 1 \in 1..(L - 1) /\ L - 1 # 0
      BY <1>1, <1>0, <1>4, <1>5, <1>8, <2>2
    <3>2. r[L - 1] = IF n = L THEN s[L - 1] ELSE s[L]
      BY <1>1, <1>2, <1>0, <3>1
    <3>3. CASE n = L
      BY <1>2, <1>4, <1>5, <2>2, <3>1, <3>2, <3>3, Zenon DEF UnlinkTail
    <3>4. CASE n # L
      BY <1>2, <1>4, <1>8, <3>1, <3>2, <3>4, Zenon DEF UnlinkTail
    <3> QED BY <3>3, <3>4
  <2> QED BY <2>1, <2>2
<1>12. Circle(r, tail2, nx2)
  <2>1. \A k \in 1..Len(r) : nx2[r[k]] = IF k = Len(r) THEN r[1] ELSE r[k + 1]
    BY <1>2, <1>10, Zenon
  <2> QED BY <1>2, <1>9, <1>11, <2>1, CircleBy, Zenon
<1> QED
  BY <1>3, <1>6, <1>7, <1>12, Zenon DEF r, UnlinkTail

-----------------------------------------------------------------------------
(* Changing the circle of one intent, and the links of its threads only,      *)
(* changes that queue and no other.                                           *)
LEMMA OneRing ==
  ASSUME NEW Q, NEW tails, NEW nx, Rings(Q, tails, nx), NEW i \in Intent,
         NEW s, NEW tail \in Thread \cup {NULL}, NEW nx2 \in [Thread -> Thread \cup {NULL}],
         Circle(s, tail, nx2),
         \A x \in Thread \ (Range(Q[i]) \cup Range(s)) : nx2[x] = nx[x],
         \A x \in Range(Q[i]) \ Range(s) : nx2[x] = NULL,
         \A j \in Intent : j # i => Range(s) \cap Range(Q[j]) = {}
  PROVE  Rings([Q EXCEPT ![i] = s], [tails EXCEPT ![i] = tail], nx2)
<1> DEFINE Q2 == [Q EXCEPT ![i] = s]
           tails2 == [tails EXCEPT ![i] = tail]
<1>1. /\ Q \in [Intent -> Seq(Thread)]
      /\ tails \in [Intent -> Thread \cup {NULL}]
      /\ \A j \in Intent : Circle(Q[j], tails[j], nx)
      /\ \A j, k \in Intent : j # k => Range(Q[j]) \cap Range(Q[k]) = {}
      /\ \A t \in Thread : nx[t] # NULL <=> \E j \in Intent : t \in Range(Q[j])
  BY Zenon DEF Rings, Queues
<1>2. s \in Seq(Thread) /\ \A x \in Range(s) : x \in Thread /\ nx2[x] # NULL
  <2>1. /\ s \in Seq(Thread) /\ Len(s) \in Nat
        /\ \A k \in 1..Len(s) : s[k] \in Thread /\ s[k] # NULL
        /\ \A x \in Range(s) : x \in Thread /\ \E k \in 1..Len(s) : x = s[k]
        /\ \A k \in 1..Len(s) : nx2[s[k]] = IF k = Len(s) THEN s[1] ELSE s[k + 1]
    BY CircleFacts
  <2>2. ASSUME NEW k \in 1..Len(s) PROVE nx2[s[k]] # NULL
    <3>1. 1 \in 1..Len(s) /\ (k # Len(s) => k + 1 \in 1..Len(s))
      BY <2>1
    <3> QED BY <2>1, <3>1
  <2> QED BY <2>1, <2>2
<1>3. /\ Q2 \in Queues(Thread) /\ tails2 \in [Intent -> Thread \cup {NULL}]
      /\ Q2[i] = s /\ tails2[i] = tail
      /\ \A j \in Intent : j # i => Q2[j] = Q[j] /\ tails2[j] = tails[j]
  BY <1>1, <1>2 DEF Queues
<1> HIDE DEF Q2, tails2
<1>4. ASSUME NEW j \in Intent PROVE Circle(Q2[j], tails2[j], nx2)
  <2>1. CASE j = i
    BY <1>3, <2>1, Zenon
  <2>2. CASE j # i
    <3>1. Circle(Q[j], tails[j], nx) /\ \A x \in Range(Q[j]) : x \in Thread
      BY <1>1, CircleFacts, Zenon
    <3>2. \A x \in Range(Q[j]) : x \notin Range(s) /\ x \notin Range(Q[i])
      BY <1>1, <2>2, Zenon
    <3>3. \A x \in Range(Q[j]) : nx2[x] = nx[x]
      BY <3>1, <3>2, Zenon
    <3> QED BY <1>3, <2>2, <3>1, <3>3, CircleFrame
  <2> QED BY <2>1, <2>2
<1>5. \A j, k \in Intent : j # k => Range(Q2[j]) \cap Range(Q2[k]) = {}
  <2> TAKE j, k \in Intent
  <2>1. CASE j = i
    BY <1>3, <2>1, Zenon
  <2>2. CASE k = i
    BY <1>3, <2>2, Zenon
  <2>3. CASE j # i /\ k # i
    BY <1>1, <1>3, <2>3
  <2> QED BY <2>1, <2>2, <2>3
<1>6. ASSUME NEW t \in Thread
      PROVE  nx2[t] # NULL <=> \E j \in Intent : t \in Range(Q2[j])
  <2>1. CASE t \in Range(s)
    BY <1>2, <1>3, <2>1, Zenon
  <2>2. CASE t \notin Range(s) /\ t \in Range(Q[i])
    <3>1. \A j \in Intent : t \notin Range(Q2[j])
      BY <1>1, <1>3, <2>2, Zenon
    <3> QED BY <2>2, <3>1
  <2>3. CASE t \notin Range(s) /\ t \notin Range(Q[i])
    <3>1. \A j \in Intent : t \in Range(Q2[j]) <=> t \in Range(Q[j])
      BY <1>3, <2>3, Zenon
    <3>2. nx2[t] = nx[t]
      BY <2>3, Zenon
    <3> QED BY <1>1, <3>1, <3>2
  <2> QED BY <2>1, <2>2, <2>3
<1> QED
  BY <1>3, <1>4, <1>5, <1>6, Zenon DEF Rings, Q2, tails2

(* RInv is about the rings read off the links; after a step they are whatever *)
(* queues the new links spell.                                                *)
LEMMA RingsAfter ==
  ASSUME NEW Q, Rings(Q, s_ready_tail', rq_next')
  PROVE  RInv' /\ AllRings' = Q
<1>1. AllRings' = [i \in Intent |-> RingFrom(s_ready_tail'[i], rq_next')]
  BY Zenon DEF AllRings, Ring
<1>2. Q = [i \in Intent |-> RingFrom(s_ready_tail'[i], rq_next')]
  BY RingsAre
<1>3. AllRings' = Q
  BY <1>1, <1>2, Zenon
<1> QED
  BY <1>3, Zenon DEF RInv

(* What RInv says of the ring of one intent. *)
LEMMA RingNow ==
  ASSUME RInv, NEW i \in Intent
  PROVE  /\ AllRings[i] = Ring(i)
         /\ Circle(Ring(i), s_ready_tail[i], rq_next)
         /\ s_ready_tail[i] \in Thread \cup {NULL}
         /\ rq_next \in [Thread -> Thread \cup {NULL}]
         /\ RingLen(i) = Len(Ring(i))
         /\ Node(i)[0] = s_ready_tail[i]
         /\ \A n \in 1..Len(Ring(i)) : Node(i)[n] = Ring(i)[n]
<1>1. AllRings[i] = Ring(i)
  BY Zenon DEF AllRings
<1>2. /\ Circle(Ring(i), s_ready_tail[i], rq_next)
      /\ s_ready_tail[i] \in Thread \cup {NULL}
      /\ rq_next \in [Thread -> Thread \cup {NULL}]
  BY <1>1, Zenon DEF RInv, Rings
<1>3. /\ LenFrom(s_ready_tail[i], rq_next) = Len(Ring(i))
      /\ NodeFrom(s_ready_tail[i], rq_next)[0] = s_ready_tail[i]
      /\ \A n \in 1..Len(Ring(i)) : NodeFrom(s_ready_tail[i], rq_next)[n] = Ring(i)[n]
  BY <1>2, RingOf, Zenon
<1> QED
  BY <1>1, <1>2, <1>3, Zenon DEF RingLen, Node

(* rq_insert_tail_locked appends to the queue of the intent. *)
LEMMA InsertStep ==
  ASSUME RInv, NEW i \in Intent, NEW t \in Thread, rq_insert_tail_locked(i, t)
  PROVE  RInv' /\ ~Queued(AllRings, t) /\ AllRings' = rq_insert_tail(AllRings, i, t)
<1> DEFINE s == Ring(i)
<1>1. /\ AllRings[i] = s /\ Circle(s, s_ready_tail[i], rq_next)
      /\ rq_next \in [Thread -> Thread \cup {NULL}]
  BY RingNow, Zenon
<1>2. \A j \in Intent : t \notin Range(AllRings[j])
  BY Zenon DEF rq_insert_tail_locked, RInv, Rings
<1>3. /\ rq_next' = InsertLinks(s_ready_tail[i], rq_next, t)
      /\ s_ready_tail' = [s_ready_tail EXCEPT ![i] = t]
  BY Zenon DEF rq_insert_tail_locked, InsertLinks
<1> HIDE DEF s
<1>4. /\ Circle(Append(s, t), t, rq_next')
      /\ rq_next' \in [Thread -> Thread \cup {NULL}]
      /\ \A x \in Thread \ Range(Append(s, t)) : rq_next'[x] = rq_next[x]
      /\ Range(Append(s, t)) = Range(s) \cup {t}
  BY <1>1, <1>2, <1>3, InsertCircle
<1>5. \A j \in Intent : j # i => Range(Append(s, t)) \cap Range(AllRings[j]) = {}
  <2>1. \A j \in Intent : j # i => Range(s) \cap Range(AllRings[j]) = {}
    BY <1>1, Zenon DEF RInv, Rings
  <2> QED BY <1>2, <1>4, <2>1
<1>6. Rings([AllRings EXCEPT ![i] = Append(s, t)], s_ready_tail', rq_next')
  <2>1. \A x \in Thread \ (Range(AllRings[i]) \cup Range(Append(s, t))) : rq_next'[x] = rq_next[x]
    BY <1>4, Zenon
  <2>2. \A x \in Range(AllRings[i]) \ Range(Append(s, t)) : rq_next'[x] = NULL
    BY <1>1, <1>4, Zenon
  <2> QED BY <1>3, <1>4, <1>5, <2>1, <2>2, OneRing, Zenon DEF RInv
<1> QED
  BY <1>1, <1>2, <1>6, RingsAfter, Zenon DEF Queued, rq_insert_tail

(* Unlinking position n of a ring removes that position from its queue. *)
LEMMA UnlinkStep ==
  ASSUME RInv, NEW i \in Intent, NEW n \in 1..Len(Ring(i)), NEW prev,
         prev = PrevAt(Ring(i), s_ready_tail[i], n),
         NEW t, t = Ring(i)[n],
         rq_next' = UnlinkLinks(rq_next, prev, t),
         s_ready_tail' = [s_ready_tail EXCEPT ![i] = UnlinkTail(@, prev, t)]
  PROVE  RInv' /\ AllRings' = [AllRings EXCEPT ![i] = Unlinked(Ring(i), n)]
<1> DEFINE s == Ring(i)
           tail == s_ready_tail[i]
           tail2 == UnlinkTail(tail, prev, t)
           r == Unlinked(s, n)
<1>1. /\ AllRings[i] = s /\ Circle(s, tail, rq_next)
      /\ rq_next \in [Thread -> Thread \cup {NULL}]
  BY RingNow, Zenon
<1>2. s_ready_tail' = [s_ready_tail EXCEPT ![i] = tail2]
  BY Zenon DEF RInv, Rings
<1>3. /\ Circle(r, tail2, rq_next')
      /\ tail2 \in Thread \cup {NULL}
      /\ rq_next' \in [Thread -> Thread \cup {NULL}]
      /\ \A x \in Thread \ Range(s) : rq_next'[x] = rq_next[x]
      /\ Range(r) = Range(s) \ {t}
      /\ rq_next'[t] = NULL
  BY <1>1, UnlinkCircle
<1> HIDE DEF s, tail, tail2, r
<1>4. Rings([AllRings EXCEPT ![i] = r], s_ready_tail', rq_next')
  <2>1. \A j \in Intent : j # i => Range(r) \cap Range(AllRings[j]) = {}
    BY <1>1, <1>3, Zenon DEF RInv, Rings
  <2>2. \A x \in Thread \ (Range(AllRings[i]) \cup Range(r)) : rq_next'[x] = rq_next[x]
    BY <1>1, <1>3, Zenon
  <2>3. \A x \in Range(AllRings[i]) \ Range(r) : rq_next'[x] = NULL
    BY <1>1, <1>3, Zenon
  <2>4. Rings([AllRings EXCEPT ![i] = r], [s_ready_tail EXCEPT ![i] = tail2], rq_next')
    <3>1. Rings(AllRings, s_ready_tail, rq_next)
      BY Zenon DEF RInv
    <3>2. /\ Circle(r, tail2, rq_next') /\ tail2 \in Thread \cup {NULL}
          /\ rq_next' \in [Thread -> Thread \cup {NULL}]
      BY <1>3, Zenon
    <3> QED BY <2>1, <2>2, <2>3, <3>1, <3>2, OneRing, Zenon
  <2> QED BY <1>2, <2>4, Zenon
<1> QED
  BY <1>4, RingsAfter, Zenon DEF r, s

(* rq_pop_head_intent_locked unlinks the head, whose predecessor is the tail. *)
LEMMA PopStep ==
  ASSUME RInv, NEW i \in Intent, rq_pop_head_intent_locked(i)
  PROVE  RInv' /\ AllRings[i] # <<>> /\ AllRings' = rq_pop_head(AllRings, i)
<1> DEFINE s == Ring(i)
           tail == s_ready_tail[i]
           head == rq_next[tail]
<1>1. /\ AllRings[i] = s /\ Circle(s, tail, rq_next)
      /\ rq_next \in [Thread -> Thread \cup {NULL}]
      /\ s_ready_tail \in [Intent -> Thread \cup {NULL}]
  BY RingNow, Zenon DEF RInv, Rings
<1>2. /\ tail # NULL
      /\ s_ready_tail' = IF head = tail THEN [s_ready_tail EXCEPT ![i] = NULL] ELSE s_ready_tail
      /\ rq_next' = IF head = tail THEN [rq_next EXCEPT ![head] = NULL]
                    ELSE [rq_next EXCEPT ![tail] = rq_next[head], ![head] = NULL]
  BY Zenon DEF rq_pop_head_intent_locked
<1>3. /\ s \in Seq(Thread) /\ Len(s) \in Nat /\ Len(s) # 0 /\ s # <<>>
      /\ tail \in Thread /\ head \in Thread /\ head = s[1] /\ 1 \in 1..Len(s)
  <2>1. /\ s \in Seq(Thread) /\ Len(s) \in Nat /\ Len(s) # 0 /\ s # <<>>
        /\ \A k \in 1..Len(s) : s[k] \in Thread
        /\ \A k \in 1..Len(s) : rq_next[s[k]] = IF k = Len(s) THEN s[1] ELSE s[k + 1]
        /\ tail = s[Len(s)]
    BY <1>1, <1>2, CircleFacts
  <2>2. Len(s) \in 1..Len(s) /\ 1 \in 1..Len(s)
    BY <2>1
  <2> QED BY <2>1, <2>2
<1>4. rq_next' = UnlinkLinks(rq_next, tail, head)
  BY <1>1, <1>2, <1>3, Zenon DEF UnlinkLinks
<1>5. s_ready_tail' = [s_ready_tail EXCEPT ![i] = UnlinkTail(@, tail, head)]
  BY <1>1, <1>2, Zenon DEF UnlinkTail
<1>6. tail = PrevAt(s, tail, 1)
  BY Zenon DEF PrevAt
<1>7. RInv' /\ AllRings' = [AllRings EXCEPT ![i] = Unlinked(s, 1)]
  BY <1>3, <1>4, <1>5, <1>6, UnlinkStep, Zenon
<1>8. Unlinked(s, 1) = Tail(s)
  <2> HIDE DEF s
  <2> DEFINE r == Unlinked(s, 1)
  <2>1. /\ r \in Seq(Thread) /\ Len(r) = Len(s) - 1
        /\ \A j \in 1..(Len(s) - 1) : r[j] = IF j < 1 THEN s[j] ELSE s[j + 1]
    BY <1>3, RemoveAtElements, Zenon
  <2>2. /\ Tail(s) \in Seq(Thread) /\ Len(Tail(s)) = Len(s) - 1
        /\ \A j \in 1..(Len(s) - 1) : Tail(s)[j] = s[j + 1]
    BY <1>3, SeqHeadTail, Zenon
  <2> HIDE DEF r
  <2>3. \A j \in 1..Len(r) : r[j] = Tail(s)[j]
    BY <1>3, <2>1, <2>2
  <2>4. r = Tail(s)
    BY <2>1, <2>2, <2>3, SeqSame, Zenon
  <2> QED BY <2>4 DEF r
<1> QED
  BY <1>1, <1>3, <1>7, <1>8, Zenon DEF rq_pop_head

(* rq_remove_locked unlinks the thread from the one ring it is in. *)
LEMMA RemoveStep ==
  ASSUME RInv, NEW t \in Thread, rq_remove_locked(t)
  PROVE  RInv' /\ AllRings' = rq_remove(AllRings, t)
<1>1. PICK i \in Intent : \E n \in 1..RingLen(i) :
        /\ Node(i)[n] = t
        /\ rq_next' = [rq_next EXCEPT ![Node(i)[n-1]] = rq_next[t], ![t] = NULL]
        /\ s_ready_tail' = [s_ready_tail EXCEPT
             ![i] = IF t = Node(i)[n-1] THEN NULL ELSE IF @ = t THEN Node(i)[n-1] ELSE @]
  BY Zenon DEF rq_remove_locked
<1> DEFINE s == Ring(i)
<1>2. /\ AllRings[i] = s
      /\ Circle(s, s_ready_tail[i], rq_next)
      /\ RingLen(i) = Len(s)
      /\ Node(i)[0] = s_ready_tail[i]
      /\ \A n \in 1..Len(s) : Node(i)[n] = s[n]
  BY RingNow, Zenon
<1>3. PICK n \in 1..Len(s) :
        /\ s[n] = t
        /\ rq_next' = UnlinkLinks(rq_next, Node(i)[n-1], t)
        /\ s_ready_tail' = [s_ready_tail EXCEPT ![i] = UnlinkTail(@, Node(i)[n-1], t)]
  BY <1>1, <1>2, Zenon DEF UnlinkLinks, UnlinkTail
<1>4. Node(i)[n-1] = PrevAt(s, s_ready_tail[i], n)
  <2>1. Len(s) \in Nat
    BY <1>2, CircleFacts, Zenon
  <2>2. CASE n = 1
    BY <1>2, <2>2 DEF PrevAt
  <2>3. CASE n # 1
    <3>1. n - 1 \in 1..Len(s)
      BY <2>1, <2>3
    <3> QED BY <1>2, <2>3, <3>1 DEF PrevAt
  <2> QED BY <2>2, <2>3
<1>5. RInv' /\ AllRings' = [AllRings EXCEPT ![i] = Unlinked(s, n)]
  BY <1>3, <1>4, UnlinkStep, Zenon
<1>6. rq_remove(AllRings, t) = [AllRings EXCEPT ![i] = Unlinked(s, n)]
  <2>1. AllRings \in Queues(Thread)
    BY Zenon DEF RInv, Rings
  <2>2. IsInjective(AllRings[i]) /\ t \in Range(AllRings[i])
    BY <1>2, <1>3, CircleFacts
  <2>3. \A j \in Intent : t \in Range(AllRings[j]) => j = i
    BY <2>2, Zenon DEF RInv, Rings
  <2>4. n \in 1..Len(AllRings[i]) /\ AllRings[i][n] = t
    BY <1>2, <1>3, Zenon
  <2>5. \A j \in Intent : AllRings[i][n] \in Range(AllRings[j]) => j = i
    BY <2>3, <2>4, Zenon
  <2>6. rq_remove(AllRings, AllRings[i][n]) = [AllRings EXCEPT ![i] = Unlinked(@, n)]
    BY <2>1, <2>2, <2>4, <2>5, RemoveIs, Zenon
  <2> QED BY <1>2, <2>4, <2>6
<1> QED
  BY <1>5, <1>6, Zenon

(* No ring is linked at the start. *)
LEMMA InitRInv ==
  ASSUME RingInit
  PROVE  RInv /\ AllRings = EmptyQueues
<1>1. Rings(EmptyQueues, s_ready_tail, rq_next)
  <2>1. <<>> \in Seq(Thread) /\ Len(<<>>) = 0 /\ Range(<<>>) = {}
    BY SeqNone DEF Range
  <2>2. \A j, k \in 1..Len(<<>>) : <<>>[j] = <<>>[k] => j = k
    BY <2>1
  <2>3. Circle(<<>>, NULL, rq_next)
    <3>1. IsInjective(<<>>)
      BY <2>1, MembersOfSeq, Zenon
    <3>2. 1..Len(<<>>) = {}
      BY <2>1
    <3> QED BY <2>1, <3>1, <3>2 DEF Circle
  <2>4. \A i \in Intent : EmptyQueues[i] = <<>> /\ s_ready_tail[i] = NULL
    BY Zenon DEF EmptyQueues, RingInit
  <2> QED
    BY <2>1, <2>3, <2>4, Zenon DEF Rings, RingInit, EmptyQueues, Queues
<1>2. EmptyQueues = [i \in Intent |-> RingFrom(s_ready_tail[i], rq_next)]
  BY <1>1, RingsAre
<1>3. AllRings = EmptyQueues
  BY <1>2, Zenon DEF AllRings, Ring
<1> QED
  BY <1>1, <1>3, Zenon DEF RInv

(* The operations FifoQueues promises are those of ReadyQueues. *)
LEMMA SameOperations ==
  /\ Abstract!Intent = Intent
  /\ Abstract!EmptyQueues = EmptyQueues
  /\ \A rq, t : Abstract!Queued(rq, t) = Queued(rq, t)
  /\ \A rq, i, t : Abstract!rq_insert_tail(rq, i, t) = rq_insert_tail(rq, i, t)
  /\ \A rq, i : Abstract!rq_pop_head(rq, i) = rq_pop_head(rq, i)
  /\ \A rq, t : Abstract!rq_remove(rq, t) = rq_remove(rq, t)
<1>1. Abstract!Intent = Intent
  BY Zenon DEF Abstract!Intent, Intent
<1>2. Abstract!EmptyQueues = EmptyQueues
  BY <1>1, Zenon DEF Abstract!EmptyQueues, EmptyQueues
<1>3. \A rq, t : Abstract!Queued(rq, t) = Queued(rq, t)
  BY <1>1, Zenon DEF Abstract!Queued, Queued, Abstract!Range, Range
<1>4. \A rq, i, t : Abstract!rq_insert_tail(rq, i, t) = rq_insert_tail(rq, i, t)
  BY Zenon DEF Abstract!rq_insert_tail, rq_insert_tail
<1>5. \A rq, i : Abstract!rq_pop_head(rq, i) = rq_pop_head(rq, i)
  BY Zenon DEF Abstract!rq_pop_head, rq_pop_head
<1>6. \A rq, t : Abstract!rq_remove(rq, t) = rq_remove(rq, t)
  <2> TAKE rq, t
  <2> DEFINE hit == {i \in Intent : t \in Range(rq[i])}
  <2>1. Abstract!Min(hit) = Min(hit)
    BY Zenon DEF Abstract!Min, Min
  <2>2. \A s, k : Abstract!Unlinked(s, k) = Unlinked(s, k)
    BY Zenon DEF Abstract!Unlinked, Unlinked
  <2>3. \A s : Abstract!FirstIndex(s, t) = FirstIndex(s, t)
    BY Zenon DEF Abstract!FirstIndex, FirstIndex
  <2>4. {i \in Abstract!Intent : t \in Abstract!Range(rq[i])} = hit
    BY <1>1, Zenon DEF Abstract!Range, Range
  <2> HIDE DEF hit
  <2>5. Abstract!rq_remove(rq, t) =
          IF hit = {} THEN rq
          ELSE [rq EXCEPT ![Min(hit)] = Unlinked(@, FirstIndex(@, t))]
    BY <2>1, <2>2, <2>3, <2>4, Zenon DEF Abstract!rq_remove
  <2>6. rq_remove(rq, t) =
          IF hit = {} THEN rq
          ELSE [rq EXCEPT ![Min(hit)] = Unlinked(@, FirstIndex(@, t))]
    BY Zenon DEF rq_remove, hit
  <2> QED BY <2>5, <2>6
<1> QED
  BY <1>1, <1>2, <1>3, <1>4, <1>5, <1>6, Zenon

(* Every step of the linked rings is the abstract step on their walks. *)
LEMMA RingStep ==
  ASSUME RInv, [RingNext]_ringVars
  PROVE  RInv' /\ [Abstract!NextFifo]_AllRings
<1>1. ASSUME NEW i \in Intent, NEW t \in Thread, rq_insert_tail_locked(i, t)
      PROVE  RInv' /\ Abstract!NextFifo
  <2>1. RInv' /\ Abstract!Insert(i, t)
    BY <1>1, InsertStep, SameOperations, Zenon DEF Abstract!Insert, AllRings
  <2> QED BY <2>1, SameOperations DEF Abstract!NextFifo
<1>2. ASSUME NEW i \in Intent, rq_pop_head_intent_locked(i)
      PROVE  RInv' /\ Abstract!NextFifo
  <2>1. RInv' /\ Abstract!Pop(i)
    BY <1>2, PopStep, SameOperations, Zenon DEF Abstract!Pop, AllRings
  <2> QED BY <2>1, SameOperations DEF Abstract!NextFifo
<1>3. ASSUME NEW t \in Thread, rq_remove_locked(t)
      PROVE  RInv' /\ Abstract!NextFifo
  <2>1. RInv' /\ Abstract!Unlink(t)
    BY <1>3, RemoveStep, SameOperations, Zenon DEF Abstract!Unlink, AllRings
  <2> QED BY <2>1, SameOperations DEF Abstract!NextFifo
<1>4. ASSUME UNCHANGED ringVars
      PROVE  RInv' /\ AllRings' = AllRings
  <2>1. s_ready_tail' = s_ready_tail /\ rq_next' = rq_next
    BY <1>4, Zenon DEF ringVars
  <2> QED BY <2>1, RingsAfter DEF RInv
<1> QED
  BY <1>1, <1>2, <1>3, <1>4, Zenon DEF RingNext

(* The ready rings of sched.c are well formed: each walk is a circle of         *)
(* different threads, and no thread is in two rings.                            *)
THEOREM RingInvariant == RingSpec => []RInv
<1>1. RingInit => RInv
  BY InitRInv, Zenon
<1>2. RInv /\ [RingNext]_ringVars => RInv'
  BY RingStep, Zenon
<1> QED
  BY <1>1, <1>2, PTL DEF RingSpec

(* rq_next is non-NULL for exactly the threads that some ring holds, so the     *)
(* tests of rq_insert_tail_locked and sched_set_thread_intent on rq_next decide *)
(* membership, for any number of threads.                                       *)
THEOREM LinksAreQueues == RingSpec => []LinkMeansQueued
<1>1. RInv => LinkMeansQueued
  BY Zenon DEF RInv, Rings, LinkMeansQueued, AllRings
<1> QED
  BY <1>1, RingInvariant, PTL

(* Insertion at the tail, removal of the head and unlinking from the middle do  *)
(* to the walk of one ring what Append, Tail and Unlinked do to a sequence, and *)
(* leave the other rings alone, for any number of threads.                      *)
THEOREM FifoRefinement == RingSpec => ImplementsFifo
<1>1. RingInit => Abstract!InitFifo
  BY InitRInv, SameOperations, Zenon DEF Abstract!InitFifo, AllRings
<1>2. RInv /\ [RingNext]_ringVars => [Abstract!NextFifo]_AllRings
  BY RingStep, Zenon
<1> QED
  BY <1>1, <1>2, RingInvariant, PTL DEF RingSpec, ImplementsFifo, Abstract!Fifo, AllRings

(* ------------------------------ deferred work ----------------------------- *)

(* A queue of items, by its head, its tail and the links between them. *)
QueueType == [head : Items \cup {NULL}, tail : Items \cup {NULL}, next : [Items -> Items \cup {NULL}]]

(* The queue x holds the items of s in this order. *)
InQueue(s, x) == Spells(Items, NULL, s, x.head, x.tail, x.next)

(* The links spell the ghost order, and an item is marked queued exactly while*)
(* it is in it.                                                               *)
WorkInv ==
  /\ q \in QueueType /\ item \in [Items -> {"free", "held", "queued", "running"}]
  /\ InQueue(order, q)
  /\ \A i \in Items : (item[i] = "queued") <=> i \in Range(order)

(* work_queue.c, workq_enqueue_from_irq. *)
LEMMA EnqueueAppends ==
  ASSUME NEW x \in QueueType, NEW s, InQueue(s, x), NEW i \in Items, i \notin Range(s)
  PROVE  /\ workq_enqueue_from_irq(x, i) \in QueueType
         /\ InQueue(Append(s, i), workq_enqueue_from_irq(x, i))
<1> DEFINE y == workq_enqueue_from_irq(x, i)
           nx == [x.next EXCEPT ![i] = NULL]
<1>1. NULL \notin Items /\ x.next \in [Items -> Items \cup {NULL}] /\ x.tail \in Items \cup {NULL}
  BY ItemsAssumption, Zenon DEF QueueType
<1>2. /\ s \in Seq(Items) /\ (x.tail = NULL <=> s = <<>>) /\ (x.tail # NULL => x.tail \in Range(s))
      /\ Range(s) \subseteq Items
  BY <1>1, SpellsFacts, MembersOfSeq DEF InQueue
<1>3. CASE x.tail # NULL
  <2> DEFINE n2 == [nx EXCEPT ![x.tail] = i]
  <2>1. y = [x EXCEPT !.next = n2, !.tail = i]
    BY <1>3, Zenon DEF workq_enqueue_from_irq
  <2>2. x.tail \in Items /\ x.tail # i
    BY <1>1, <1>2, <1>3, Zenon
  <2>a. n2 \in [Items -> Items \cup {NULL}]
    BY <1>1, <2>2, Zenon
  <2>3. y \in QueueType /\ y.head = x.head /\ y.tail = i /\ y.next = n2
    <3> HIDE DEF n2, y
    <3> QED
      BY <2>1, <2>a, Zenon DEF QueueType
  <2>4. /\ y.next[i] = NULL /\ y.next[x.tail] = i
        /\ \A k \in Range(s) : k # x.tail => y.next[k] = x.next[k]
    BY <1>1, <1>2, <2>2, <2>3, Zenon
  <2> HIDE DEF y
  <2>b. y.head = IF x.tail # NULL THEN x.head ELSE i
    BY <1>3, <2>3, Zenon
  <2>c. Spells(Items, NULL, s, x.head, x.tail, x.next)
    BY Zenon DEF InQueue
  <2>d. Spells(Items, NULL, Append(s, i), y.head, i, y.next)
    <3> HIDE DEF nx, n2
    <3> QED
      BY <1>1, <2>4, <2>b, <2>c, SpellsAppend
  <2>5. InQueue(Append(s, i), y)
    BY <2>3, <2>d, Zenon DEF InQueue
  <2> QED
    BY <2>3, <2>5, Zenon DEF y
<1>4. CASE x.tail = NULL
  <2>1. y = [head |-> i, tail |-> i, next |-> nx]
    BY <1>4, Zenon DEF workq_enqueue_from_irq
  <2>2. y \in QueueType /\ y.head = i /\ y.tail = i /\ y.next = nx
    BY <1>1, <2>1 DEF QueueType
  <2>3. y.next[i] = NULL /\ \A k \in Range(s) : k # x.tail => y.next[k] = x.next[k]
    BY <1>1, <1>2, <2>2, Zenon
  <2> HIDE DEF y
  <2>a. y.head = IF x.tail # NULL THEN x.head ELSE i
    BY <1>4, <2>2, Zenon
  <2>b. Spells(Items, NULL, s, x.head, x.tail, x.next)
    BY Zenon DEF InQueue
  <2>c. Spells(Items, NULL, Append(s, i), y.head, i, y.next)
    <3> HIDE DEF nx
    <3> QED
      BY <1>1, <1>4, <2>3, <2>a, <2>b, SpellsAppend
  <2>4. InQueue(Append(s, i), y)
    BY <2>2, <2>c, Zenon DEF InQueue
  <2> QED
    BY <2>2, <2>4, Zenon DEF y
<1> QED
  BY <1>3, <1>4, Zenon

(* work_queue.c, workq_dequeue. *)
LEMMA DequeueTakesHead ==
  ASSUME NEW x \in QueueType, NEW s, InQueue(s, x), x.head # NULL
  PROVE  /\ s # <<>> /\ x.head = Head(s) /\ x.head \in Items
         /\ workq_dequeue(x) \in QueueType /\ InQueue(Tail(s), workq_dequeue(x))
<1> DEFINE y == workq_dequeue(x)
<1>1. /\ NULL \notin Items /\ x.next \in [Items -> Items \cup {NULL}] /\ x.tail \in Items \cup {NULL}
      /\ x.head \in Items
  BY ItemsAssumption, Zenon DEF QueueType
<1>2. y = [head |-> x.next[x.head], tail |-> IF x.next[x.head] = NULL THEN NULL ELSE x.tail,
           next |-> [x.next EXCEPT ![x.head] = NULL]]
  BY Zenon DEF workq_dequeue
<1>3. /\ y \in QueueType /\ y.head = x.next[x.head]
      /\ y.tail = IF x.next[x.head] # NULL THEN x.tail ELSE NULL
      /\ y.next = [x.next EXCEPT ![x.head] = NULL]
  BY <1>1, <1>2 DEF QueueType
<1>4. s \in Seq(Items) /\ Range(s) \subseteq Items
  BY MembersOfSeq, Zenon DEF InQueue, Spells
<1>5. \A k \in Range(s) : k # x.head => y.next[k] = x.next[k]
  BY <1>1, <1>3, <1>4, Zenon
<1> HIDE DEF y
<1>6. s # <<>> /\ x.head = Head(s) /\ Spells(Items, NULL, Tail(s), x.next[x.head], y.tail, y.next)
  BY <1>1, <1>3, <1>5, SpellsTail, Zenon DEF InQueue
<1>7. InQueue(Tail(s), y)
  BY <1>3, <1>6, Zenon DEF InQueue
<1> QED
  BY <1>1, <1>3, <1>6, <1>7, Zenon DEF y

(* Only an interrupt handler and the core thread's drain loop touch the queue,*)
(* and a power failure empties it.                                            *)
LEMMA WorkKinds ==
  ASSUME Next
  PROVE  UNCHANGED workVars \/ Drain \/ RunItem \/ Crash
           \/ (\E i \in Items : work_item_alloc(i))
           \/ (\E i \in Items : /\ item[i] = "held" /\ q' = workq_enqueue_from_irq(q, i)
                                /\ item' = [item EXCEPT ![i] = "queued"] /\ order' = Append(order, i))
<1>1. CASE hal_block_init \/ block_sanity_test \/ SanityReturns \/ hal_irq_init \/ irq_global_enable
  BY <1>1, Zenon DEF hal_block_init, block_sanity_test, SanityReturns, hal_irq_init, irq_global_enable
<1>2. CASE Pump \/ core_poll \/ Wfi
  BY <1>2, Zenon DEF Pump, core_poll, Wfi, Goto
<1>3. CASE StartFile \/ BlockCall \/ BlockReturns
  BY <1>3, Zenon DEF StartFile, BlockCall, BlockReturns
<1>4. ASSUME NEW id \in {TIMER_PPI_IRQ, DEV_IRQ, SPURIOUS}, irq_dispatch(id)
      PROVE  UNCHANGED workVars
               \/ (\E i \in Items : /\ item[i] = "held" /\ q' = workq_enqueue_from_irq(q, i)
                                    /\ item' = [item EXCEPT ![i] = "queued"] /\ order' = Append(order, i))
  BY <1>4, Zenon DEF irq_dispatch, Handler
<1>5. CASE Elapses \/ DeviceRaises \/ User \/ Disk
  BY <1>5, Zenon DEF Elapses, DeviceRaises, User, Disk
<1> QED
  BY <1>1, <1>2, <1>3, <1>4, <1>5, Zenon DEF Next, core_thread_entry

(* Every step keeps the queue in order. *)
LEMMA WorkStep ==
  ASSUME WorkInv, [Next]_vars
  PROVE  WorkInv'
<1>0. /\ q \in QueueType /\ item \in [Items -> {"free", "held", "queued", "running"}] /\ InQueue(order, q)
      /\ order \in Seq(Items) /\ Range(order) \subseteq Items /\ IsInjective(order)
      /\ \A i \in Items : (item[i] = "queued") <=> i \in Range(order)
  BY MembersOfSeq, Zenon DEF WorkInv, InQueue, Spells
<1>1. CASE UNCHANGED workVars
  BY <1>0, <1>1, Zenon DEF WorkInv, workVars, InQueue, Spells
<1>2. CASE Drain
  <2>1. CASE q.head = NULL
    <3>1. UNCHANGED workVars
      BY <1>2, <2>1, Zenon DEF Drain, workq_dequeue, workVars
    <3> QED
      BY <1>1, <3>1, Zenon
  <2>2. CASE q.head # NULL
    <3>1. /\ q' = workq_dequeue(q) /\ item' = [item EXCEPT ![q.head] = "running"] /\ order' = Tail(order)
      BY <1>2, <2>2, Zenon DEF Drain
    <3>2. /\ order # <<>> /\ q.head = Head(order) /\ q.head \in Items
          /\ q' \in QueueType /\ InQueue(order', q')
      BY <1>0, <2>2, <3>1, DequeueTakesHead, Zenon
    <3>3. Range(order') = Range(order) \ {q.head}
      BY <1>0, <3>1, <3>2, TailMembers
    <3>4. /\ item' \in [Items -> {"free", "held", "queued", "running"}]
          /\ \A i \in Items : (item'[i] = "queued") <=> i \in Range(order')
      BY <1>0, <3>1, <3>2, <3>3, Zenon
    <3> QED
      BY <3>2, <3>4, Zenon DEF WorkInv
  <2> QED
    BY <2>1, <2>2, Zenon
<1>3. CASE RunItem
  <2>1. /\ q' = q /\ order' = order
        /\ item' = [i \in Items |-> IF item[i] = "running" THEN "free" ELSE item[i]]
    BY <1>3, Zenon DEF RunItem
  <2>2. /\ item' \in [Items -> {"free", "held", "queued", "running"}]
        /\ \A i \in Items : (item'[i] = "queued") <=> i \in Range(order)
    BY <1>0, <2>1, Zenon
  <2>3. InQueue(order', q')
    BY <1>0, <2>1, Zenon
  <2> QED
    BY <1>0, <2>1, <2>2, <2>3, Zenon DEF WorkInv
<1>4. CASE Crash
  <2>1. q' = workq_init /\ item' = [i \in Items |-> "free"] /\ order' = <<>>
    BY <1>4, Zenon DEF Crash
  <2> QED
    BY <2>1 DEF WorkInv, workq_init, QueueType, InQueue, Spells, Range, IsInjective
<1>5. CASE \E i \in Items : work_item_alloc(i)
  <2>1. PICK i \in Items : item[i] = "free" /\ item' = [item EXCEPT ![i] = "held"] /\ UNCHANGED <<q, order>>
    BY <1>5, Zenon DEF work_item_alloc
  <2>2. /\ item' \in [Items -> {"free", "held", "queued", "running"}]
        /\ \A j \in Items : (item'[j] = "queued") <=> j \in Range(order)
    BY <1>0, <2>1, Zenon
  <2>3. InQueue(order', q')
    BY <1>0, <2>1, Zenon
  <2> QED
    BY <1>0, <2>1, <2>2, <2>3, Zenon DEF WorkInv
<1>6. CASE \E i \in Items : /\ item[i] = "held" /\ q' = workq_enqueue_from_irq(q, i)
                            /\ item' = [item EXCEPT ![i] = "queued"] /\ order' = Append(order, i)
  <2>1. PICK i \in Items : /\ item[i] = "held" /\ q' = workq_enqueue_from_irq(q, i)
                           /\ item' = [item EXCEPT ![i] = "queued"] /\ order' = Append(order, i)
    BY <1>6, Zenon
  <2>2. i \notin Range(order)
    BY <1>0, <2>1, Zenon
  <2>3. q' \in QueueType /\ InQueue(order', q')
    BY <1>0, <2>1, <2>2, EnqueueAppends, Zenon
  <2>4. Range(order') = Range(order) \cup {i}
    BY <1>0, <2>1, AppendMembers
  <2>5. /\ item' \in [Items -> {"free", "held", "queued", "running"}]
        /\ \A j \in Items : (item'[j] = "queued") <=> j \in Range(order')
    BY <1>0, <2>1, <2>4, Zenon
  <2> QED
    BY <2>3, <2>5, Zenon DEF WorkInv
<1> QED
  BY <1>1, <1>2, <1>3, <1>4, <1>5, <1>6, WorkKinds, Zenon DEF vars

(* work_queue.c: what interrupt handlers defer is linked once, in the order   *)
(* they deferred it, until the core thread takes it - however interrupts fall *)
(* between the thread's steps, and for any number of items.                   *)
THEOREM WorkStaysInOrder == Spec => []WorkInOrder
<1>1. Init => WorkInv
  BY DEF Init, WorkInv, workq_init, QueueType, InQueue, Spells, Range, IsInjective
<1>2. WorkInv /\ [Next]_vars => WorkInv'
  BY WorkStep, Zenon
<1>3. WorkInv => WorkInOrder
  <2> SUFFICES ASSUME WorkInv PROVE WorkInOrder
    BY Zenon
  <2>1. /\ Spells(Items, NULL, order, q.head, q.tail, q.next)
        /\ \A i \in Items : (item[i] = "queued") <=> i \in Range(order)
    BY Zenon DEF WorkInv, InQueue
  <2> QED
    BY <2>1, Zenon DEF WorkInOrder, Spells, Range
<1> QED
  BY <1>1, <1>2, <1>3, PTL DEF Spec

====
