---------------------------- MODULE QueueLemmas ----------------------------
(***************************************************************************)
(* Facts that the proofs share: the members and the injectivity of sequences, *)
(* what the operations of ReadyQueues do to them, for queues of any length    *)
(* over any set, and the sums of numbers over a finite set.                   *)
(***************************************************************************)
EXTENDS ReadyQueues, Links, Sums, FiniteSetTheorems, TLAPS

(* -------------------------------- sequences ------------------------------- *)
(* A sequence over S is a function on 1..Len(s) with values in S. *)
LEMMA SeqLen ==
  ASSUME NEW S, NEW s \in Seq(S)
  PROVE  /\ Len(s) \in Nat
         /\ s \in [1 .. Len(s) -> S]
         /\ DOMAIN s = 1 .. Len(s)
OBVIOUS

(* Each of its elements is in S. *)
LEMMA SeqItem ==
  ASSUME NEW S, NEW s \in Seq(S), NEW n \in 1 .. Len(s)
  PROVE  s[n] \in S
OBVIOUS

(* Only the empty sequence has length 0. *)
LEMMA SeqNone ==
  ASSUME NEW S
  PROVE  /\ << >> \in Seq(S)
         /\ Len(<< >>) = 0
         /\ \A s \in Seq(S) : s # << >> => Len(s) \in Nat \ {0}
OBVIOUS

(* What SubSeq takes. *)
LEMMA SeqSlice ==
  ASSUME NEW S, NEW s, NEW i \in Int, NEW j \in Int,
         \A k \in i .. j : s[k] \in S
  PROVE  /\ SubSeq(s, i, j) \in Seq(S)
         /\ Len(SubSeq(s, i, j)) = IF i <= j THEN j - i + 1 ELSE 0
         /\ \A k \in 1 .. j - i + 1 : SubSeq(s, i, j)[k] = s[i + k - 1]
OBVIOUS

(* What Head and Tail take from a sequence that has elements. *)
LEMMA SeqHeadTail ==
  ASSUME NEW S, NEW s \in Seq(S), s # << >>
  PROVE  /\ Head(s) \in S
         /\ Tail(s) \in Seq(S)
         /\ Len(Tail(s)) = Len(s) - 1
         /\ \A k \in 1 .. Len(Tail(s)) : Tail(s)[k] = s[k + 1]
OBVIOUS

(* What lies where in a concatenation. *)
LEMMA SeqConcat ==
  ASSUME NEW S, NEW s \in Seq(S), NEW t \in Seq(S)
  PROVE  /\ s \o t \in Seq(S)
         /\ Len(s \o t) = Len(s) + Len(t)
         /\ \A k \in 1 .. Len(s) + Len(t) :
               (s \o t)[k] = IF k <= Len(s) THEN s[k] ELSE t[k - Len(s)]
OBVIOUS

(* What lies where after an Append. *)
LEMMA SeqAppend ==
  ASSUME NEW S, NEW s \in Seq(S), NEW e \in S
  PROVE  /\ Append(s, e) \in Seq(S)
         /\ Append(s, e) # << >>
         /\ Len(Append(s, e)) = Len(s) + 1
         /\ \A k \in 1 .. Len(s) : Append(s, e)[k] = s[k]
         /\ Append(s, e)[Len(s) + 1] = e
OBVIOUS

(* Sequences with the same elements in the same places are equal. *)
LEMMA SeqSame ==
  ASSUME NEW S, NEW s \in Seq(S), NEW t \in Seq(S),
         Len(s) = Len(t), \A k \in 1 .. Len(s) : s[k] = t[k]
  PROVE  s = t
OBVIOUS

(* A sequence over a set is one over every larger set. *)
LEMMA SeqMono ==
  ASSUME NEW S, NEW T, S \subseteq T
  PROVE  Seq(S) \subseteq Seq(T)
OBVIOUS

(* --------------------------------- numbers -------------------------------- *)

(* A non-empty set of natural numbers has a least element, which Min picks. *)
LEMMA MinOfNats ==
  ASSUME NEW H \in SUBSET Nat, H # {}
  PROVE  Min(H) \in H /\ \A y \in H : Min(H) <= y
<1>1. PICK x \in H : \A y \in H : ~(<<y, x>> \in OpToRel(<, Nat))
  BY WFMin, NatLessThanWellFounded, Zenon
<1>2. ASSUME NEW y \in H PROVE x <= y
  <2>1. ~(y < x)
    <3>1. OpToRel(<, Nat) = {ss \in Nat \X Nat : ss[1] < ss[2]}
      BY DEF OpToRel
    <3>2. y < x => <<y, x>> \in {ss \in Nat \X Nat : ss[1] < ss[2]}
      OBVIOUS
    <3> QED
      BY <1>1, <3>1, <3>2, Zenon
  <2> QED
    BY <2>1
<1> QED
  BY <1>2, Zenon DEF Min

(* g[n] is what n steps of F lead to from a, for n up to C. *)
Iterates(g, C, a, F) == g[0] = a /\ \A n \in 1..C : g[n] = F[g[n - 1]]

(* Iterating a function on a set, as the walks along linked lists do, defines *)
(* a function of the number of steps.                                         *)
LEMMA IterationExists ==
  ASSUME NEW C \in Nat, NEW S, NEW a \in S, NEW F \in [S -> S]
  PROVE  \E g \in [0..C -> S] : Iterates(g, C, a, F)
<1> DEFINE Upto(c, g) == g[0] = a /\ \A n \in 1..c : g[n] = F[g[n - 1]]
           bad == {c \in 0..C : \A g \in [0..c -> S] : ~Upto(c, g)}
<1>1. bad = {}
  <2> SUFFICES ASSUME bad # {} PROVE FALSE
    OBVIOUS
  <2> DEFINE c == Min(bad)
  <2>1. c \in bad /\ \A y \in bad : c <= y
    <3>1. bad \in SUBSET Nat
      OBVIOUS
    <3> HIDE DEF bad
    <3> QED BY <3>1, MinOfNats
  <2> HIDE DEF c
  <2>2. c \in 0..C /\ \A g \in [0..c -> S] : ~Upto(c, g)
    BY <2>1
  <2>3. CASE c = 0
    <3> DEFINE g == [n \in 0..c |-> a]
    <3>1. g \in [0..c -> S] /\ g[0] = a /\ 1..c = {}
      BY <2>3
    <3> HIDE DEF g
    <3> QED BY <2>2, <3>1
  <2>4. CASE c # 0
    <3>1. c - 1 \in 0..C
      BY <2>2, <2>4
    <3>7. c - 1 \notin bad
      <4> HIDE DEF bad
      <4> QED BY <2>1, <2>2, <2>4, <3>1
    <3>2. PICK g \in [0..(c - 1) -> S] : Upto(c - 1, g)
      BY <3>1, <3>7
    <3> DEFINE h == [n \in 0..c |-> IF n = c THEN F[g[c - 1]] ELSE g[n]]
    <3>3. g[c - 1] \in S
      BY <2>2, <2>4
    <3>4. h \in [0..c -> S]
      BY <2>2, <3>3
    <3>5. h[0] = a
      BY <2>2, <2>4, <3>2
    <3>6. \A n \in 1..c : h[n] = F[h[n - 1]]
      BY <2>2, <2>4, <3>2
    <3> HIDE DEF h
    <3> QED BY <2>2, <3>4, <3>5, <3>6
  <2> QED BY <2>3, <2>4
<1> QED
  BY <1>1 DEF Iterates

(* A sequence's members are its values at 1..Len(s). *)
LEMMA MembersOfSeq ==
  ASSUME NEW S, NEW s \in Seq(S)
  PROVE  /\ \A x : x \in Range(s) <=> \E k \in 1..Len(s) : s[k] = x
         /\ IsInjective(s) <=> \A j, k \in 1..Len(s) : s[j] = s[k] => j = k
         /\ Range(s) \subseteq S
  BY SeqLen DEF Range, IsInjective

(* Append adds exactly the new element, and keeps a sequence injective when   *)
(* the element is new.                                                        *)
LEMMA AppendMembers ==
  ASSUME NEW S, NEW s \in Seq(S), NEW t \in S
  PROVE  /\ Append(s, t) \in Seq(S)
         /\ Range(Append(s, t)) = Range(s) \cup {t}
         /\ IsInjective(s) /\ t \notin Range(s) => IsInjective(Append(s, t))
<1> DEFINE a == Append(s, t)
<1>1. /\ a \in Seq(S)
      /\ Len(s) \in Nat
      /\ Len(a) = Len(s) + 1
      /\ a[Len(s) + 1] = t
      /\ \A k \in 1..Len(s) : a[k] = s[k]
  OBVIOUS
<1> HIDE DEF a
<1>2. Range(a) = Range(s) \cup {t}
  BY <1>1, MembersOfSeq
<1>3. IsInjective(s) /\ t \notin Range(s) => IsInjective(a)
  BY <1>1, MembersOfSeq
<1> QED
  BY <1>1, <1>2, <1>3 DEF a

(* The last element after Append. *)
LEMMA AppendLast ==
  ASSUME NEW S, NEW s \in Seq(S), NEW x \in S
  PROVE  Append(s, x) # <<>> /\ Append(s, x)[Len(Append(s, x))] = x
  OBVIOUS

(* Head is a member; for an injective sequence Tail has every other member    *)
(* and is injective again.                                                    *)
LEMMA TailMembers ==
  ASSUME NEW S, NEW s \in Seq(S), s # <<>>
  PROVE  /\ Head(s) \in Range(s)
         /\ Tail(s) \in Seq(S)
         /\ Range(s) = Range(Tail(s)) \cup {Head(s)}
         /\ IsInjective(s) => Head(s) \notin Range(Tail(s)) /\ IsInjective(Tail(s))
<1> DEFINE r == Tail(s)
           h == Head(s)
<1>1. /\ r \in Seq(S)
      /\ Len(s) \in Nat \ {0}
      /\ Len(r) = Len(s) - 1
      /\ h = s[1]
      /\ \A k \in 1..Len(r) : r[k] = s[k + 1]
  BY SeqHeadTail, SeqNone
<1> HIDE DEF r, h
<1>2. \A k \in 1..Len(s) : k # 1 => s[k] = r[k - 1] /\ k - 1 \in 1..Len(r)
  BY <1>1
<1>3. h \in Range(s)
  BY <1>1, MembersOfSeq
<1>4. Range(s) = Range(r) \cup {h}
  <2>1. ASSUME NEW x \in Range(s) PROVE x \in Range(r) \cup {h}
    <3>1. PICK k \in 1..Len(s) : s[k] = x
      BY MembersOfSeq
    <3>2. CASE k = 1
      BY <1>1, <3>1, <3>2
    <3>3. CASE k # 1
      <4>1. k - 1 \in 1..Len(r) /\ r[k - 1] = x
        BY <1>2, <3>1, <3>3
      <4> QED
        BY <1>1, <4>1, MembersOfSeq
    <3> QED
      BY <3>2, <3>3
  <2>2. ASSUME NEW x \in Range(r) PROVE x \in Range(s)
    <3>1. PICK k \in 1..Len(r) : r[k] = x
      BY <1>1, MembersOfSeq
    <3>2. k + 1 \in 1..Len(s) /\ s[k + 1] = x
      BY <1>1, <3>1
    <3> QED
      BY <3>2, MembersOfSeq
  <2> QED
    BY <1>3, <2>1, <2>2
<1>5. IsInjective(s) => h \notin Range(r) /\ IsInjective(r)
  <2> SUFFICES ASSUME IsInjective(s) PROVE h \notin Range(r) /\ IsInjective(r)
    OBVIOUS
  <2>1. \A j, k \in 1..Len(s) : s[j] = s[k] => j = k
    BY MembersOfSeq
  <2>2. h \notin Range(r)
    BY <1>1, <2>1, MembersOfSeq
  <2>3. \A j, k \in 1..Len(r) : r[j] = r[k] => j = k
    BY <1>1, <2>1
  <2> QED
    BY <1>1, <2>2, <2>3, MembersOfSeq
<1> QED
  BY <1>1, <1>3, <1>4, <1>5 DEF r, h

(* The elements that are left when position k is removed. *)
LEMMA RemoveAtElements ==
  ASSUME NEW S, NEW s \in Seq(S), NEW k \in 1..Len(s)
  PROVE  /\ Unlinked(s, k) \in Seq(S)
         /\ Len(Unlinked(s, k)) = Len(s) - 1
         /\ \A j \in 1..(Len(s) - 1) : Unlinked(s, k)[j] = IF j < k THEN s[j] ELSE s[j + 1]
<1> DEFINE u == SubSeq(s, 1, k - 1)
           v == SubSeq(s, k + 1, Len(s))
           r == Unlinked(s, k)
<1>1. Len(s) \in Nat /\ k \in Nat /\ \A j \in 1..Len(s) : s[j] \in S
  BY SeqLen, SeqItem
<1>2. /\ u \in Seq(S)
      /\ Len(u) = k - 1
      /\ \A j \in 1..(k - 1) : u[j] = s[j]
  BY <1>1, SeqSlice
<1>3. /\ v \in Seq(S)
      /\ Len(v) = Len(s) - k
      /\ \A j \in 1..(Len(s) - k) : v[j] = s[k + j]
  BY <1>1, SeqSlice
<1>4. r = u \o v
  BY DEF Unlinked
<1> HIDE DEF u, v, r
<1>5. /\ r \in Seq(S)
      /\ Len(r) = Len(s) - 1
      /\ \A j \in 1..(Len(s) - 1) : r[j] = IF j < k THEN s[j] ELSE s[j + 1]
  <2>1. /\ r \in Seq(S)
        /\ Len(r) = Len(s) - 1
        /\ \A j \in 1..(Len(s) - 1) : r[j] = IF j <= k - 1 THEN u[j] ELSE v[j - (k - 1)]
    <3>1. /\ u \o v \in Seq(S)
          /\ Len(u \o v) = Len(u) + Len(v)
          /\ \A j \in 1..(Len(u) + Len(v)) :
               (u \o v)[j] = IF j <= Len(u) THEN u[j] ELSE v[j - Len(u)]
      BY <1>2, <1>3, SeqConcat, Zenon
    <3>2. Len(u) + Len(v) = Len(s) - 1
      BY <1>1, <1>2, <1>3
    <3> QED
      BY <1>2, <1>4, <3>1, <3>2
  <2>2. ASSUME NEW j \in 1..(Len(s) - 1), j < k PROVE r[j] = s[j]
    <3>1. r[j] = u[j] /\ j \in 1..(k - 1)
      BY <1>1, <2>1, <2>2
    <3> QED
      BY <1>2, <3>1, Zenon
  <2>3. ASSUME NEW j \in 1..(Len(s) - 1), ~(j < k) PROVE r[j] = s[j + 1]
    <3>1. r[j] = v[j - (k - 1)] /\ j - (k - 1) \in 1..(Len(s) - k)
      BY <1>1, <2>1, <2>3
    <3> QED
      BY <1>1, <1>3, <3>1
  <2> QED
    BY <2>1, <2>2, <2>3
<1> QED
  BY <1>5 DEF r

(* Removing position k of an injective sequence removes that element only. *)
LEMMA RemoveAtMembers ==
  ASSUME NEW S, NEW s \in Seq(S), NEW k \in 1..Len(s), IsInjective(s)
  PROVE  /\ Unlinked(s, k) \in Seq(S)
         /\ Range(Unlinked(s, k)) = Range(s) \ {s[k]}
         /\ IsInjective(Unlinked(s, k))
<1> DEFINE r == Unlinked(s, k)
<1>1. Len(s) \in Nat /\ k \in Nat /\ \A j \in 1..Len(s) : s[j] \in S
  BY SeqLen, SeqItem
<1>5. /\ r \in Seq(S)
      /\ Len(r) = Len(s) - 1
      /\ \A j \in 1..(Len(s) - 1) : r[j] = IF j < k THEN s[j] ELSE s[j + 1]
  BY RemoveAtElements
<1> HIDE DEF r
<1>6. \A i, j \in 1..Len(s) : s[i] = s[j] => i = j
  BY MembersOfSeq
<1>7. Range(r) = Range(s) \ {s[k]}
  <2>1. ASSUME NEW x \in Range(r) PROVE x \in Range(s) /\ x # s[k]
    <3>1. PICK j \in 1..Len(r) : r[j] = x
      BY <1>5, MembersOfSeq
    <3>2. PICK i \in 1..Len(s) : i # k /\ s[i] = x
      BY <1>1, <1>5, <3>1
    <3> QED
      BY <1>6, <3>2, MembersOfSeq
  <2>2. ASSUME NEW x \in Range(s), x # s[k] PROVE x \in Range(r)
    <3>1. PICK i \in 1..Len(s) : s[i] = x
      BY MembersOfSeq
    <3>2. PICK j \in 1..Len(r) : r[j] = x
      <4>1. CASE i < k
        BY <1>1, <1>5, <3>1, <4>1
      <4>2. CASE i > k
        <5>1. i - 1 \in 1..Len(r) /\ r[i - 1] = s[i]
          BY <1>1, <1>5, <4>2
        <5> QED
          BY <3>1, <5>1
      <4> QED
        BY <1>1, <2>2, <3>1, <4>1, <4>2
    <3> QED
      BY <1>5, <3>2, MembersOfSeq
  <2> QED
    BY <2>1, <2>2
<1>8. \A i, j \in 1..Len(r) : r[i] = r[j] => i = j
  BY <1>1, <1>5, <1>6
<1> QED
  BY <1>5, <1>7, <1>8, MembersOfSeq DEF r

(* The last element is a member; for an injective sequence the rest has every *)
(* other member and is injective again.                                       *)
LEMMA FrontMembers ==
  ASSUME NEW S, NEW s \in Seq(S), s # <<>>, IsInjective(s)
  PROVE  /\ s[Len(s)] \in Range(s)
         /\ SubSeq(s, 1, Len(s) - 1) \in Seq(S)
         /\ Range(SubSeq(s, 1, Len(s) - 1)) = Range(s) \ {s[Len(s)]}
         /\ IsInjective(SubSeq(s, 1, Len(s) - 1))
<1> DEFINE r == SubSeq(s, 1, Len(s) - 1)
<1>1. Len(s) \in Nat \ {0}
  BY SeqNone, SeqLen
<1>2. /\ r \in Seq(S)
      /\ Len(r) = Len(s) - 1
      /\ \A k \in 1..(Len(s) - 1) : r[k] = s[k]
  <2> DEFINE n == Len(s) - 1
  <2>1. n \in Nat /\ \A k \in 1..n : s[k] \in S
    BY <1>1, SeqItem
  <2>2. r = SubSeq(s, 1, n)
    OBVIOUS
  <2> HIDE DEF n, r
  <2>3. /\ SubSeq(s, 1, n) \in Seq(S)
        /\ Len(SubSeq(s, 1, n)) = IF 1 <= n THEN n - 1 + 1 ELSE 0
        /\ \A k \in 1..(n - 1 + 1) : SubSeq(s, 1, n)[k] = s[1 + k - 1]
    BY <2>1, SeqSlice
  <2>4. n - 1 + 1 = n /\ \A k \in 1..n : 1 + k - 1 = k
    BY <2>1
  <2>5. Len(r) = n /\ r \in Seq(S) /\ \A k \in 1..n : r[k] = s[k]
    BY <2>1, <2>2, <2>3, <2>4
  <2> QED
    BY <2>5 DEF n
<1>3. Len(s) \in 1..Len(s)
  BY <1>1
<1> HIDE DEF r
<1>4. \A j, k \in 1..Len(s) : s[j] = s[k] => j = k
  BY MembersOfSeq
<1>5. \A j, k \in 1..Len(r) : r[j] = r[k] => j = k
  BY <1>1, <1>2, <1>4
<1>6. s[Len(s)] \in Range(s)
  BY <1>3, MembersOfSeq
<1>7. Range(r) = Range(s) \ {s[Len(s)]}
  <2>1. ASSUME NEW x \in Range(r) PROVE x \in Range(s) /\ x # s[Len(s)]
    <3>1. PICK k \in 1..Len(r) : r[k] = x
      BY <1>2, MembersOfSeq
    <3>2. k \in 1..Len(s) /\ k # Len(s) /\ s[k] = x
      BY <1>1, <1>2, <3>1
    <3> QED
      BY <1>3, <1>4, <3>2, MembersOfSeq
  <2>2. ASSUME NEW x \in Range(s), x # s[Len(s)] PROVE x \in Range(r)
    <3>1. PICK k \in 1..Len(s) : s[k] = x
      BY MembersOfSeq
    <3>2. k \in 1..Len(r) /\ r[k] = x
      BY <1>1, <1>2, <1>3, <2>2, <3>1
    <3> QED
      BY <1>2, <3>2, MembersOfSeq
  <2> QED
    BY <2>1, <2>2
<1>8. IsInjective(r)
  BY <1>2, <1>5, MembersOfSeq
<1> QED
  BY <1>2, <1>6, <1>7, <1>8 DEF r

(* Concatenating two injective sequences without a common member.             *)
LEMMA ConcatMembers ==
  ASSUME NEW S, NEW s \in Seq(S), NEW u \in Seq(S),
         IsInjective(s), IsInjective(u), Range(s) \cap Range(u) = {}
  PROVE  /\ s \o u \in Seq(S)
         /\ Range(s \o u) = Range(s) \cup Range(u)
         /\ IsInjective(s \o u)
<1> DEFINE r == s \o u
<1>1. /\ Len(s) \in Nat /\ Len(u) \in Nat
      /\ r \in Seq(S)
      /\ Len(r) = Len(s) + Len(u)
      /\ \A k \in 1..(Len(s) + Len(u)) : r[k] = IF k <= Len(s) THEN s[k] ELSE u[k - Len(s)]
  BY SeqConcat, SeqLen
<1> HIDE DEF r
<1>2. /\ \A k \in 1..Len(s) : k \in 1..Len(r) /\ r[k] = s[k]
      /\ \A k \in 1..Len(u) : k + Len(s) \in 1..Len(r) /\ r[k + Len(s)] = u[k]
  BY <1>1
<1>3. \A k \in 1..Len(r) : \/ k \in 1..Len(s) /\ r[k] = s[k]
                           \/ k - Len(s) \in 1..Len(u) /\ r[k] = u[k - Len(s)]
  BY <1>1
<1>4. /\ \A j, k \in 1..Len(s) : s[j] = s[k] => j = k
      /\ \A j, k \in 1..Len(u) : u[j] = u[k] => j = k
  BY MembersOfSeq
<1>5. \A j \in 1..Len(s), k \in 1..Len(u) : s[j] # u[k]
  BY MembersOfSeq, Zenon
<1>6. Range(r) \subseteq Range(s) \cup Range(u)
  BY <1>1, <1>3, MembersOfSeq
<1>7. ASSUME NEW x \in Range(s) PROVE x \in Range(r)
  <2>1. PICK k \in 1..Len(s) : s[k] = x
    BY MembersOfSeq
  <2> QED
    BY <1>1, <1>2, <2>1, MembersOfSeq
<1>8. ASSUME NEW x \in Range(u) PROVE x \in Range(r)
  <2>1. PICK k \in 1..Len(u) : u[k] = x
    BY MembersOfSeq
  <2>2. k + Len(s) \in 1..Len(r) /\ r[k + Len(s)] = x
    BY <1>2, <2>1
  <2> QED
    BY <1>1, <2>2, MembersOfSeq, Zenon
<1>9. ASSUME NEW j \in 1..Len(r), NEW k \in 1..Len(r), r[j] = r[k] PROVE j = k
  <2>1. CASE j \in 1..Len(s) /\ r[j] = s[j]
    BY <1>1, <1>3, <1>4, <1>5, <1>9, <2>1, Zenon
  <2>2. CASE j - Len(s) \in 1..Len(u) /\ r[j] = u[j - Len(s)]
    <3>1. k - Len(s) \in 1..Len(u) /\ r[k] = u[k - Len(s)]
      BY <1>3, <1>5, <1>9, <2>2, Zenon
    <3>2. j - Len(s) = k - Len(s)
      BY <1>4, <1>9, <2>2, <3>1, Zenon
    <3> QED
      BY <1>1, <3>2
  <2> QED
    BY <1>3, <2>1, <2>2
<1>10. IsInjective(r)
  BY <1>1, <1>9, MembersOfSeq
<1> QED
  BY <1>1, <1>6, <1>7, <1>8, <1>10 DEF r

(* A strictly ascending tuple of integers is an injective sequence. *)
LEMMA AscendingInjective ==
  ASSUME NEW S \in SUBSET Int, NEW n \in Nat, NEW s \in [1..n -> S],
         \A a, b \in 1..n : a < b => s[a] < s[b]
  PROVE  s \in Seq(S) /\ IsInjective(s)
<1>1. s \in Seq(S)
  OBVIOUS
<1>2. ASSUME NEW a \in 1..n, NEW b \in 1..n, s[a] = s[b] PROVE a = b
  <2>1. s[a] \in S /\ s[b] \in S
    OBVIOUS
  <2>2. s[a] \in Int /\ s[b] \in Int
    BY <2>1, Zenon
  <2>3. ~(a < b) /\ ~(b < a)
    BY <1>2, <2>2
  <2> QED
    BY <2>3
<1> QED
  BY <1>1, <1>2 DEF IsInjective

(* An injective sequence over a finite set is no longer than the set is big. *)
LEMMA InjectiveLen ==
  ASSUME NEW S, IsFiniteSet(S), NEW s \in Seq(S), IsInjective(s)
  PROVE  Len(s) <= Cardinality(S)
<1>1. Len(s) \in Nat /\ s \in [1..Len(s) -> S]
  BY SeqLen
<1>2. s \in Injection(1..Len(s), S)
  BY <1>1, MembersOfSeq DEF Injection, IsInjective
<1>3. Cardinality(1..Len(s)) <= Cardinality(S)
  BY <1>2, FS_Injection
<1>4. ASSUME NEW n \in Nat PROVE Cardinality(1..n) = n
  <2>1. Cardinality(1..n) = IF 1 > n THEN 0 ELSE n - 1 + 1
    BY FS_Interval
  <2> QED
    BY <2>1
<1> QED
  BY <1>3, <1>4

-----------------------------------------------------------------------------
(* The ready queues as values. *)
Queues(S) == [Intent -> Seq(S)]

(* Inserting at a tail adds the thread to that queue and touches no other. *)
LEMMA InsertMembers ==
  ASSUME NEW S, NEW rq \in Queues(S), NEW i \in Intent, NEW t \in S,
         \A j \in Intent : IsInjective(rq[j]), t \notin Range(rq[i])
  PROVE  LET q == rq_insert_tail(rq, i, t)
         IN /\ q \in Queues(S)
            /\ \A j \in Intent : IsInjective(q[j])
            /\ Range(q[i]) = Range(rq[i]) \cup {t}
            /\ \A j \in Intent : j # i => q[j] = rq[j]
<1>1. /\ Append(rq[i], t) \in Seq(S)
      /\ Range(Append(rq[i], t)) = Range(rq[i]) \cup {t}
      /\ IsInjective(Append(rq[i], t))
  BY AppendMembers DEF Queues
<1> QED
  BY <1>1 DEF Queues, rq_insert_tail

(* Popping the head of a non-empty queue removes that thread and touches no   *)
(* other queue.                                                               *)
LEMMA PopMembers ==
  ASSUME NEW S, NEW rq \in Queues(S), NEW i \in Intent, rq[i] # <<>>,
         \A j \in Intent : IsInjective(rq[j]),
         NEW q, q = rq_pop_head(rq, i)
  PROVE  /\ q \in Queues(S)
         /\ Head(rq[i]) \in Range(rq[i])
         /\ \A j \in Intent : IsInjective(q[j])
         /\ Range(q[i]) = Range(rq[i]) \ {Head(rq[i])}
         /\ \A j \in Intent : j # i => q[j] = rq[j]
<1>1. /\ Tail(rq[i]) \in Seq(S)
      /\ Head(rq[i]) \in Range(rq[i])
      /\ Range(Tail(rq[i])) = Range(rq[i]) \ {Head(rq[i])}
      /\ IsInjective(Tail(rq[i]))
  BY TailMembers DEF Queues
<1> QED
  BY <1>1 DEF Queues, rq_pop_head

(* Removing a thread that is at position k of queue i, and nowhere else,      *)
(* removes that position.                                                     *)
LEMMA RemoveIs ==
  ASSUME NEW S, NEW rq \in Queues(S), NEW i \in Intent, NEW k \in 1..Len(rq[i]),
         IsInjective(rq[i]), \A j \in Intent : rq[i][k] \in Range(rq[j]) => j = i
  PROVE  rq_remove(rq, rq[i][k]) = [rq EXCEPT ![i] = Unlinked(@, k)]
<1> DEFINE t   == rq[i][k]
           hit == {j \in Intent : t \in Range(rq[j])}
<1>1. rq[i] \in Seq(S) /\ t \in Range(rq[i])
  BY MembersOfSeq DEF Queues
<1>2. hit = {i} /\ Min(hit) = i
  <2>1. hit = {i}
    BY <1>1
  <2>2. {i} \in SUBSET Nat /\ {i} # {}
    BY DEF Intent
  <2>3. Min({i}) = i
    BY <2>2, MinOfNats, Zenon
  <2> QED BY <2>1, <2>3, Zenon
<1>3. FirstIndex(rq[i], t) = k
  <2>1. \A j \in 1..Len(rq[i]) : rq[i][j] = t => j = k
    BY <1>1, MembersOfSeq
  <2>2. /\ k \in DOMAIN rq[i] /\ rq[i][k] = t
        /\ \A j \in 1..(k - 1) : rq[i][j] # t
    BY <1>1, <2>1, SeqLen
  <2> QED
    BY <1>1, <2>1, <2>2, SeqLen DEF FirstIndex
<1> HIDE DEF t
<1>4. rq_remove(rq, t) = [rq EXCEPT ![i] = Unlinked(@, FirstIndex(@, t))]
  BY <1>2, Zenon DEF rq_remove, Queues
<1> QED
  BY <1>3, <1>4 DEF t

(* Removing a thread that is in queue i only takes it out of there. *)
LEMMA RemoveMembers ==
  ASSUME NEW S, NEW rq \in Queues(S), NEW i \in Intent, NEW t \in Range(rq[i]),
         \A j \in Intent : IsInjective(rq[j]),
         \A j \in Intent : t \in Range(rq[j]) => j = i,
         NEW q, q = rq_remove(rq, t)
  PROVE  /\ q \in Queues(S)
         /\ \A j \in Intent : IsInjective(q[j])
         /\ Range(q[i]) = Range(rq[i]) \ {t}
         /\ \A j \in Intent : j # i => q[j] = rq[j]
<1>1. PICK k \in 1..Len(rq[i]) : rq[i][k] = t
  BY MembersOfSeq DEF Queues
<1>2. q = [rq EXCEPT ![i] = Unlinked(rq[i], k)]
  BY <1>1, RemoveIs, ZenonT(30)
<1>3. /\ Unlinked(rq[i], k) \in Seq(S)
      /\ Range(Unlinked(rq[i], k)) = Range(rq[i]) \ {t}
      /\ IsInjective(Unlinked(rq[i], k))
  BY <1>1, RemoveAtMembers DEF Queues
<1> QED
  BY <1>2, <1>3 DEF Queues

(* When some queue is not empty, the pick takes the head of a non-empty queue *)
(* and moves the cursor inside the pattern; otherwise it changes nothing.     *)
LEMMA PickFromQueues ==
  ASSUME NEW S, NEW rq \in Queues(S), NEW cursor \in 0..(PatternLen - 1), NEW cur,
         NEW p, p = PickNext(rq, cursor, cur)
  PROVE  /\ AllEmpty(rq) => p.next = cur /\ p.ready = rq /\ p.cursor = cursor
         /\ ~AllEmpty(rq) => \E i \in Intent : /\ rq[i] # <<>>
                                                /\ p.next = Head(rq[i])
                                                /\ p.ready = rq_pop_head(rq, i)
         /\ p.cursor \in 0..(PatternLen - 1)
<1>1. CASE AllEmpty(rq)
  BY <1>1 DEF PickNext
<1>2. CASE ~AllEmpty(rq)
  <2> DEFINE hits == PatternHits(rq, cursor)
             rest == {i \in Intent : rq[i] # <<>>}
             pick == sched_pick_intent(rq, cursor)
  <2>1. p = [next |-> Head(rq[pick.intent]), ready |-> rq_pop_head(rq, pick.intent),
             cursor |-> pick.cursor]
    BY <1>2 DEF PickNext
  <2>2. /\ pick.intent \in Intent
        /\ rq[pick.intent] # <<>>
        /\ pick.cursor \in 0..(PatternLen - 1)
    <3>1. CASE hits # {}
      <4> DEFINE slot == (cursor + Min(hits)) % PatternLen
      <4>1. Min(hits) \in hits
        <5>1. hits \subseteq Nat
          BY DEF PatternHits, PatternLen
        <5> HIDE DEF hits
        <5> QED
          BY <3>1, <5>1, MinOfNats
      <4>2. slot \in 0..(PatternLen - 1) /\ rq[k_pick_pattern[slot]] # <<>>
        <5>1. PICK n \in 0..(PatternLen - 1) :
                 n = Min(hits) /\ rq[k_pick_pattern[(cursor + n) % PatternLen]] # <<>>
          BY <4>1, Zenon DEF PatternHits
        <5>2. slot = (cursor + n) % PatternLen
          BY <5>1
        <5>3. (cursor + n) % PatternLen \in 0..(PatternLen - 1)
          BY DEF PatternLen
        <5> QED
          BY <5>1, <5>2, <5>3
      <4>3. k_pick_pattern[slot] \in Intent
        BY <4>2 DEF k_pick_pattern, Intent, INTERACTIVE, LATENCY, THROUGHPUT, BACKGROUND
      <4>4. (slot + 1) % PatternLen \in 0..(PatternLen - 1)
        BY <4>2 DEF PatternLen
      <4>5. pick = [intent |-> k_pick_pattern[slot], cursor |-> (slot + 1) % PatternLen]
        BY <3>1 DEF sched_pick_intent
      <4> QED
        BY <4>2, <4>3, <4>4, <4>5
    <3>2. CASE hits = {}
      <4>1. rest # {}
        BY <1>2 DEF AllEmpty
      <4>2. Min(rest) \in rest
        <5>1. rest \subseteq Nat
          BY DEF Intent
        <5> HIDE DEF rest
        <5> QED
          BY <4>1, <5>1, MinOfNats
      <4> QED
        BY <3>2, <4>2 DEF sched_pick_intent
    <3> QED
      BY <3>1, <3>2
  <2> QED
    BY <1>2, <2>1, <2>2
<1> QED
  BY <1>1, <1>2

(* ---------------------------- sums over finite sets ----------------------- *)

(* Among some subsets of a finite set, one has no other of them below it: the *)
(* form in which the sums are taken apart one element at a time.              *)
LEMMA SmallestSet ==
  ASSUME NEW S, IsFiniteSet(S), NEW Bad \in SUBSET (SUBSET S), Bad # {}
  PROVE  \E T \in Bad : \A U \in SUBSET T : U # T => U \notin Bad
<1> DEFINE H == {Cardinality(T) : T \in Bad}
<1>1. \A T \in SUBSET S : IsFiniteSet(T) /\ Cardinality(T) \in Nat
  BY FS_Subset, FS_CardinalityType
<1>2. H \in SUBSET Nat /\ H # {}
  BY <1>1
<1>3. Min(H) \in H /\ \A y \in H : Min(H) <= y
  <2> HIDE DEF H
  <2> QED BY <1>2, MinOfNats
<1>4. PICK T \in Bad : Cardinality(T) = Min(H)
  BY <1>3, Zenon
<1>5. ASSUME NEW U \in SUBSET T, U # T, U \in Bad PROVE FALSE
  <2>1. Cardinality(U) \in H /\ Cardinality(T) <= Cardinality(U)
    BY <1>3, <1>4, <1>5
  <2>2. IsFiniteSet(T) /\ Cardinality(T) \in Nat /\ Cardinality(U) \in Nat
    BY <1>1, <1>5
  <2>3. Cardinality(U) <= Cardinality(T) /\ (Cardinality(T) = Cardinality(U) => T = U)
    BY <1>5, <2>2, FS_Subset
  <2> QED BY <1>5, <2>1, <2>2, <2>3
<1> QED BY <1>5

(* The element with which a sum begins. *)
Pick(s) == CHOOSE x \in s : TRUE

(* g gives the sum of f over every subset of S. *)
IsSum(g, f, S) ==
  g = [s \in SUBSET S |-> IF s = {} THEN 0 ELSE f[Pick(s)] + g[s \ {Pick(s)}]]

(* The sum over every subset of a finite set exists. *)
LEMMA SumExists ==
  ASSUME NEW S, IsFiniteSet(S), NEW f, \A x \in S : f[x] \in Nat
  PROVE  \E g \in [SUBSET S -> Nat] : IsSum(g, f, S)
<1> DEFINE At(g, s) == g[s] = IF s = {} THEN 0 ELSE f[Pick(s)] + g[s \ {Pick(s)}]
           Upto(n, g) == \A s \in SUBSET S : Cardinality(s) <= n => At(g, s)
           C == Cardinality(S)
           bad == {n \in 0..C : \A g \in [SUBSET S -> Nat] : ~Upto(n, g)}
<1>0. C \in Nat
  BY FS_CardinalityType
<1>1. \A s \in SUBSET S : IsFiniteSet(s) /\ Cardinality(s) \in Nat /\ Cardinality(s) <= C
  BY FS_Subset, FS_CardinalityType
<1>2. \A s \in SUBSET S : s # {} => Pick(s) \in s
  BY DEF Pick
<1>3. \A s \in SUBSET S : s # {} => /\ s \ {Pick(s)} \in SUBSET S
                                    /\ Cardinality(s \ {Pick(s)}) = Cardinality(s) - 1
  BY <1>1, <1>2, FS_RemoveElement
<1>4. ASSUME bad # {} PROVE FALSE
  <2> DEFINE n == Min(bad)
  <2>1. n \in bad /\ \A y \in bad : n <= y
    <3>1. bad \in SUBSET Nat
      OBVIOUS
    <3> HIDE DEF bad
    <3> QED BY <1>4, <3>1, MinOfNats
  <2> HIDE DEF n
  <2>2. n \in 0..C /\ \A g \in [SUBSET S -> Nat] : ~Upto(n, g)
    BY <2>1, Zenon
  <2>3. CASE n = 0
    <3> DEFINE g == [s \in SUBSET S |-> 0]
    <3>1. \A s \in SUBSET S : Cardinality(s) <= n => s = {}
      BY <1>1, <2>3, FS_EmptySet
    <3>2. g \in [SUBSET S -> Nat] /\ \A s \in SUBSET S : s = {} => At(g, s)
      OBVIOUS
    <3> HIDE DEF g, At
    <3> QED BY <2>2, <3>1, <3>2
  <2>4. CASE n # 0
    <3>1. n - 1 \in 0..C /\ n - 1 \notin bad
      <4>1. n - 1 \in 0..C /\ ~(n <= n - 1)
        BY <1>0, <2>2, <2>4
      <4> HIDE DEF bad
      <4> QED BY <2>1, <4>1
    <3>2. PICK g \in [SUBSET S -> Nat] : Upto(n - 1, g)
      BY <3>1, Zenon
    <3> DEFINE h == [s \in SUBSET S |-> IF Cardinality(s) = n THEN f[Pick(s)] + g[s \ {Pick(s)}]
                                        ELSE g[s]]
    <3>3. \A s \in SUBSET S : Cardinality(s) = n => s # {}
      BY <2>2, <2>4, FS_EmptySet, Zenon
    <3>4. \A s \in SUBSET S : Cardinality(s) = n => f[Pick(s)] + g[s \ {Pick(s)}] \in Nat
      BY <1>2, <1>3, <3>3
    <3>5. h \in [SUBSET S -> Nat]
      BY <3>4
    <3>6. ASSUME NEW s \in SUBSET S, Cardinality(s) <= n PROVE At(h, s)
      <4>1. CASE Cardinality(s) = n
        <5>1. s # {} /\ s \ {Pick(s)} \in SUBSET S /\ Cardinality(s \ {Pick(s)}) = n - 1
          BY <1>3, <3>3, <4>1
        <5>2. h[s \ {Pick(s)}] = g[s \ {Pick(s)}]
          BY <2>2, <5>1
        <5>3. h[s] = f[Pick(s)] + g[s \ {Pick(s)}]
          BY <4>1
        <5> HIDE DEF h
        <5> QED BY <5>1, <5>2, <5>3
      <4>2. CASE Cardinality(s) # n
        <5>1. Cardinality(s) <= n - 1
          BY <1>1, <2>2, <3>6, <4>2
        <5>2. At(g, s)
          BY <3>2, <5>1
        <5>3. h[s] = g[s]
          BY <4>2
        <5>4. s # {} => h[s \ {Pick(s)}] = g[s \ {Pick(s)}]
          BY <1>1, <1>3, <2>2, <5>1
        <5> HIDE DEF h
        <5> QED BY <5>2, <5>3, <5>4
      <4> QED BY <4>1, <4>2
    <3> HIDE DEF h, At
    <3> QED BY <2>2, <3>5, <3>6
  <2> QED BY <2>3, <2>4
<1>5. C \notin bad
  <2> HIDE DEF bad
  <2> QED BY <1>4
<1>6. PICK g \in [SUBSET S -> Nat] : Upto(C, g)
  <2> HIDE DEF Upto, C
  <2>1. C \in 0..C
    BY <1>0
  <2> QED BY <1>5, <2>1
<1>7. \A s \in SUBSET S : At(g, s)
  BY <1>1, <1>6, Zenon
<1>8. IsSum(g, f, S)
  BY <1>7 DEF IsSum
<1> QED BY <1>8

(* A sum depends on nothing but the values of f at the members. *)
LEMMA SumsAgree ==
  ASSUME NEW S1, NEW S2, NEW T \in SUBSET S1, T \subseteq S2, IsFiniteSet(S1),
         NEW f1, NEW f2, \A x \in T : f1[x] = f2[x],
         NEW g1, NEW g2, IsSum(g1, f1, S1), IsSum(g2, f2, S2)
  PROVE  g1[T] = g2[T]
<1> DEFINE bad == {U \in SUBSET T : g1[U] # g2[U]}
<1>1. IsFiniteSet(T)
  BY FS_Subset
<1>2. ASSUME bad # {} PROVE FALSE
  <2>1. bad \in SUBSET (SUBSET T)
    OBVIOUS
  <2>2. PICK U \in bad : \A V \in SUBSET U : V # U => V \notin bad
    <3> HIDE DEF bad
    <3> QED BY <1>1, <1>2, <2>1, SmallestSet
  <2>3. U \in SUBSET S1 /\ U \in SUBSET S2 /\ U \subseteq T
    OBVIOUS
  <2>4. /\ g1[U] = IF U = {} THEN 0 ELSE f1[Pick(U)] + g1[U \ {Pick(U)}]
        /\ g2[U] = IF U = {} THEN 0 ELSE f2[Pick(U)] + g2[U \ {Pick(U)}]
    BY <2>3, Zenon DEF IsSum
  <2>5. U # {}
    BY <2>4
  <2>6. Pick(U) \in U
    BY <2>5 DEF Pick
  <2>7. g1[U \ {Pick(U)}] = g2[U \ {Pick(U)}]
    BY <2>2, <2>3, <2>6
  <2> QED BY <2>3, <2>4, <2>5, <2>6, <2>7
<1> QED BY <1>2

(* SumOver is the sum of IsSum. *)
LEMMA SumOverIs ==
  ASSUME NEW S, IsFiniteSet(S), NEW f, NEW R, S \subseteq R,
         \A x \in S : f[x] \in Nat, NEW g, IsSum(g, f, R)
  PROVE  SumOver(f, S) = g[S]
<1> DEFINE it == CHOOSE h : IsSum(h, f, S)
<1>1. SumOver(f, S) = it[S]
  BY Zenon DEF SumOver, MapThenSumSet, MapThenFoldSet, IsSum, Pick
<1>2. \E h : IsSum(h, f, S)
  BY SumExists, Zenon
<1>3. IsSum(it, f, S)
  BY <1>2
<1> HIDE DEF it
<1> QED BY <1>1, <1>3, SumsAgree

(* A sum can be begun with any of its members. *)
LEMMA SumFromAny ==
  ASSUME NEW S, IsFiniteSet(S), NEW f, \A x \in S : f[x] \in Nat,
         NEW g \in [SUBSET S -> Nat], IsSum(g, f, S)
  PROVE  \A T \in SUBSET S : \A y \in T : g[T] = f[y] + g[T \ {y}]
<1> DEFINE bad == {U \in SUBSET S : \E x \in U : g[U] # f[x] + g[U \ {x}]}
<1>1. ASSUME bad # {} PROVE FALSE
  <2>1. bad \in SUBSET (SUBSET S)
    OBVIOUS
  <2>2. PICK U \in bad : \A V \in SUBSET U : V # U => V \notin bad
    <3> HIDE DEF bad
    <3> QED BY <1>1, <2>1, SmallestSet
  <2>3. PICK x \in U : g[U] # f[x] + g[U \ {x}]
    OBVIOUS
  <2> DEFINE c == Pick(U)
  <2>4. c \in U
    BY DEF Pick
  <2>5. g[U] = f[c] + g[U \ {c}]
    BY <2>4, Zenon DEF IsSum
  <2> HIDE DEF c
  <2>6. x # c
    BY <2>3, <2>5, Zenon
  <2>7. U \ {c} \notin bad /\ U \ {x} \notin bad
    <3> HIDE DEF bad
    <3> QED BY <2>2, <2>3, <2>4
  <2>8. g[U \ {c}] = f[x] + g[(U \ {c}) \ {x}]
    BY <2>3, <2>6, <2>7, Zenon
  <2>9. g[U \ {x}] = f[c] + g[(U \ {x}) \ {c}]
    BY <2>4, <2>6, <2>7, Zenon
  <2>10. (U \ {c}) \ {x} = (U \ {x}) \ {c}
    OBVIOUS
  <2>11. f[x] \in Nat /\ f[c] \in Nat /\ g[(U \ {x}) \ {c}] \in Nat
    BY <2>3, <2>4
  <2>12. f[c] + (f[x] + g[(U \ {x}) \ {c}]) = f[x] + (f[c] + g[(U \ {x}) \ {c}])
    <3> DEFINE a == f[c]
               b == f[x]
               d == g[(U \ {x}) \ {c}]
    <3>1. a \in Nat /\ b \in Nat /\ d \in Nat
      BY <2>11
    <3> HIDE DEF a, b, d
    <3>2. a + (b + d) = b + (a + d)
      BY <3>1
    <3> QED BY <3>2 DEF a, b, d
  <2> QED BY <2>3, <2>5, <2>8, <2>9, <2>10, <2>12, Zenon
<1> QED BY <1>1, Zenon

(* What the byte counts rely on: a sum of numbers is a number, the empty one  *)
(* is zero, it depends on the members' values only, and a member adds its own *)
(* value to the sum of the others.                                            *)
LEMMA SumFacts ==
  ASSUME NEW S, IsFiniteSet(S), NEW f, \A x \in S : f[x] \in Nat
  PROVE  /\ SumOver(f, S) \in Nat
         /\ S = {} => SumOver(f, S) = 0
         /\ \A x \in S : SumOver(f, S) = f[x] + SumOver(f, S \ {x})
<1>1. PICK g \in [SUBSET S -> Nat] : IsSum(g, f, S)
  BY SumExists, Zenon
<1>2. SumOver(f, S) = g[S]
  BY <1>1, SumOverIs
<1>3. S = {} => g[S] = 0
  BY <1>1, Zenon DEF IsSum
<1>4. ASSUME NEW x \in S PROVE SumOver(f, S) = f[x] + SumOver(f, S \ {x})
  <2>1. IsFiniteSet(S \ {x})
    BY FS_RemoveElement
  <2>2. SumOver(f, S \ {x}) = g[S \ {x}]
    BY <1>1, <2>1, SumOverIs
  <2>3. S \in SUBSET S /\ \A T \in SUBSET S : \A y \in T : g[T] = f[y] + g[T \ {y}]
    BY <1>1, SumFromAny
  <2>4. g[S] = f[x] + g[S \ {x}]
    BY <2>3, Zenon
  <2> QED BY <1>2, <2>2, <2>4
<1> QED BY <1>1, <1>2, <1>3, <1>4

(* Two functions with the same values at the members have the same sum. *)
LEMMA SumSame ==
  ASSUME NEW S, IsFiniteSet(S), NEW f, NEW h, \A x \in S : f[x] \in Nat /\ f[x] = h[x]
  PROVE  SumOver(f, S) = SumOver(h, S)
<1>1. PICK g \in [SUBSET S -> Nat] : IsSum(g, f, S)
  BY SumExists, Zenon
<1>2. PICK k \in [SUBSET S -> Nat] : IsSum(k, h, S)
  BY SumExists, Zenon
<1>3. SumOver(f, S) = g[S] /\ SumOver(h, S) = k[S]
  BY <1>1, <1>2, SumOverIs
<1> QED BY <1>1, <1>2, <1>3, SumsAgree

(* A sum of nothing but zeros. *)
LEMMA SumOfZeros ==
  ASSUME NEW S, IsFiniteSet(S), NEW f, \A x \in S : f[x] = 0
  PROVE  SumOver(f, S) = 0
<1> DEFINE Bad == {T \in SUBSET S : SumOver(f, T) # 0}
<1>1. Bad \in SUBSET (SUBSET S)
  OBVIOUS
<1>2. ASSUME NEW T \in Bad, \A U \in SUBSET T : U # T => U \notin Bad PROVE FALSE
  <2>1. T \subseteq S /\ IsFiniteSet(T) /\ SumOver(f, T) # 0 /\ \A x \in T : f[x] \in Nat
    BY FS_Subset
  <2>2. T # {}
    BY <2>1, SumFacts
  <2>3. PICK x \in T : TRUE
    BY <2>2
  <2>4. T \ {x} \in SUBSET T /\ T \ {x} # T /\ T \ {x} \in SUBSET S
    BY <2>1, <2>3
  <2>5. SumOver(f, T \ {x}) = 0
    BY <1>2, <2>4
  <2>6. SumOver(f, T) = f[x] + SumOver(f, T \ {x})
    BY <2>1, <2>3, SumFacts
  <2> QED BY <2>1, <2>5, <2>6
<1>3. Bad = {}
  <2> HIDE DEF Bad
  <2> QED BY <1>1, <1>2, SmallestSet
<1> QED BY <1>3

(* -------------------------------- linked lists ---------------------------- *)

(* Walking the links of a well-formed list visits its objects in order. *)
LEMMA FollowIs ==
  ASSUME NEW S, NEW nil, nil \notin S, NEW s, NEW h, NEW tl, NEW nx, Spells(S, nil, s, h, tl, nx),
         IsFiniteSet(S), NEW C \in Nat, C >= Cardinality(S)
  PROVE  Follow(C, nil, h, nx) = s
<1> DEFINE Rec(g) == [n \in 1..C |-> IF n = 1 THEN h
                                     ELSE IF g[n-1] = nil THEN nil ELSE nx[g[n-1]]]
           node == CHOOSE g : g = Rec(g)
           w    == [n \in 1..C |-> IF n <= Len(s) THEN s[n] ELSE nil]
           len  == Cardinality({n \in 1..C : node[n] # nil})
<1>1. Follow(C, nil, h, nx) = [n \in 1..len |-> node[n]]
  BY DEF Follow
<1>2. /\ s \in Seq(S) /\ IsInjective(s)
      /\ Len(s) \in Nat
      /\ \A k \in 1..Len(s) : s[k] \in S /\ s[k] # nil
      /\ s = <<>> <=> Len(s) = 0
  BY SeqLen, SeqNone, SeqItem DEF Spells
<1>3. C \in Nat /\ Len(s) <= C
  BY <1>2, InjectiveLen, FS_CardinalityType
<1>4. w = Rec(w)
  <2>1. ASSUME NEW n \in 1..C
        PROVE  w[n] = IF n = 1 THEN h ELSE IF w[n-1] = nil THEN nil ELSE nx[w[n-1]]
    <3>1. CASE n = 1
      BY <1>2, <1>3, <3>1 DEF Spells
    <3>2. CASE n # 1
      <4>1. n - 1 \in 1..C
        BY <1>3, <3>2
      <4>2. CASE n - 1 <= Len(s)
        <5>1. w[n-1] = s[n-1] /\ n - 1 \in 1..Len(s)
          BY <1>2, <1>3, <4>1, <4>2
        <5>2. nx[s[n-1]] = IF n - 1 = Len(s) THEN nil ELSE s[n - 1 + 1]
          BY <5>1 DEF Spells
        <5>3. nx[s[n-1]] = w[n]
          BY <1>2, <1>3, <5>1, <5>2
        <5> QED
          BY <1>2, <3>2, <5>1, <5>3
      <4>3. CASE ~(n - 1 <= Len(s))
        BY <1>2, <1>3, <3>2, <4>1, <4>3
      <4> QED
        BY <4>2, <4>3
    <3> QED
      BY <3>1, <3>2
  <2> QED
    BY <2>1
<1>5. node = Rec(node)
  <2> HIDE DEF w, Rec
  <2> QED
    BY <1>4
<1> HIDE DEF node
<1>6. \A n \in 1..C : node[n] = w[n]
  <2> DEFINE bad == {n \in 1..C : node[n] # w[n]}
  <2> SUFFICES ASSUME bad # {} PROVE FALSE
    OBVIOUS
  <2>1. bad \in SUBSET Nat
    BY <1>3
  <2>2. Min(bad) \in bad /\ \A y \in bad : Min(bad) <= y
    <3> HIDE DEF bad
    <3> QED BY <2>1, MinOfNats
  <2>3. PICK n \in 1..C : node[n] # w[n] /\ \A y \in 1..C : node[y] # w[y] => n <= y
    BY <2>2, Zenon
  <2>4. node[n] = IF n = 1 THEN h ELSE IF node[n-1] = nil THEN nil ELSE nx[node[n-1]]
    BY <1>5
  <2>5. w[n] = IF n = 1 THEN h ELSE IF w[n-1] = nil THEN nil ELSE nx[w[n-1]]
    BY <1>4
  <2>6. n # 1 => n - 1 \in 1..C /\ ~(n <= n - 1)
    BY <1>3
  <2> HIDE DEF w
  <2>7. n # 1 => node[n-1] = w[n-1]
    BY <2>3, <2>6
  <2> QED
    BY <2>3, <2>4, <2>5, <2>7
<1>7. {n \in 1..C : node[n] # nil} = 1..Len(s)
  BY <1>2, <1>3, <1>6
<1>8. len = Len(s)
  <2>1. Cardinality(1..Len(s)) = Len(s)
    <3> DEFINE L == Len(s)
    <3>1. L \in Nat /\ L \in Int /\ 1 \in Int
      BY <1>2
    <3> HIDE DEF L
    <3>2. Cardinality(1..L) = IF 1 > L THEN 0 ELSE L - 1 + 1
      BY <3>1, FS_Interval
    <3> QED
      BY <3>1, <3>2 DEF L
  <2> QED
    BY <1>7, <2>1, Zenon
<1>9. \A n \in 1..Len(s) : node[n] = s[n]
  BY <1>2, <1>3, <1>6
<1>10. [n \in 1..Len(s) |-> node[n]] = s
  BY <1>2, <1>9
<1> QED
  BY <1>1, <1>8, <1>10

(* What a well-formed list says of its sequence, in terms of positions. *)
LEMMA SpellsFacts ==
  ASSUME NEW S, NEW nil, nil \notin S, NEW s, NEW h, NEW tl, NEW nx, Spells(S, nil, s, h, tl, nx)
  PROVE  /\ s \in Seq(S)
         /\ Len(s) \in Nat
         /\ s = <<>> <=> Len(s) = 0
         /\ \A k \in 1..Len(s) : s[k] \in S /\ s[k] # nil
         /\ \A j, k \in 1..Len(s) : s[j] = s[k] => j = k
         /\ \A x : x \in Range(s) <=> \E k \in 1..Len(s) : s[k] = x
         /\ h = nil <=> s = <<>>
         /\ tl = nil <=> s = <<>>
         /\ tl # nil => tl \in Range(s) /\ tl \in S
<1>1. s \in Seq(S) /\ IsInjective(s)
  BY DEF Spells
<1>2. /\ Len(s) \in Nat
      /\ s = <<>> <=> Len(s) = 0
      /\ \A k \in 1..Len(s) : s[k] \in S /\ s[k] # nil
  BY <1>1, SeqLen, SeqNone, SeqItem
<1>3. /\ \A j, k \in 1..Len(s) : s[j] = s[k] => j = k
      /\ \A x : x \in Range(s) <=> \E k \in 1..Len(s) : s[k] = x
  BY <1>1, MembersOfSeq
<1>4. s # <<>> => h = s[1] /\ tl = s[Len(s)] /\ 1 \in 1..Len(s) /\ Len(s) \in 1..Len(s)
  BY <1>2 DEF Spells
<1> QED
  BY <1>1, <1>2, <1>3, <1>4 DEF Spells

(* A list is unaffected by writes to the links of other objects. *)
LEMMA SpellsFrame ==
  ASSUME NEW S, NEW nil, nil \notin S, NEW s, NEW h, NEW tl, NEW nx, Spells(S, nil, s, h, tl, nx),
         NEW nx2, \A y \in Range(s) : nx2[y] = nx[y]
  PROVE  Spells(S, nil, s, h, tl, nx2)
<1>1. \A k \in 1..Len(s) : s[k] \in Range(s)
  BY SpellsFacts
<1> QED
  BY <1>1 DEF Spells

(* Linking a new object behind the last one appends it. *)
LEMMA SpellsAppend ==
  ASSUME NEW S, NEW nil, nil \notin S, NEW s, NEW h, NEW tl, NEW nx, Spells(S, nil, s, h, tl, nx),
         NEW x \in S, x \notin Range(s),
         NEW nx2, nx2[x] = nil, tl # nil => nx2[tl] = x,
         \A y \in Range(s) : y # tl => nx2[y] = nx[y],
         NEW h2, h2 = IF tl # nil THEN h ELSE x
  PROVE  Spells(S, nil, Append(s, x), h2, x, nx2)
<1> DEFINE a == Append(s, x)
<1>1. /\ s \in Seq(S) /\ IsInjective(s)
      /\ Len(s) \in Nat
      /\ s = <<>> <=> Len(s) = 0
      /\ \A j, k \in 1..Len(s) : s[j] = s[k] => j = k
      /\ \A k \in 1..Len(s) : s[k] \in Range(s)
      /\ tl = nil <=> s = <<>>
  BY SpellsFacts DEF Spells
<1>2. a \in Seq(S) /\ IsInjective(a)
  BY <1>1, AppendMembers
<1>3. /\ a # <<>> /\ Len(a) = Len(s) + 1
      /\ a[Len(s) + 1] = x
      /\ \A k \in 1..Len(s) : a[k] = s[k]
  BY <1>1
<1> HIDE DEF a
<1>4. h2 = a[1]
  BY <1>1, <1>3 DEF Spells
<1>5. ASSUME NEW k \in 1..Len(a)
      PROVE  nx2[a[k]] = IF k = Len(a) THEN nil ELSE a[k + 1]
  <2>1. CASE k = Len(a)
    BY <1>1, <1>3, <2>1
  <2>2. CASE k # Len(a)
    <3>1. k \in 1..Len(s) /\ a[k] = s[k] /\ s[k] \in Range(s)
      BY <1>1, <1>3, <2>2
    <3>2. CASE k = Len(s)
      <4>1. tl = s[k] /\ tl # nil
        BY <1>1, <3>1, <3>2 DEF Spells
      <4> QED
        BY <1>1, <1>3, <2>2, <3>1, <3>2, <4>1
    <3>3. CASE k # Len(s)
      <4>1. k + 1 \in 1..Len(s) /\ Len(s) \in 1..Len(s)
        BY <1>1, <3>1, <3>3
      <4>2. s[k] # tl
        BY <1>1, <3>1, <3>3, <4>1 DEF Spells
      <4>3. nx2[a[k]] = s[k + 1]
        BY <3>1, <3>3, <4>2 DEF Spells
      <4> QED
        BY <1>3, <2>2, <4>1, <4>3
    <3> QED
      BY <3>2, <3>3
  <2> QED
    BY <2>1, <2>2
<1> QED
  BY <1>2, <1>3, <1>4, <1>5 DEF Spells, a

(* Unlinking the first object takes the head off. *)
LEMMA SpellsTail ==
  ASSUME NEW S, NEW nil, nil \notin S, NEW s, NEW h, NEW tl, NEW nx, Spells(S, nil, s, h, tl, nx), h # nil,
         NEW nx2, \A y \in Range(s) : y # h => nx2[y] = nx[y],
         NEW tl2, tl2 = IF nx[h] # nil THEN tl ELSE nil
  PROVE  /\ s # <<>> /\ h = Head(s)
         /\ Spells(S, nil, Tail(s), nx[h], tl2, nx2)
<1> DEFINE r == Tail(s)
<1>1. /\ s \in Seq(S) /\ IsInjective(s)
      /\ Len(s) \in Nat \ {0}
      /\ s # <<>>
      /\ h = s[1]
      /\ \A j, k \in 1..Len(s) : s[j] = s[k] => j = k
      /\ \A k \in 1..Len(s) : s[k] \in Range(s) /\ s[k] # nil
      /\ \A k \in 1..Len(s) : nx[s[k]] = IF k = Len(s) THEN nil ELSE s[k + 1]
  <2>1. /\ s \in Seq(S) /\ Len(s) \in Nat /\ (s = <<>> <=> Len(s) = 0) /\ (h = nil <=> s = <<>>)
        /\ \A k \in 1..Len(s) : s[k] \in S /\ s[k] # nil
        /\ \A j, k \in 1..Len(s) : s[j] = s[k] => j = k
        /\ \A x : x \in Range(s) <=> \E k \in 1..Len(s) : s[k] = x
    BY SpellsFacts
  <2> QED
    BY <2>1, Zenon DEF Spells
<1>2. r \in Seq(S) /\ IsInjective(r)
  BY <1>1, TailMembers
<1>3. /\ Len(r) = Len(s) - 1
      /\ \A k \in 1..Len(r) : r[k] = s[k + 1]
      /\ Head(s) = s[1]
      /\ r = <<>> <=> Len(r) = 0
  <2>1. Len(r) = Len(s) - 1 /\ Head(s) = s[1] /\ \A k \in 1..Len(r) : r[k] = s[k + 1]
    BY <1>1, SeqHeadTail
  <2>2. r = <<>> <=> Len(r) = 0
    BY <1>2, SeqNone, Zenon
  <2> QED
    BY <2>1, <2>2
<1> HIDE DEF r
<1>4. CASE Len(s) = 1
  <2>1. r = <<>> /\ nx[h] = nil /\ 1..Len(r) = {}
    BY <1>1, <1>3, <1>4
  <2> QED
    BY <1>1, <1>2, <1>3, <2>1, Zenon DEF Spells, r
<1>5. CASE Len(s) # 1
  <2>1. /\ r # <<>> /\ nx[h] = s[2] /\ s[2] # nil /\ r[1] = s[2]
        /\ tl = s[Len(s)] /\ r[Len(r)] = s[Len(s)]
    BY <1>1, <1>3, <1>5 DEF Spells
  <2>2. ASSUME NEW k \in 1..Len(r)
        PROVE  nx2[r[k]] = IF k = Len(r) THEN nil ELSE r[k + 1]
    <3>1. k + 1 \in 1..Len(s) /\ 1 \in 1..Len(s) /\ k + 1 # 1 /\ r[k] = s[k + 1]
      BY <1>1, <1>3
    <3>2. s[k + 1] # h /\ s[k + 1] \in Range(s)
      BY <1>1, <3>1
    <3>3. nx2[r[k]] = IF k + 1 = Len(s) THEN nil ELSE s[k + 1 + 1]
      BY <1>1, <3>1, <3>2
    <3>4. k # Len(r) => k + 1 \in 1..Len(r) /\ k + 1 # Len(s)
      BY <1>1, <1>3
    <3> QED
      BY <1>1, <1>3, <3>3, <3>4
  <2> QED
    BY <1>1, <1>2, <1>3, <2>1, <2>2, Zenon DEF Spells, r
<1> QED
  BY <1>4, <1>5
=============================================================================
