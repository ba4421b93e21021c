----------------------------- MODULE AllocProofs -----------------------------
(* The parts of Memory one at a time, for any number of pages and any page,   *)
(* object and bucket sizes: the bitmap (what pmm_init leaves, an allocation   *)
(* takes and a release gives back, and that pmm.c counts its free pages       *)
(* exactly), one page of blocks, the cache and the heap, the bytes the heap   *)
(* counts and where in its pages a block lies.                                *)
EXTENDS Memory, QueueLemmas

(* A nonempty set of numbers has a least one: what the search loops of        *)
(* pmm_alloc_pages and the hint of pmm_free_page rely on.                     *)
LEMMA LeastExists ==
  ASSUME NEW S \in SUBSET Nat, S # {}
  PROVE  \E x \in S : \A y \in S : x <= y
  BY MinOfNats, Zenon

(* Page arithmetic: what align_down_4k and the test for an aligned address    *)
(* compute of the address at offset d of page q.                              *)
LEMMA InPage ==
  ASSUME NEW q \in Nat, NEW d \in 0..(PAGE_SIZE - 1)
  PROVE  /\ (q * PAGE_SIZE + d) \div PAGE_SIZE = q
         /\ (q * PAGE_SIZE + d) % PAGE_SIZE = d
         /\ align_down_4k(q * PAGE_SIZE + d) = q * PAGE_SIZE
<1>1. PAGE_SIZE \in Nat /\ PAGE_SIZE > 0
  BY PageAssumption
<1> DEFINE x == q * PAGE_SIZE + d
           e == x \div PAGE_SIZE
           r == x % PAGE_SIZE
<1>2. x \in Nat /\ e \in Int /\ r \in 0..(PAGE_SIZE - 1) /\ x = e * PAGE_SIZE + r
  BY <1>1
<1>3. (q - e) * PAGE_SIZE = r - d /\ e \in Int /\ r \in 0..(PAGE_SIZE - 1)
  <2> HIDE DEF e, r
  <2> QED BY <1>1, <1>2
<1>4. q = e
  <2> HIDE DEF e, r
  <2>1. ASSUME q - e >= 1 PROVE FALSE
    <3>1. (q - e) * PAGE_SIZE >= PAGE_SIZE
      BY <1>1, <1>3, <2>1
    <3> QED BY <1>1, <1>3, <3>1
  <2>2. ASSUME q - e <= -1 PROVE FALSE
    <3>1. (q - e) * PAGE_SIZE <= -PAGE_SIZE
      BY <1>1, <1>3, <2>2
    <3> QED BY <1>1, <1>3, <3>1
  <2> QED BY <1>3, <2>1, <2>2
<1>5. r = d
  BY <1>1, <1>3, <1>4
<1> QED BY <1>4, <1>5 DEF align_down_4k

(* An aligned address is that of a page. *)
LEMMA AlignedIs ==
  ASSUME NEW x \in Nat, x % PAGE_SIZE = 0
  PROVE  \E q \in Nat : x = q * PAGE_SIZE
<1>1. PAGE_SIZE \in Nat /\ PAGE_SIZE > 0
  BY PageAssumption
<1>2. x \div PAGE_SIZE \in Nat /\ x = (x \div PAGE_SIZE) * PAGE_SIZE
  BY <1>1
<1> QED BY <1>2

(* The clear bits are finitely many, and FreeExact counts them in Nat. *)
LEMMA ClearBitsFinite ==
  ASSUME NEW st, st.total_pages \in Nat
  PROVE  IsFiniteSet(ClearBits(st)) /\ Cardinality(ClearBits(st)) \in Nat
<1>1. IsFiniteSet(0..(st.total_pages - 1))
  BY FS_Interval
<1>2. ClearBits(st) \subseteq 0..(st.total_pages - 1)
  BY Zenon DEF ClearBits
<1> QED BY <1>1, <1>2, FS_Subset, FS_CardinalityType

(* An allocator that manages n pages, as a type. *)
Shape(n) ==
  [base_pa : Nat, limit_pa : Int, total_pages : {n}, free_pages : Nat,
   bit : [0..(n - 1) -> BOOLEAN], next_hint : Nat, meta_base_pa : Int]

(* Two states of the allocator that manage the same pages. *)
SameWindow(new, st) ==
  /\ new.base_pa = st.base_pa /\ new.limit_pa = st.limit_pa
  /\ new.total_pages = st.total_pages /\ new.meta_base_pa = st.meta_base_pa

(* The window holds whole pages, and no page of the metadata is free. *)
Window(st) ==
  /\ st.base_pa % PAGE_SIZE = 0
  /\ st.limit_pa = page_pa(st, st.total_pages)
  /\ \A i \in ClearBits(st) : ~IsMeta(st, page_pa(st, i))

(* PmmReady is Shape and Window plus an exact count. *)
LEMMA ReadyShape ==
  ASSUME NEW st
  PROVE  PmmReady(st) <=> \E n \in Nat : st \in Shape(n) /\ FreeExact(st) /\ Window(st)
<1>0. Window(st) <=> /\ st.base_pa % PAGE_SIZE = 0
                     /\ st.limit_pa = page_pa(st, st.total_pages)
                     /\ \A pa \in FreeSet(st) : ~IsMeta(st, pa)
  BY Zenon DEF Window, FreeSet
<1>1. ASSUME PmmReady(st)
      PROVE  \E n \in Nat : st \in Shape(n) /\ FreeExact(st) /\ Window(st)
  <2>1. st.total_pages \in Nat /\ st \in Shape(st.total_pages) /\ FreeExact(st)
    BY <1>1, Zenon DEF PmmReady, Shape
  <2>2. Window(st)
    BY <1>0, <1>1, Zenon DEF PmmReady
  <2> QED BY <2>1, <2>2
<1>2. ASSUME NEW n \in Nat, st \in Shape(n), FreeExact(st), Window(st)
      PROVE  PmmReady(st)
  <2>1. st \in [base_pa : Nat, limit_pa : Int, total_pages : Nat, free_pages : Nat,
                bit : [0..(st.total_pages - 1) -> BOOLEAN], next_hint : Nat, meta_base_pa : Int]
    BY <1>2, Zenon DEF Shape
  <2> QED BY <1>0, <1>2, <2>1 DEF PmmReady
<1> QED BY <1>1, <1>2

(* The window is still one when only pages outside the metadata become free. *)
LEMMA WindowKept ==
  ASSUME NEW st, NEW new, Window(st), SameWindow(new, st),
         \A i \in ClearBits(new) : i \in ClearBits(st) \/ ~IsMeta(st, page_pa(st, i))
  PROVE  Window(new)
  BY Zenon DEF Window, SameWindow, page_pa, IsMeta

(* Writing the bitmap, the count or the hint changes that field only. *)
LEMMA Writes ==
  ASSUME NEW n \in Nat, NEW st \in Shape(n)
  PROVE  /\ \A B \in [0..(n - 1) -> BOOLEAN] :
              LET new == [st EXCEPT !.bit = B]
              IN new \in Shape(n) /\ new.bit = B /\ new.free_pages = st.free_pages
                 /\ SameWindow(new, st)
         /\ \A f \in Nat :
              LET new == [st EXCEPT !.free_pages = f]
              IN new \in Shape(n) /\ new.bit = st.bit /\ new.free_pages = f
                 /\ SameWindow(new, st)
         /\ \A h \in Nat :
              LET new == [st EXCEPT !.next_hint = h]
              IN new \in Shape(n) /\ new.bit = st.bit /\ new.free_pages = st.free_pages
                 /\ SameWindow(new, st)
  BY Zenon DEF Shape, SameWindow

(* bit_set and bit_clear leave a bitmap of the same size, and the count alone. *)
LEMMA SetBitsShape ==
  ASSUME NEW n \in Nat, NEW st \in Shape(n), NEW P
  PROVE  /\ SetBits(st, P, FALSE) \in Shape(n)
         /\ SetBits(st, P, FALSE).free_pages = st.free_pages
         /\ SameWindow(SetBits(st, P, FALSE), st)
         /\ SetBits(st, P, TRUE) \in Shape(n)
         /\ SetBits(st, P, TRUE).free_pages = st.free_pages
         /\ SameWindow(SetBits(st, P, TRUE), st)
<1> DEFINE F == [i \in 0..(n - 1) |-> IF i \in P THEN FALSE ELSE st.bit[i]]
           T == [i \in 0..(n - 1) |-> IF i \in P THEN TRUE ELSE st.bit[i]]
<1>1. st.total_pages = n /\ st.bit \in [0..(n - 1) -> BOOLEAN]
  BY Zenon DEF Shape
<1>2. SetBits(st, P, FALSE) = [st EXCEPT !.bit = F]
      /\ SetBits(st, P, TRUE) = [st EXCEPT !.bit = T]
  BY <1>1, Zenon DEF SetBits
<1>3. F \in [0..(n - 1) -> BOOLEAN] /\ T \in [0..(n - 1) -> BOOLEAN]
  BY <1>1, Zenon
<1> HIDE DEF F, T
<1>4. [st EXCEPT !.bit = F] \in Shape(n) /\ [st EXCEPT !.bit = F].free_pages = st.free_pages
      /\ SameWindow([st EXCEPT !.bit = F], st)
  BY <1>3, Writes
<1>5. [st EXCEPT !.bit = T] \in Shape(n) /\ [st EXCEPT !.bit = T].free_pages = st.free_pages
      /\ SameWindow([st EXCEPT !.bit = T], st)
  BY <1>3, Writes
<1> QED BY <1>2, <1>4, <1>5, Zenon

(* Clearing bits clears those of P and no other; setting them likewise. *)
LEMMA ChangedBits ==
  ASSUME NEW n \in Nat, NEW st \in Shape(n), NEW P, NEW i \in 0..(n - 1)
  PROVE  /\ ~SetBits(st, P, FALSE).bit[i] <=> (i \in P \/ ~st.bit[i])
         /\ ~SetBits(st, P, TRUE).bit[i] <=> (i \notin P /\ ~st.bit[i])
<1>1. st.total_pages = n
  BY Zenon DEF Shape
<1> QED BY <1>1 DEF SetBits, Shape

(* Releasing pages adds the number of bits that really change to the count    *)
(* (the "already free" test of pmm_free_page).                                *)
LEMMA MarkFreeKeeps ==
  ASSUME NEW n \in Nat, NEW st \in Shape(n), FreeExact(st),
         NEW P \in SUBSET (0..(n - 1)), NEW h \in Nat
  PROVE  LET new == [MarkFree(st, P) EXCEPT !.next_hint = h]
         IN /\ new \in Shape(n) /\ FreeExact(new) /\ SameWindow(new, st)
            /\ ClearBits(new) = ClearBits(st) \cup P
<1> DEFINE N == P \ ClearBits(st)
           s1 == SetBits(st, P, FALSE)
           s2 == [s1 EXCEPT !.free_pages = s1.free_pages + Cardinality(N)]
           s3 == [s2 EXCEPT !.next_hint = h]
<1>1. st.total_pages = n /\ st.free_pages \in Nat
  BY Zenon DEF Shape
<1>2. IsFiniteSet(N) /\ Cardinality(N) \in Nat
  <2>1. N \subseteq 0..(n - 1)
    BY Zenon
  <2>2. IsFiniteSet(0..(n - 1))
    BY FS_Interval
  <2> HIDE DEF N
  <2>3. IsFiniteSet(N)
    BY <2>1, <2>2, FS_Subset, Zenon
  <2> QED BY <2>3, FS_CardinalityType
<1>3. s1 \in Shape(n) /\ s1.free_pages = st.free_pages /\ SameWindow(s1, st)
  BY SetBitsShape, Zenon
<1>4. /\ s2 \in Shape(n) /\ s2.bit = s1.bit /\ s2.free_pages = st.free_pages + Cardinality(N)
      /\ SameWindow(s2, s1)
  <2>1. st.free_pages + Cardinality(N) \in Nat
    BY <1>1, <1>2
  <2> HIDE DEF N, s1
  <2> QED BY <1>3, <2>1, Writes
<1>5. /\ s3 \in Shape(n) /\ s3.bit = s1.bit /\ s3.free_pages = st.free_pages + Cardinality(N)
      /\ SameWindow(s3, s2)
  <2> HIDE DEF s2, s1, N
  <2> QED BY <1>4, Writes
<1>6. ClearBits(s3) = ClearBits(st) \cup N
  <2>1. \A i \in 0..(n - 1) : ~s1.bit[i] <=> (i \in P \/ ~st.bit[i])
    BY ChangedBits, Zenon
  <2>2. s3.total_pages = n
    BY <1>5, Zenon DEF Shape
  <2> HIDE DEF s3, s1
  <2> QED BY <1>1, <1>5, <2>1, <2>2 DEF ClearBits
<1>7. Cardinality(ClearBits(st) \cup N) = Cardinality(ClearBits(st)) + Cardinality(N)
  <2>1. ClearBits(st) \cap N = {}
    BY Zenon
  <2> HIDE DEF N
  <2> QED BY <1>1, <1>2, <2>1, ClearBitsFinite, FS_Union, FS_EmptySet
<1>8. MarkFree(st, P) = s2
  BY Zenon DEF MarkFree
<1>9. FreeExact(s3)
  <2> HIDE DEF s3, N
  <2> QED BY <1>5, <1>6, <1>7 DEF FreeExact
<1>10. SameWindow(s3, st)
  <2> HIDE DEF s1, s2, s3
  <2> QED BY <1>3, <1>4, <1>5 DEF SameWindow
<1>11. ClearBits(s3) = ClearBits(st) \cup P
  BY <1>6, Zenon
<1> HIDE DEF s2
<1> QED BY <1>5, <1>8, <1>9, <1>10, <1>11

(* The bits a release clears: allocated pages of the window at an address it  *)
(* is given, outside the metadata.                                            *)
FreedBits(st, pas) ==
  {i \in 0..(st.total_pages - 1) : /\ st.bit[i] /\ page_pa(st, i) \in pas
                                   /\ ~IsMeta(st, page_pa(st, i))}

(* A page of the window has an aligned address in the window. *)
LEMMA PageInWindow ==
  ASSUME NEW n \in Nat, NEW st \in Shape(n), Window(st), NEW i \in 0..(n - 1)
  PROVE  /\ page_pa(st, i) \in Nat /\ page_pa(st, i) % PAGE_SIZE = 0
         /\ page_pa(st, i) >= st.base_pa /\ page_pa(st, i) < st.limit_pa
<1>1. st.base_pa \in Nat /\ st.total_pages = n /\ PAGE_SIZE \in Nat /\ PAGE_SIZE > 0
  BY PageAssumption DEF Shape
<1>2. st.base_pa % PAGE_SIZE = 0 /\ st.limit_pa = st.base_pa + n * PAGE_SIZE
  BY <1>1, Zenon DEF Window, page_pa
<1>3. i * PAGE_SIZE \in Nat /\ i * PAGE_SIZE < n * PAGE_SIZE
  BY <1>1
<1>4. (st.base_pa + i * PAGE_SIZE) % PAGE_SIZE = 0
  <2>1. PICK q \in Nat : st.base_pa = q * PAGE_SIZE
    BY <1>1, <1>2, AlignedIs, Zenon
  <2>2. q + i \in Nat /\ st.base_pa + i * PAGE_SIZE = (q + i) * PAGE_SIZE + 0
    BY <1>1, <2>1
  <2>3. ((q + i) * PAGE_SIZE + 0) % PAGE_SIZE = 0
    BY <1>1, <2>2, InPage
  <2> QED BY <2>2, <2>3
<1> QED BY <1>1, <1>2, <1>3, <1>4 DEF page_pa

(* pmm_free_page and the loop of kheap_free_pages keep the count exact,       *)
(* whatever addresses they are given, and clear the bits of FreedBits only.   *)
LEMMA FreePagesKeeps ==
  ASSUME NEW st, PmmReady(st), NEW pas
  PROVE  /\ PmmReady(FreePages(st, pas)) /\ SameWindow(FreePages(st, pas), st)
         /\ ClearBits(FreePages(st, pas)) = ClearBits(st) \cup FreedBits(st, pas)
<1>0. PICK n \in Nat : st \in Shape(n) /\ FreeExact(st) /\ Window(st)
  BY ReadyShape, Zenon
<1>1. st.total_pages = n /\ st.next_hint \in Nat
  BY <1>0, Zenon DEF Shape
<1> DEFINE ok == {pa \in pas : /\ pa >= st.base_pa /\ pa < st.limit_pa
                               /\ pa % PAGE_SIZE = 0
                               /\ ~(/\ pa >= st.meta_base_pa
                                    /\ pa < st.meta_base_pa + PMM_METADATA_PAGES * PAGE_SIZE)}
           P == {i \in 0..(st.total_pages - 1) : st.bit[i] /\ page_pa(st, i) \in ok}
           H(x) == CHOOSE y \in P \cup {x} : \A k \in P \cup {x} : y <= k
           h == H(st.next_hint)
<1>2. P \in SUBSET (0..(n - 1))
  BY <1>1, Zenon
<1>2a. P = FreedBits(st, pas)
  BY <1>0, <1>1, PageInWindow, Zenon DEF FreedBits, IsMeta
<1>3. FreePages(st, pas) = [MarkFree(st, P) EXCEPT !.next_hint = H(MarkFree(st, P).next_hint)]
  BY Zenon DEF FreePages
<1> HIDE DEF P
<1>4. h \in Nat
  <2>1. P \cup {st.next_hint} \in SUBSET Nat /\ P \cup {st.next_hint} # {}
    <3>1. 0..(n - 1) \subseteq Nat
      OBVIOUS
    <3> QED BY <1>1, <1>2, <3>1, Zenon
  <2> QED BY <2>1, LeastExists
<1>5. MarkFree(st, P).next_hint = st.next_hint
  <2>1. SetBits(st, P, FALSE) \in Shape(n) /\ SetBits(st, P, FALSE).next_hint = st.next_hint
    BY <1>0, SetBitsShape, Zenon DEF SetBits, Shape
  <2> QED BY <2>1, Zenon DEF MarkFree, Shape
<1>6. FreePages(st, pas) = [MarkFree(st, P) EXCEPT !.next_hint = h]
  BY <1>3, <1>5, Zenon
<1> HIDE DEF h
<1> DEFINE new == [MarkFree(st, P) EXCEPT !.next_hint = h]
<1>7. /\ new \in Shape(n) /\ FreeExact(new) /\ SameWindow(new, st)
      /\ ClearBits(new) = ClearBits(st) \cup P
  BY <1>0, <1>2, <1>4, MarkFreeKeeps
<1> HIDE DEF new
<1>8. Window(new)
  BY <1>0, <1>2a, <1>7, WindowKept, Zenon DEF FreedBits
<1>9. FreePages(st, pas) = new
  BY <1>6, Zenon DEF new
<1> QED BY <1>2a, <1>7, <1>8, <1>9, ReadyShape

(* Counting pages up to a multiple of the page size. *)
LEMMA PageMultiples ==
  ASSUME NEW k \in Int, NEW j \in Int
  PROVE  /\ (k * PAGE_SIZE) \div PAGE_SIZE = k
         /\ k * PAGE_SIZE - j * PAGE_SIZE = (k - j) * PAGE_SIZE
         /\ k * PAGE_SIZE < j * PAGE_SIZE <=> k < j
         /\ k * PAGE_SIZE + PAGE_SIZE = (k + 1) * PAGE_SIZE
<1>1. PAGE_SIZE \in Nat /\ PAGE_SIZE > 0
  BY PageAssumption
<1>2. \A a, b \in Int : a < b => a * PAGE_SIZE + PAGE_SIZE <= b * PAGE_SIZE
  <2> SUFFICES ASSUME NEW a \in Int, NEW b \in Int, a < b
               PROVE  a * PAGE_SIZE + PAGE_SIZE <= b * PAGE_SIZE
    BY Zenon
  <2>1. (b - a) * PAGE_SIZE >= PAGE_SIZE
    BY <1>1
  <2> QED BY <1>1, <2>1
<1>3. k * PAGE_SIZE < j * PAGE_SIZE <=> k < j
  BY <1>1, <1>2
<1>4. (k * PAGE_SIZE) \div PAGE_SIZE = k
  <2> DEFINE x == k * PAGE_SIZE
             e == x \div PAGE_SIZE
             r == x % PAGE_SIZE
  <2>1. x \in Int /\ e \in Int /\ r \in 0..(PAGE_SIZE - 1) /\ x = e * PAGE_SIZE + r
    BY <1>1
  <2> HIDE DEF e, r
  <2>2. ~(k < e) /\ ~(e < k)
    BY <1>1, <1>2, <2>1
  <2> QED BY <2>1, <2>2 DEF e
<1> QED BY <1>1, <1>3, <1>4

(* align_up_4k and align_down_4k give the next page boundary on their side. *)
LEMMA Boundaries ==
  ASSUME NEW x \in Nat
  PROVE  /\ \E k \in Nat : /\ align_up_4k(x) = k * PAGE_SIZE
                           /\ x <= k * PAGE_SIZE /\ k * PAGE_SIZE < x + PAGE_SIZE
         /\ \E k \in Nat : /\ align_down_4k(x) = k * PAGE_SIZE
                           /\ k * PAGE_SIZE <= x /\ x < k * PAGE_SIZE + PAGE_SIZE
<1>1. PAGE_SIZE \in Nat /\ PAGE_SIZE > 0
  BY PageAssumption
<1>2. \A y \in Nat : /\ y \div PAGE_SIZE \in Nat
                     /\ (y \div PAGE_SIZE) * PAGE_SIZE <= y
                     /\ y < (y \div PAGE_SIZE) * PAGE_SIZE + PAGE_SIZE
  BY <1>1
<1>3. x + PAGE_SIZE - 1 \in Nat
  BY <1>1
<1> DEFINE u == (x + PAGE_SIZE - 1) \div PAGE_SIZE
           d == x \div PAGE_SIZE
<1>4. /\ u \in Nat /\ u * PAGE_SIZE <= x + PAGE_SIZE - 1
      /\ x + PAGE_SIZE - 1 < u * PAGE_SIZE + PAGE_SIZE
  BY <1>2, <1>3, Zenon
<1>5. d \in Nat /\ d * PAGE_SIZE <= x /\ x < d * PAGE_SIZE + PAGE_SIZE
  BY <1>2, Zenon
<1>6. align_up_4k(x) = u * PAGE_SIZE /\ align_down_4k(x) = d * PAGE_SIZE
  BY Zenon DEF align_up_4k, align_down_4k
<1> HIDE DEF u, d
<1>7. x <= u * PAGE_SIZE /\ u * PAGE_SIZE < x + PAGE_SIZE
  BY <1>1, <1>4
<1> QED BY <1>4, <1>5, <1>6, <1>7, Zenon

(* The first two conjuncts of Window: whole pages from base_pa to limit_pa. *)
WholeWindow(st) == st.base_pa % PAGE_SIZE = 0 /\ st.limit_pa = page_pa(st, st.total_pages)

(* The pages between two page boundaries, after the cut to the window. *)
LEMMA PagesBetween ==
  ASSUME NEW n \in Nat, NEW st \in Shape(n), WholeWindow(st), NEW s \in Nat, NEW e \in Nat,
         NEW i \in 0..(n - 1)
  PROVE  i \in Pages(st, s * PAGE_SIZE, e * PAGE_SIZE) <=>
           s * PAGE_SIZE <= page_pa(st, i) /\ page_pa(st, i) < e * PAGE_SIZE
<1>1. /\ st.base_pa \in Nat /\ st.total_pages = n /\ PAGE_SIZE \in Nat /\ PAGE_SIZE > 0
      /\ i \in Int /\ 0 <= i /\ i < n
  BY PageAssumption DEF Shape
<1>2. PICK b \in Nat : st.base_pa = b * PAGE_SIZE
  BY <1>1, AlignedIs, Zenon DEF WholeWindow
<1>3. page_pa(st, i) = (b + i) * PAGE_SIZE /\ st.limit_pa = (b + n) * PAGE_SIZE
  BY <1>1, <1>2 DEF page_pa, WholeWindow
<1> DEFINE s1 == IF s < b THEN b ELSE s
           e1 == IF e > b + n THEN b + n ELSE e
<1>4. /\ (IF s * PAGE_SIZE < st.base_pa THEN st.base_pa ELSE s * PAGE_SIZE) = s1 * PAGE_SIZE
      /\ (IF e * PAGE_SIZE > st.limit_pa THEN st.limit_pa ELSE e * PAGE_SIZE) = e1 * PAGE_SIZE
  <2>1. s * PAGE_SIZE < b * PAGE_SIZE <=> s < b
    BY <1>1, PageMultiples
  <2>2. (b + n) * PAGE_SIZE < e * PAGE_SIZE <=> b + n < e
    BY <1>1, PageMultiples
  <2>3. e * PAGE_SIZE > st.limit_pa <=> e > b + n
    BY <1>1, <1>3, <2>2
  <2> QED BY <1>2, <1>3, <2>1, <2>3
<1>5. s1 \in Int /\ e1 \in Int
  BY <1>1
<1>6. /\ (s1 * PAGE_SIZE - st.base_pa) \div PAGE_SIZE = s1 - b
      /\ (e1 * PAGE_SIZE - st.base_pa) \div PAGE_SIZE = e1 - b
  <2> HIDE DEF s1, e1
  <2>1. s1 - b \in Int /\ e1 - b \in Int
    BY <1>5
  <2>2. /\ s1 * PAGE_SIZE - b * PAGE_SIZE = (s1 - b) * PAGE_SIZE
        /\ e1 * PAGE_SIZE - b * PAGE_SIZE = (e1 - b) * PAGE_SIZE
    BY <1>1, <1>5
  <2> QED BY <1>2, <2>1, <2>2, PageMultiples
<1>7. i \in Pages(st, s * PAGE_SIZE, e * PAGE_SIZE) <=> s1 - b <= i /\ i < e1 - b
  <2> HIDE DEF s1, e1
  <2> QED BY <1>1, <1>4, <1>6, Zenon DEF Pages
<1>8. s1 - b <= i /\ i < e1 - b <=> ~(b + i < s) /\ b + i < e
  BY <1>1
<1>9. /\ (b + i) * PAGE_SIZE < s * PAGE_SIZE <=> b + i < s
      /\ (b + i) * PAGE_SIZE < e * PAGE_SIZE <=> b + i < e
  BY <1>1, PageMultiples
<1>10. s * PAGE_SIZE \in Int /\ (b + i) * PAGE_SIZE \in Int
  BY <1>1
<1>11. s * PAGE_SIZE <= (b + i) * PAGE_SIZE <=> ~((b + i) * PAGE_SIZE < s * PAGE_SIZE)
  BY <1>10
<1> HIDE DEF s1, e1
<1> QED BY <1>3, <1>7, <1>8, <1>9, <1>11

(* bitmap_mark_range_free rounds inwards: the pages it clears are those the   *)
(* range covers.  bitmap_mark_range_reserved rounds outwards: the pages it    *)
(* sets are those the range touches.                                          *)
LEMMA Rounding ==
  ASSUME NEW n \in Nat, NEW st \in Shape(n), WholeWindow(st), NEW i \in 0..(n - 1),
         NEW r, r.base \in Nat, range_end(r) \in Nat
  PROVE  /\ i \in Pages(st, align_up_4k(r.base), align_down_4k(range_end(r)))
               <=> Covers(r, page_pa(st, i))
         /\ i \in Pages(st, align_down_4k(r.base), align_up_4k(range_end(r)))
               <=> Touches(page_pa(st, i), r)
<1> DEFINE p == page_pa(st, i)
<1>1. PAGE_SIZE \in Nat /\ PAGE_SIZE > 0 /\ st.base_pa \in Nat /\ i \in Nat
  BY PageAssumption DEF Shape
<1>2. PICK q \in Nat : p = q * PAGE_SIZE
  <2>1. PICK b \in Nat : st.base_pa = b * PAGE_SIZE
    BY <1>1, AlignedIs, Zenon DEF WholeWindow
  <2>2. p = (b + i) * PAGE_SIZE /\ b + i \in Nat
    BY <1>1, <2>1 DEF page_pa
  <2> QED BY <2>2, Zenon
<1>3. PICK u \in Nat : /\ align_up_4k(r.base) = u * PAGE_SIZE
                       /\ r.base <= u * PAGE_SIZE /\ u * PAGE_SIZE < r.base + PAGE_SIZE
  BY Boundaries, Zenon
<1>4. PICK d \in Nat : /\ align_down_4k(r.base) = d * PAGE_SIZE
                       /\ d * PAGE_SIZE <= r.base /\ r.base < d * PAGE_SIZE + PAGE_SIZE
  BY Boundaries, Zenon
<1>5. PICK v \in Nat : /\ align_up_4k(range_end(r)) = v * PAGE_SIZE
                       /\ range_end(r) <= v * PAGE_SIZE
                       /\ v * PAGE_SIZE < range_end(r) + PAGE_SIZE
  BY Boundaries, Zenon
<1>6. PICK f \in Nat : /\ align_down_4k(range_end(r)) = f * PAGE_SIZE
                       /\ f * PAGE_SIZE <= range_end(r)
                       /\ range_end(r) < f * PAGE_SIZE + PAGE_SIZE
  BY Boundaries, Zenon
<1>7. /\ i \in Pages(st, u * PAGE_SIZE, f * PAGE_SIZE)
           <=> u * PAGE_SIZE <= p /\ p < f * PAGE_SIZE
      /\ i \in Pages(st, d * PAGE_SIZE, v * PAGE_SIZE)
           <=> d * PAGE_SIZE <= p /\ p < v * PAGE_SIZE
  BY PagesBetween, Zenon
<1> HIDE DEF p
(* Two page boundaries are equal or at least a page apart. *)
<1>8. ASSUME NEW k \in Nat
      PROVE  /\ k * PAGE_SIZE \in Int
             /\ k * PAGE_SIZE < p => k * PAGE_SIZE + PAGE_SIZE <= p
             /\ p < k * PAGE_SIZE => p + PAGE_SIZE <= k * PAGE_SIZE
  <2>1. k * PAGE_SIZE \in Int
    BY <1>1
  <2>2. k * PAGE_SIZE < q * PAGE_SIZE => k * PAGE_SIZE + PAGE_SIZE <= q * PAGE_SIZE
    <3>1. k + 1 \in Int /\ k * PAGE_SIZE + PAGE_SIZE = (k + 1) * PAGE_SIZE
          /\ (k * PAGE_SIZE < q * PAGE_SIZE <=> k < q)
          /\ (q * PAGE_SIZE < (k + 1) * PAGE_SIZE <=> q < k + 1)
          /\ (k + 1) * PAGE_SIZE \in Int /\ q * PAGE_SIZE \in Int
      BY <1>1, PageMultiples
    <3> QED BY <3>1
  <2>3. q * PAGE_SIZE < k * PAGE_SIZE => q * PAGE_SIZE + PAGE_SIZE <= k * PAGE_SIZE
    <3>1. q + 1 \in Int /\ q * PAGE_SIZE + PAGE_SIZE = (q + 1) * PAGE_SIZE
          /\ (q * PAGE_SIZE < k * PAGE_SIZE <=> q < k)
          /\ (k * PAGE_SIZE < (q + 1) * PAGE_SIZE <=> k < q + 1)
          /\ (q + 1) * PAGE_SIZE \in Int /\ k * PAGE_SIZE \in Int
      BY <1>1, PageMultiples
    <3> QED BY <3>1
  <2> QED BY <1>2, <2>1, <2>2, <2>3
<1>9. p \in Int
  BY <1>1, <1>2
<1>10. u * PAGE_SIZE <= p /\ p < f * PAGE_SIZE <=> Covers(r, p)
  <2>1. u * PAGE_SIZE <= p <=> r.base <= p
    BY <1>1, <1>3, <1>8, <1>9
  <2>2. p < f * PAGE_SIZE <=> p + PAGE_SIZE <= range_end(r)
    BY <1>1, <1>6, <1>8, <1>9
  <2> QED BY <2>1, <2>2, Zenon DEF Covers
<1>11. d * PAGE_SIZE <= p /\ p < v * PAGE_SIZE <=> Touches(p, r)
  <2>1. d * PAGE_SIZE <= p <=> r.base < p + PAGE_SIZE
    BY <1>1, <1>4, <1>8, <1>9
  <2>2. p < v * PAGE_SIZE <=> range_end(r) > p
    BY <1>1, <1>5, <1>8, <1>9
  <2> QED BY <2>1, <2>2, Zenon DEF Touches
<1> QED BY <1>3, <1>4, <1>5, <1>6, <1>7, <1>10, <1>11, Zenon DEF p

(* An allocator whose clear bits, exactly counted, are C. *)
Filled(st, n, base, limit, meta, C) ==
  /\ st \in Shape(n) /\ FreeExact(st) /\ ClearBits(st) = C
  /\ st.base_pa = base /\ st.limit_pa = limit /\ st.meta_base_pa = meta

(* Reserving pages takes the number of bits that really change from the       *)
(* count, which therefore never has to stop at 0.                             *)
LEMMA ReserveKeeps ==
  ASSUME NEW n \in Nat, NEW base, NEW limit, NEW meta, NEW C, NEW r,
         NEW st, Filled(st, n, base, limit, meta, C)
  PROVE  Filled(bitmap_mark_range_reserved(st, r), n, base, limit, meta,
                C \ Pages(st, align_down_4k(r.base), align_up_4k(range_end(r))))
<1> DEFINE P == Pages(st, align_down_4k(r.base), align_up_4k(range_end(r)))
           c == Cardinality(P \cap ClearBits(st))
           s1 == SetBits(st, P, TRUE)
           f == IF s1.free_pages < c THEN 0 ELSE s1.free_pages - c
           s2 == [s1 EXCEPT !.free_pages = f]
<1>1. /\ st \in Shape(n) /\ FreeExact(st) /\ st.total_pages = n /\ st.free_pages \in Nat
      /\ ClearBits(st) = C
  BY Zenon DEF Filled, Shape
<1>2. /\ IsFiniteSet(C) /\ st.free_pages = Cardinality(C)
  BY <1>1, ClearBitsFinite, Zenon DEF FreeExact
<1> HIDE DEF P
<1>3. c \in Nat /\ Cardinality(C) = Cardinality(C \ P) + c
  <2>1. IsFiniteSet(P \cap C) /\ IsFiniteSet(C \ P)
    BY <1>2, FS_Subset
  <2>2. C = (C \ P) \cup (P \cap C) /\ (C \ P) \cap (P \cap C) = {}
    BY Zenon
  <2>3. Cardinality(C) = Cardinality(C \ P) + Cardinality(P \cap C) - Cardinality({})
    BY <2>1, <2>2, FS_Union
  <2>4. Cardinality(C \ P) \in Nat /\ Cardinality(P \cap C) \in Nat /\ Cardinality({}) = 0
    BY <2>1, FS_CardinalityType, FS_EmptySet
  <2> QED BY <1>1, <2>3, <2>4
<1>4. Cardinality(C \ P) \in Nat
  BY <1>2, FS_Subset, FS_CardinalityType
<1>5. s1 \in Shape(n) /\ s1.free_pages = st.free_pages /\ SameWindow(s1, st)
  BY <1>1, SetBitsShape, Zenon
<1>6. f = Cardinality(C \ P)
  <2> HIDE DEF c, s1
  <2> QED BY <1>2, <1>3, <1>4, <1>5
<1>7. /\ s2 \in Shape(n) /\ s2.bit = s1.bit /\ s2.free_pages = f /\ SameWindow(s2, s1)
  <2> HIDE DEF f, s1
  <2> QED BY <1>4, <1>5, <1>6, Writes
<1>8. ClearBits(s2) = C \ P
  <2>1. \A i \in 0..(n - 1) : ~s1.bit[i] <=> (i \notin P /\ ~st.bit[i])
    BY <1>1, ChangedBits, Zenon
  <2>2. s2.total_pages = n
    BY <1>7, Zenon DEF Shape
  <2> HIDE DEF s1, s2
  <2> QED BY <1>1, <1>7, <2>1, <2>2, Zenon DEF ClearBits
<1>9. bitmap_mark_range_reserved(st, r) = s2
  BY Zenon DEF bitmap_mark_range_reserved, P
<1> HIDE DEF f, s1, s2
<1>10. Filled(s2, n, base, limit, meta, C \ P)
  BY <1>5, <1>6, <1>7, <1>8, Zenon DEF Filled, FreeExact, SameWindow
<1> QED BY <1>9, <1>10, Zenon DEF P

(* Freeing pages of a window in which everything is reserved. *)
LEMMA FreeInNew ==
  ASSUME NEW n \in Nat, NEW base, NEW limit, NEW meta,
         NEW st, Filled(st, n, base, limit, meta, {}), NEW P \in SUBSET (0..(n - 1))
  PROVE  Filled(MarkFree(st, P), n, base, limit, meta, P)
<1>1. st \in Shape(n) /\ FreeExact(st) /\ st.next_hint \in Nat
  BY Zenon DEF Filled, Shape
<1>0. PICK h \in Nat : st.next_hint = h
  BY <1>1, Zenon
<1>2. MarkFree(st, P) = [MarkFree(st, P) EXCEPT !.next_hint = h]
  <2>1. SetBits(st, P, FALSE) \in Shape(n) /\ SetBits(st, P, FALSE).next_hint = st.next_hint
    BY <1>1, SetBitsShape, Zenon DEF SetBits, Shape
  <2> QED BY <1>0, <2>1 DEF MarkFree, Shape
<1> DEFINE new == [MarkFree(st, P) EXCEPT !.next_hint = h]
<1>3. /\ new \in Shape(n) /\ FreeExact(new) /\ SameWindow(new, st)
      /\ ClearBits(new) = ClearBits(st) \cup P
  BY <1>1, MarkFreeKeeps
<1> HIDE DEF new
<1>4. Filled(new, n, base, limit, meta, P)
  BY <1>3, Zenon DEF Filled, SameWindow
<1> QED BY <1>2, <1>4, Zenon DEF new

IsRange(r) == r.base \in Nat /\ range_end(r) \in Nat

(* The pages of the window are the aligned addresses in it. *)
LEMMA WindowPagesAre ==
  ASSUME NEW n \in Nat, NEW st \in Shape(n), WholeWindow(st), NEW p \in Int
  PROVE  (st.base_pa <= p /\ p < st.limit_pa /\ p % PAGE_SIZE = 0)
           <=> \E i \in 0..(n - 1) : p = page_pa(st, i)
<1>1. st.base_pa \in Nat /\ st.total_pages = n /\ PAGE_SIZE \in Nat /\ PAGE_SIZE > 0
  BY PageAssumption DEF Shape
<1>2. PICK b \in Nat : st.base_pa = b * PAGE_SIZE
  BY <1>1, AlignedIs, Zenon DEF WholeWindow
<1>3. /\ st.limit_pa = (b + n) * PAGE_SIZE
      /\ \A i \in Nat : page_pa(st, i) = (b + i) * PAGE_SIZE
  BY <1>1, <1>2 DEF page_pa, WholeWindow
<1>4. ASSUME st.base_pa <= p, p < st.limit_pa, p % PAGE_SIZE = 0
      PROVE  \E i \in 0..(n - 1) : p = page_pa(st, i)
  <2>1. p \in Nat
    BY <1>1, <1>4
  <2>2. PICK q \in Nat : p = q * PAGE_SIZE
    BY <1>4, <2>1, AlignedIs, Zenon
  <2>3. /\ q * PAGE_SIZE < b * PAGE_SIZE <=> q < b
        /\ q * PAGE_SIZE < (b + n) * PAGE_SIZE <=> q < b + n
    BY <1>1, PageMultiples
  <2>4. q < b + n /\ ~(q < b)
    BY <1>1, <1>2, <1>3, <1>4, <2>2, <2>3
  <2>5. q - b \in 0..(n - 1) /\ q - b \in Nat /\ b + (q - b) = q
    BY <2>4
  <2>6. page_pa(st, q - b) = q * PAGE_SIZE
    BY <1>3, <2>5
  <2> QED BY <2>2, <2>5, <2>6, Zenon
<1>5. ASSUME NEW i \in 0..(n - 1), p = page_pa(st, i)
      PROVE  st.base_pa <= p /\ p < st.limit_pa /\ p % PAGE_SIZE = 0
  <2>1. i \in Nat /\ b + i \in Nat /\ p = (b + i) * PAGE_SIZE
    BY <1>3, <1>5
  <2>2. /\ (b + i) * PAGE_SIZE < b * PAGE_SIZE <=> b + i < b
        /\ (b + i) * PAGE_SIZE < (b + n) * PAGE_SIZE <=> b + i < b + n
    BY <1>1, <2>1, PageMultiples
  <2>3. ((b + i) * PAGE_SIZE + 0) % PAGE_SIZE = 0
    BY <1>1, <2>1, InPage
  <2>4. b + i < b + n /\ ~(b + i < b)
    BY <2>1
  <2>5. (b + i) * PAGE_SIZE + 0 = (b + i) * PAGE_SIZE /\ b * PAGE_SIZE \in Int
        /\ (b + i) * PAGE_SIZE \in Int
    BY <1>1, <2>1
  <2> QED BY <1>2, <1>3, <2>1, <2>2, <2>3, <2>4, <2>5
<1> QED BY <1>4, <1>5, Zenon

(* What pmm_init leaves, for any ranges platform.c may hand it (overlapping,  *)
(* touching, ending inside a page or outside the window): a page is free      *)
(* exactly when a usable range covers it and none of the four reservations    *)
(* touches it, and the allocator is in a state from which Memory starts.      *)
THEOREM PmmInitIsExact ==
  ASSUME PMM_METADATA_PAGES \in Nat,
         NEW base \in Nat, NEW limit \in Nat, base <= limit,
         base % PAGE_SIZE = 0, limit % PAGE_SIZE = 0,
         NEW usable, \A r \in usable : IsRange(r),
         NEW below, IsRange(below), NEW kernel, IsRange(kernel), NEW blob, IsRange(blob),
         NEW m \in Nat
  PROVE  LET meta == Rng(m, m + PMM_METADATA_PAGES * PAGE_SIZE)
             st == pmm_bitmap(bitmap_mark_all_reserved(base, limit, m),
                              usable, below, kernel, blob, meta)
         IN /\ PmmReady(st)
            /\ FreeSet(st) = {p \in base..(limit - 1) :
                                /\ p % PAGE_SIZE = 0
                                /\ \E r \in usable : Covers(r, p)
                                /\ ~Touches(p, below) /\ ~Touches(p, kernel)
                                /\ blob.size # 0 => ~Touches(p, blob)
                                /\ ~Touches(p, meta)}
<1> DEFINE meta == Rng(m, m + PMM_METADATA_PAGES * PAGE_SIZE)
           n == (limit - base) \div PAGE_SIZE
           st0 == bitmap_mark_all_reserved(base, limit, m)
           In(r) == Pages(st0, align_up_4k(r.base), align_down_4k(range_end(r)))
           Out(r) == Pages(st0, align_down_4k(r.base), align_up_4k(range_end(r)))
           C1 == UNION {In(r) : r \in usable}
           st1 == bitmap_mark_range_free(st0, usable)
           st2 == bitmap_mark_range_reserved(st1, below)
           C2 == C1 \ Out(below)
           st3 == bitmap_mark_range_reserved(st2, kernel)
           C3 == C2 \ Out(kernel)
           st4 == IF blob.size = 0 THEN st3 ELSE bitmap_mark_range_reserved(st3, blob)
           C4 == IF blob.size = 0 THEN C3 ELSE C3 \ Out(blob)
           st5 == bitmap_mark_range_reserved(st4, meta)
           C5 == C4 \ Out(meta)
           F(st, C) == Filled(st, n, base, limit, m, C)
<1>1. PAGE_SIZE \in Nat /\ PAGE_SIZE > 0
  BY PageAssumption
<1>2. n \in Nat /\ limit = base + n * PAGE_SIZE
  <2>1. PICK b \in Nat : base = b * PAGE_SIZE
    BY AlignedIs, Zenon
  <2>2. PICK l \in Nat : limit = l * PAGE_SIZE
    BY AlignedIs, Zenon
  <2>3. limit - base = (l - b) * PAGE_SIZE /\ n = l - b
    <3>1. l * PAGE_SIZE - b * PAGE_SIZE = (l - b) * PAGE_SIZE /\ l - b \in Int
      BY <1>1
    <3>2. ((l - b) * PAGE_SIZE) \div PAGE_SIZE = l - b
      BY <3>1, PageMultiples
    <3> QED BY <2>1, <2>2, <3>1, <3>2
  <2>4. l * PAGE_SIZE < b * PAGE_SIZE <=> l < b
    BY <1>1, PageMultiples
  <2>5. ~(l < b)
    BY <1>1, <2>1, <2>2, <2>4
  <2> HIDE DEF n
  <2> QED BY <1>1, <2>1, <2>2, <2>3, <2>5
<1>3. IsRange(meta) /\ meta.base = m /\ range_end(meta) = m + PMM_METADATA_PAGES * PAGE_SIZE
  BY <1>1 DEF Rng, range_end, IsRange
<1> HIDE DEF n, meta
<1>4. /\ st0 \in Shape(n) /\ WholeWindow(st0) /\ st0.total_pages = n
      /\ F(st0, {})
  <2>1. st0 = [base_pa |-> base, limit_pa |-> limit, total_pages |-> n, free_pages |-> 0,
               bit |-> [i \in 0..(n - 1) |-> TRUE], next_hint |-> 0, meta_base_pa |-> m]
    BY Zenon DEF bitmap_mark_all_reserved, n
  <2> HIDE DEF st0
  <2>2. st0 \in Shape(n)
    BY <1>2, <2>1 DEF Shape
  <2>3. WholeWindow(st0)
    BY <1>2, <2>1 DEF WholeWindow, page_pa
  <2>4. ClearBits(st0) = {}
    BY <2>1 DEF ClearBits
  <2>5. FreeExact(st0)
    BY <2>1, <2>4, FS_EmptySet DEF FreeExact
  <2> QED BY <2>1, <2>2, <2>3, <2>4, <2>5 DEF Filled
<1>5. F(st1, C1)
  <2>1. C1 \in SUBSET (0..(n - 1))
    BY <1>4, Zenon DEF Pages
  <2>2. st1 = MarkFree(st0, C1)
    BY Zenon DEF bitmap_mark_range_free
  <2> HIDE DEF C1, st0, st1
  <2> QED BY <1>2, <1>4, <2>1, <2>2, FreeInNew, Zenon
(* The window stays the same, so every step reserves the pages it would have  *)
(* in the first state.                                                        *)
<1>6. ASSUME NEW st, NEW C, F(st, C), NEW r
      PROVE  F(bitmap_mark_range_reserved(st, r), C \ Out(r))
  <2>1. Filled(bitmap_mark_range_reserved(st, r), n, base, limit, m,
               C \ Pages(st, align_down_4k(r.base), align_up_4k(range_end(r))))
    BY <1>2, <1>6, ReserveKeeps, Zenon
  <2>2. /\ st.base_pa = st0.base_pa /\ st.limit_pa = st0.limit_pa
        /\ st.total_pages = st0.total_pages
    BY <1>4, <1>6, Zenon DEF Filled, Shape
  <2>3. Pages(st, align_down_4k(r.base), align_up_4k(range_end(r))) = Out(r)
    BY <2>2, Zenon DEF Pages
  <2> QED BY <2>1, <2>3, Zenon
<1> HIDE DEF st0, st1, C1, F
<1>7. F(st2, C2)
  BY <1>5, <1>6, Zenon
<1> HIDE DEF st2, C2
<1>8. F(st3, C3)
  BY <1>6, <1>7, Zenon
<1> HIDE DEF st3, C3
<1>9. F(st4, C4)
  BY <1>6, <1>8, Zenon
<1> HIDE DEF st4, C4
<1>10. F(st5, C5)
  BY <1>6, <1>9, Zenon
<1>11. pmm_bitmap(st0, usable, below, kernel, blob, meta) = st5
  BY Zenon DEF pmm_bitmap, st1, st2, st3, st4
<1> DEFINE Free(p) == /\ \E r \in usable : Covers(r, p)
                      /\ ~Touches(p, below) /\ ~Touches(p, kernel)
                      /\ blob.size # 0 => ~Touches(p, blob)
                      /\ ~Touches(p, meta)
<1>12. ASSUME NEW i \in 0..(n - 1)
       PROVE  i \in C5 <=> Free(page_pa(st0, i))
  <2>1. \A r \in usable : i \in In(r) <=> Covers(r, page_pa(st0, i))
    BY <1>2, <1>4, Rounding, Zenon DEF IsRange
  <2>2. \A r : IsRange(r) => (i \in Out(r) <=> Touches(page_pa(st0, i), r))
    BY <1>2, <1>4, Rounding, Zenon DEF IsRange
  <2>3. i \in C1 <=> \E r \in usable : Covers(r, page_pa(st0, i))
    BY <2>1, Zenon DEF C1
  <2> HIDE DEF Out
  <2> QED BY <1>3, <2>2, <2>3, Zenon DEF C2, C3, C4
<1>13. C5 \subseteq 0..(n - 1)
  <2>1. C1 \subseteq 0..(n - 1)
    BY <1>4, Zenon DEF C1, Pages
  <2> HIDE DEF Out
  <2> QED BY <2>1, Zenon DEF C2, C3, C4
<1>14. /\ st5 \in Shape(n) /\ FreeExact(st5) /\ ClearBits(st5) = C5 /\ WholeWindow(st5)
       /\ st5.base_pa = base /\ st5.limit_pa = limit /\ st5.meta_base_pa = m
       /\ \A i : page_pa(st5, i) = page_pa(st0, i)
  <2> HIDE DEF st5, C5
  <2>1. st5 \in Shape(n) /\ FreeExact(st5) /\ ClearBits(st5) = C5
        /\ st5.base_pa = base /\ st5.limit_pa = limit /\ st5.meta_base_pa = m
    BY <1>10, Zenon DEF F, Filled
  <2>2. st0.base_pa = base /\ st0.limit_pa = limit /\ st5.total_pages = st0.total_pages
    BY <1>4, <2>1, Zenon DEF F, Filled, Shape
  <2> QED BY <1>4, <2>1, <2>2, Zenon DEF WholeWindow, page_pa
<1> HIDE DEF C5, Free, st5
<1>15. FreeSet(st5) = {p \in base..(limit - 1) : p % PAGE_SIZE = 0 /\ Free(p)}
  <2>1. ASSUME NEW p \in FreeSet(st5)
        PROVE  p \in base..(limit - 1) /\ p % PAGE_SIZE = 0 /\ Free(p)
    <3>1. PICK i \in C5 : p = page_pa(st5, i)
      BY <1>14, <2>1, Zenon DEF FreeSet
    <3>2. i \in 0..(n - 1) /\ Free(p)
      BY <1>12, <1>13, <1>14, <3>1, Zenon
    <3>3. p \in Int
      BY <1>1, <1>14, <3>1, <3>2 DEF page_pa
    <3>4. base <= p /\ p < limit /\ p % PAGE_SIZE = 0
      BY <1>2, <1>14, <3>1, <3>2, <3>3, WindowPagesAre, Zenon
    <3> QED BY <3>2, <3>3, <3>4
  <2>2. ASSUME NEW p \in base..(limit - 1), p % PAGE_SIZE = 0, Free(p)
        PROVE  p \in FreeSet(st5)
    <3>1. p \in Int /\ base <= p /\ p < limit
      OBVIOUS
    <3>2. PICK i \in 0..(n - 1) : p = page_pa(st5, i)
      BY <1>2, <1>14, <2>2, <3>1, WindowPagesAre, Zenon
    <3> QED BY <1>12, <1>14, <2>2, <3>2, Zenon DEF FreeSet
  <2> QED BY <2>1, <2>2, Zenon
<1>16. PmmReady(st5)
  <2>1. ASSUME NEW i \in ClearBits(st5) PROVE ~IsMeta(st5, page_pa(st5, i))
    <3>1. i \in 0..(n - 1) /\ ~Touches(page_pa(st5, i), meta)
      BY <1>12, <1>13, <1>14, <2>1, Zenon DEF Free
    <3>2. page_pa(st5, i) \in Int
      BY <1>1, <1>14, <3>1 DEF page_pa
    <3> QED BY <1>1, <1>3, <1>14, <3>1, <3>2 DEF Touches, IsMeta
  <2> QED BY <1>2, <1>14, <2>1, ReadyShape, Zenon DEF WholeWindow, Window
<1> QED BY <1>11, <1>15, <1>16, Zenon DEF Free, meta, st0

(* The run pmm_alloc_pages takes is free and lies in the bitmap. *)
LEMMA CandidateIsFree ==
  ASSUME NEW n \in Nat, NEW st \in Shape(n), NEW c \in Nat, NEW i \in Candidates(st, c)
  PROVE  /\ i \in Nat /\ c # 0 /\ i + c <= n
         /\ \A j \in i..(i + c - 1) : j \in 0..(n - 1) /\ ~st.bit[j]
<1>1. st.total_pages = n /\ st.next_hint \in Nat
  BY Zenon DEF Shape
<1> DEFINE start == IF st.next_hint >= n THEN 0 ELSE st.next_hint
<1>2. start \in Nat /\ start <= n
  BY <1>1
<1>3. c # 0 /\ FreeRun(st, i, c) /\ (i \in start..(n - c) \/ i \in 0..(start - c))
  BY <1>1, Zenon DEF Candidates
<1> HIDE DEF start
<1>4. i \in Nat /\ i + c <= n
  BY <1>2, <1>3
<1> QED BY <1>3, <1>4 DEF FreeRun

(* What pmm_alloc_pages does: nothing, or it takes a free run of pages. *)
Taken(st, c, a) ==
  \/ a.pa = -1 /\ a.st = st
  \/ \E i \in Nat : /\ a.pa = page_pa(st, i) /\ c # 0
                     /\ i..(i + c - 1) \subseteq ClearBits(st)
                     /\ ClearBits(a.st) = ClearBits(st) \ i..(i + c - 1)

(* pmm_alloc_pages keeps the count exact, whether it finds a run or not. *)
LEMMA AllocKeeps ==
  ASSUME NEW st, PmmReady(st), NEW c \in Nat
  PROVE  /\ PmmReady(pmm_alloc_pages(st, c).st) /\ SameWindow(pmm_alloc_pages(st, c).st, st)
         /\ Taken(st, c, pmm_alloc_pages(st, c))
<1>0. PICK n \in Nat : st \in Shape(n) /\ FreeExact(st) /\ Window(st)
  BY ReadyShape, Zenon
<1>1. CASE Candidates(st, c) = {}
  BY <1>1, Zenon DEF pmm_alloc_pages, SameWindow, Taken
<1>2. CASE Candidates(st, c) # {}
  <2> DEFINE i == CHOOSE k \in Candidates(st, c) : TRUE
             P == i..(i + c - 1)
             s1 == SetBits(st, P, TRUE)
             s2 == [s1 EXCEPT !.free_pages = st.free_pages - c]
             s3 == [s2 EXCEPT !.next_hint = i + c]
  <2>1. i \in Candidates(st, c)
    BY <1>2, Zenon
  <2>2. pmm_alloc_pages(st, c) = [st |-> Take(st, i, c), pa |-> page_pa(st, i)]
    BY <1>2, Zenon DEF pmm_alloc_pages
  <2> HIDE DEF i
  <2>3. i \in Nat /\ c # 0 /\ i + c <= n
    BY <1>0, <2>1, CandidateIsFree, Zenon
  <2>4. \A j \in P : j \in 0..(n - 1) /\ ~st.bit[j]
    BY <1>0, <2>1, CandidateIsFree, Zenon
  <2>5. st.total_pages = n /\ st.free_pages \in Nat
    BY <1>0, Zenon DEF Shape
  <2>6. IsFiniteSet(P) /\ Cardinality(P) = c
    BY <2>3, FS_Interval
  <2>7. s1 \in Shape(n) /\ s1.free_pages = st.free_pages /\ SameWindow(s1, st)
    <3> HIDE DEF P
    <3> QED BY <1>0, SetBitsShape, Zenon
  <2>8. P \subseteq ClearBits(st)
    BY <2>4, <2>5, Zenon DEF ClearBits
  <2>9. Cardinality(ClearBits(st) \ P) = Cardinality(ClearBits(st)) - c
        /\ Cardinality(ClearBits(st) \ P) \in Nat
    <3> HIDE DEF P
    <3>1. ClearBits(st) \cap P = P
      BY <2>8, Zenon
    <3>2. IsFiniteSet(ClearBits(st))
      BY <2>5, ClearBitsFinite, Zenon
    <3>3. IsFiniteSet(ClearBits(st) \ P)
      BY <3>2, FS_Subset, Zenon
    <3>4. Cardinality(ClearBits(st) \ P) = Cardinality(ClearBits(st)) - Cardinality(ClearBits(st) \cap P)
      BY <3>2, <2>6, FS_Difference, Zenon
    <3>5. Cardinality(ClearBits(st) \ P) \in Nat
      BY <3>3, FS_CardinalityType, Zenon
    <3> QED BY <2>6, <3>1, <3>4, <3>5
  <2>10. st.free_pages - c \in Nat /\ st.free_pages - c = Cardinality(ClearBits(st) \ P)
    <3> HIDE DEF P
    <3> QED BY <1>0, <2>9 DEF FreeExact
  <2>11. /\ s3 \in Shape(n) /\ s3.bit = s1.bit /\ s3.free_pages = st.free_pages - c
         /\ SameWindow(s3, st)
    <3> HIDE DEF s1
    <3>1. /\ s2 \in Shape(n) /\ s2.bit = s1.bit /\ s2.free_pages = st.free_pages - c
          /\ SameWindow(s2, s1)
      BY <2>7, <2>10, Writes, Zenon
    <3>2. i + c \in Nat
      BY <2>3
    <3> HIDE DEF s2
    <3>3. /\ s3 \in Shape(n) /\ s3.bit = s2.bit /\ s3.free_pages = s2.free_pages
          /\ SameWindow(s3, s2)
      BY <3>1, <3>2, Writes, Zenon
    <3> HIDE DEF s3
    <3> QED BY <2>7, <3>1, <3>3 DEF SameWindow
  <2>12. ClearBits(s3) = ClearBits(st) \ P
    <3>1. \A j \in 0..(n - 1) : ~s1.bit[j] <=> (j \notin P /\ ~st.bit[j])
      <4> HIDE DEF P
      <4> QED BY <1>0, ChangedBits, Zenon
    <3>2. s3.total_pages = n
      BY <2>11, Zenon DEF Shape
    <3> HIDE DEF s3, s1, P
    <3> QED BY <2>5, <2>11, <3>1, <3>2 DEF ClearBits
  <2>13. Take(st, i, c) = s3
    <3>1. Take(st, i, c) = [s1 EXCEPT !.free_pages = s1.free_pages - c, !.next_hint = i + c]
      BY Zenon DEF Take
    <3> HIDE DEF s1
    <3> QED BY <2>7, <3>1 DEF Shape
  <2>14. FreeExact(s3)
    <3> HIDE DEF s3, P
    <3> QED BY <2>10, <2>11, <2>12 DEF FreeExact
  <2> HIDE DEF s3
  <2>15. Window(s3)
    BY <1>0, <2>11, <2>12, WindowKept, Zenon
  <2>16. PmmReady(s3)
    BY <2>11, <2>14, <2>15, ReadyShape, Zenon
  <2>17. Taken(st, c, [st |-> s3, pa |-> page_pa(st, i)])
    BY <2>3, <2>8, <2>12, Zenon DEF Taken
  <2> QED BY <2>2, <2>11, <2>13, <2>16, <2>17
<1> QED BY <1>1, <1>2

(* While a page is free, a request for one page finds it: the search starts   *)
(* again below the hint.                                                      *)
LEMMA OnePageFound ==
  ASSUME NEW st, PmmReady(st), st.free_pages > 0
  PROVE  Candidates(st, 1) # {}
<1>0. PICK n \in Nat : st \in Shape(n) /\ FreeExact(st) /\ Window(st)
  BY ReadyShape, Zenon
<1>1. st.total_pages = n /\ st.next_hint \in Nat /\ st.free_pages \in Nat
  BY <1>0, Zenon DEF Shape
<1>2. PICK j \in 0..(n - 1) : ~st.bit[j]
  <2>1. ClearBits(st) # {}
    BY <1>0, <1>1, FS_EmptySet DEF FreeExact
  <2> QED BY <1>1, <2>1 DEF ClearBits
<1> DEFINE start == IF st.next_hint >= n THEN 0 ELSE st.next_hint
           up == {i \in start..(n - 1) : FreeRun(st, i, 1)}
           low == {i \in 0..(start - 1) : FreeRun(st, i, 1)}
<1>3. start \in Nat
  BY <1>1, Zenon
<1>4. FreeRun(st, j, 1)
  BY <1>2 DEF FreeRun
<1>5. j \in up \/ j \in low
  BY <1>2, <1>3, <1>4
<1>6. up \in SUBSET Nat /\ low \in SUBSET Nat
  BY <1>3
<1>7. Candidates(st, 1) = IF up # {} THEN {i \in up : \A k \in up : i <= k}
                          ELSE {i \in low : \A k \in low : i <= k}
  BY <1>1, <1>2 DEF Candidates
<1> HIDE DEF up, low
<1>8. CASE up # {}
  <2>1. PICK x \in up : \A y \in up : x <= y
    BY <1>6, <1>8, LeastExists, Zenon
  <2> QED BY <1>7, <1>8, <2>1
<1>9. CASE up = {}
  <2>1. PICK x \in low : \A y \in low : x <= y
    BY <1>5, <1>6, <1>9, LeastExists, Zenon
  <2> QED BY <1>7, <1>9, <2>1
<1> QED BY <1>8, <1>9

(* kheap_free_pages, the loop of pmm_free_page over a run. *)
LEMMA FreeRunKeeps ==
  ASSUME NEW st, PmmReady(st), NEW pa, NEW n
  PROVE  PmmReady(kheap_free_pages(st, pa, n))
  BY FreePagesKeeps, Zenon DEF kheap_free_pages

(* The page count a big kmalloc asks for is a number. *)
LEMMA BigPages ==
  ASSUME NEW s \in Nat
  PROVE  align_up_4k(s + HDR) \div PAGE_SIZE \in Nat
<1>1. align_up_4k(s + HDR) \in Nat
  BY PageAssumption DEF align_up_4k, HDR
<1> QED BY <1>1, PageAssumption

(* Whatever the slab cache, the heap and the page users do, and in whatever   *)
(* order, free_pages is the number of clear bits of the bitmap, and a request *)
(* for one page fails only when no page is free: for every number of pages,   *)
(* every page size, all request sizes and every allocator pmm_init may leave. *)
(* (The calls are atomic, as Memory says.)                                    *)
THEOREM PageCountIsExact == MemSpec => []PageCountExact
<1>1. MemInit => PmmReady(pmm)
  BY Zenon DEF MemInit
<1>2. PmmReady(pmm) /\ [MemNext]_<<memVars, boot_free>> => PmmReady(pmm)'
  <2> SUFFICES ASSUME PmmReady(pmm), [MemNext]_<<memVars, boot_free>>
               PROVE  PmmReady(pmm')
    BY Zenon DEF PmmReady, FreeExact, ClearBits, FreeSet, page_pa, IsMeta
  <2>1. CASE slab_alloc
    <3>1. pmm' = pmm \/ pmm' = pmm_alloc_pages(pmm, 1).st
      BY <2>1, Zenon DEF slab_alloc, memVars
    <3> QED BY <3>1, AllocKeeps
  <2>2. ASSUME NEW o \in live, slab_free(o)
        PROVE  PmmReady(pmm')
    BY <2>2, Zenon DEF slab_free
  <2>3. ASSUME NEW s \in Sizes, kmalloc(s)
        PROVE  PmmReady(pmm')
    <3> DEFINE n == align_up_4k(s + HDR) \div PAGE_SIZE
    <3>1. n \in Nat
      BY SizesAssumption, BigPages, Zenon
    <3>2. \A b : KmallocSmall(b) => pmm' = pmm \/ pmm' = pmm_alloc_pages(pmm, 1).st
      BY Zenon DEF KmallocSmall, refill_bucket
    <3>3. KmallocBig(s) => pmm' = pmm \/ pmm' = pmm_alloc_pages(pmm, n).st
      BY Zenon DEF KmallocBig
    <3>4. (\E b : KmallocSmall(b)) \/ KmallocBig(s)
      BY <2>3, Zenon DEF kmalloc
    <3> HIDE DEF n
    <3> QED BY <3>1, <3>2, <3>3, <3>4, AllocKeeps
  <2>4. ASSUME NEW o \in live, kfree(o)
        PROVE  PmmReady(pmm')
    <3>1. pmm' = pmm \/ \E pa, n : pmm' = kheap_free_pages(pmm, pa, n)
      BY <2>4, Zenon DEF kfree
    <3> QED BY <3>1, FreeRunKeeps
  <2>5. ASSUME NEW n \in Counts, kheap_alloc_pages(n)
        PROVE  PmmReady(pmm')
    <3>1. pmm' = pmm \/ pmm' = pmm_alloc_pages(pmm, n).st
      BY <2>5, Zenon DEF kheap_alloc_pages, memVars
    <3>2. n \in Nat
      BY SizesAssumption, Zenon
    <3> QED BY <3>1, <3>2, AllocKeeps
  <2>6. ASSUME NEW o \in live, FreeRunOf(o)
        PROVE  PmmReady(pmm')
    <3>1. pmm' = kheap_free_pages(pmm, o.pa, o.size \div PAGE_SIZE)
      BY <2>6, Zenon DEF FreeRunOf
    <3> QED BY <3>1, FreeRunKeeps
  <2>7. CASE UNCHANGED <<memVars, boot_free>>
    BY <2>7, Zenon DEF memVars
  <2> QED BY <2>1, <2>2, <2>3, <2>4, <2>5, <2>6, <2>7, Zenon DEF MemNext
<1>3. PmmReady(pmm) => PageCountExact
  BY OnePageFound, Zenon DEF PageCountExact, PmmReady
<1> QED BY <1>1, <1>2, <1>3, PTL DEF MemSpec

(* ----------------------------- page ownership ----------------------------- *)

(* The addresses of c pages from pa on. *)
Run(pa, c) == {pa + k * PAGE_SIZE : k \in 0..(c - 1)}

(* The pages pmm_free_page accepts. *)
Managed(st) ==
  {pa \in {page_pa(st, i) : i \in 0..(st.total_pages - 1)} : ~IsMeta(st, pa)}

(* Different pages have different addresses. *)
LEMMA PagesDiffer ==
  ASSUME NEW st, st.base_pa \in Nat, NEW i \in Int, NEW j \in Int
  PROVE  page_pa(st, i) = page_pa(st, j) <=> i = j
<1>1. PAGE_SIZE \in Nat /\ PAGE_SIZE > 0
  BY PageAssumption
<1>2. ASSUME page_pa(st, i) = page_pa(st, j) PROVE i = j
  <2>1. i * PAGE_SIZE = j * PAGE_SIZE
    BY <1>1, <1>2 DEF page_pa
  <2>2. (i - j) * PAGE_SIZE = 0
    BY <1>1, <2>1
  <2>3. i - j = 0
    BY <1>1, <2>2
  <2> QED BY <2>3
<1> QED BY <1>2

(* The addresses of a run of the bitmap. *)
LEMMA RunOfBits ==
  ASSUME NEW st, st.base_pa \in Nat, NEW i \in Nat, NEW c \in Nat
  PROVE  Run(page_pa(st, i), c) = {page_pa(st, j) : j \in i..(i + c - 1)}
<1>1. PAGE_SIZE \in Nat
  BY PageAssumption, Zenon
<1>2. ASSUME NEW k \in 0..(c - 1)
      PROVE  i + k \in i..(i + c - 1) /\ page_pa(st, i) + k * PAGE_SIZE = page_pa(st, i + k)
  BY <1>1 DEF page_pa
<1>3. ASSUME NEW j \in i..(i + c - 1)
      PROVE  j - i \in 0..(c - 1) /\ page_pa(st, j) = page_pa(st, i) + (j - i) * PAGE_SIZE
  BY <1>1 DEF page_pa
<1> QED BY <1>2, <1>3 DEF Run

(* pmm_alloc_pages hands out free pages, and no other page changes hands. *)
LEMMA AllocPages ==
  ASSUME NEW st, PmmReady(st), NEW c \in Nat, NEW a, a = pmm_alloc_pages(st, c), a.pa # -1
  PROVE  /\ PmmReady(a.st) /\ SameWindow(a.st, st)
         /\ a.pa \in Nat /\ a.pa % PAGE_SIZE = 0 /\ c # 0
         /\ Run(a.pa, c) \subseteq FreeSet(st)
         /\ FreeSet(a.st) = FreeSet(st) \ Run(a.pa, c)
<1>0. PICK n \in Nat : st \in Shape(n) /\ FreeExact(st) /\ Window(st)
  BY ReadyShape, Zenon
<1>1. st.base_pa \in Nat /\ st.total_pages = n
  BY <1>0, Zenon DEF Shape
<1>2. PmmReady(a.st) /\ SameWindow(a.st, st) /\ Taken(st, c, a)
  BY AllocKeeps, Zenon
<1>3. PICK i \in Nat : /\ a.pa = page_pa(st, i) /\ c # 0
                       /\ i..(i + c - 1) \subseteq ClearBits(st)
                       /\ ClearBits(a.st) = ClearBits(st) \ i..(i + c - 1)
  BY <1>2, Zenon DEF Taken
<1>4. Run(a.pa, c) = {page_pa(st, j) : j \in i..(i + c - 1)}
  BY <1>1, <1>3, RunOfBits
<1>5. \A j : page_pa(a.st, j) = page_pa(st, j)
  BY <1>2, Zenon DEF SameWindow, page_pa
<1>6. \A j, k \in ClearBits(st) : page_pa(st, j) = page_pa(st, k) => j = k
  <2>1. \A j \in ClearBits(st) : j \in Int
    BY <1>1 DEF ClearBits
  <2> QED BY <1>1, <2>1, PagesDiffer
<1>7. Run(a.pa, c) \subseteq FreeSet(st)
  BY <1>3, <1>4, Zenon DEF FreeSet
<1>8. FreeSet(a.st) = FreeSet(st) \ Run(a.pa, c)
  <2> DEFINE P == i..(i + c - 1)
  <2>1. /\ P \subseteq ClearBits(st) /\ ClearBits(a.st) = ClearBits(st) \ P
        /\ Run(a.pa, c) = {page_pa(st, j) : j \in P}
    BY <1>3, <1>4, Zenon
  <2> HIDE DEF P
  <2>2. FreeSet(a.st) = {page_pa(st, j) : j \in ClearBits(st) \ P}
    BY <1>5, <2>1, Zenon DEF FreeSet
  <2>3. ASSUME NEW j \in ClearBits(st) \ P PROVE page_pa(st, j) \in FreeSet(st) \ Run(a.pa, c)
    BY <1>6, <2>1, Zenon DEF FreeSet
  <2>4. ASSUME NEW p \in FreeSet(st) \ Run(a.pa, c)
        PROVE  \E j \in ClearBits(st) \ P : p = page_pa(st, j)
    BY <2>1, Zenon DEF FreeSet
  <2> QED BY <2>2, <2>3, <2>4
<1>9. a.pa \in Nat /\ a.pa % PAGE_SIZE = 0
  <2>1. i \in i..(i + c - 1)
    BY <1>3
  <2>2. i \in 0..(n - 1)
    BY <1>1, <1>3, <2>1, Zenon DEF ClearBits
  <2> QED BY <1>0, <1>3, <2>2, PageInWindow
<1> QED BY <1>2, <1>3, <1>7, <1>8, <1>9

(* Releasing a run of allocated pages frees them and no other. *)
LEMMA ReleaseRun ==
  ASSUME NEW st, PmmReady(st), NEW pa \in Nat, pa % PAGE_SIZE = 0, NEW c,
         Run(pa, c) \subseteq Managed(st) \ FreeSet(st),
         NEW new, new = kheap_free_pages(st, pa, c)
  PROVE  /\ PmmReady(new) /\ SameWindow(new, st)
         /\ FreeSet(new) = FreeSet(st) \cup Run(pa, c)
<1>1. align_down_4k(pa) = pa
  <2>1. PICK q \in Nat : pa = q * PAGE_SIZE
    BY AlignedIs, Zenon
  <2>2. 0 \in 0..(PAGE_SIZE - 1) /\ q * PAGE_SIZE + 0 = q * PAGE_SIZE
    BY PageAssumption
  <2>3. align_down_4k(q * PAGE_SIZE + 0) = q * PAGE_SIZE
    BY <2>2, InPage, Zenon
  <2> QED BY <2>1, <2>2, <2>3
<1>2. new = FreePages(st, Run(pa, c))
  BY <1>1, Zenon DEF kheap_free_pages, Run
<1>3. /\ PmmReady(new) /\ SameWindow(new, st)
      /\ ClearBits(new) = ClearBits(st) \cup FreedBits(st, Run(pa, c))
  BY <1>2, FreePagesKeeps, Zenon
<1>4. \A j : page_pa(new, j) = page_pa(st, j)
  BY <1>3, Zenon DEF SameWindow, page_pa
<1>5. {page_pa(st, i) : i \in FreedBits(st, Run(pa, c))} = Run(pa, c)
  <2>1. ASSUME NEW p \in Run(pa, c)
        PROVE  \E i \in FreedBits(st, Run(pa, c)) : p = page_pa(st, i)
    <3>1. p \in Managed(st) /\ p \notin FreeSet(st)
      BY Zenon
    <3>2. PICK i \in 0..(st.total_pages - 1) : p = page_pa(st, i) /\ ~IsMeta(st, p)
      BY <3>1, Zenon DEF Managed
    <3>3. st.bit[i]
      BY <3>1, <3>2, Zenon DEF FreeSet, ClearBits
    <3> QED BY <3>2, <3>3 DEF FreedBits
  <2> QED BY <2>1 DEF FreedBits
<1>6. FreeSet(new) = FreeSet(st) \cup Run(pa, c)
  BY <1>3, <1>4, <1>5, Zenon DEF FreeSet
<1> QED BY <1>3, <1>6

(* EveryPageHasOneOwner, of the pages C of the cache, the pages B of the      *)
(* buckets, the multi-page allocations W and the pages U that are in use.     *)
Owners(C, B, W, U) ==
  /\ U = C \cup B \cup UNION {PagesOf(o) : o \in W}
  /\ C \cap B = {}
  /\ \A o \in W : PagesOf(o) \cap (C \cup B) = {}
  /\ \A o, q \in W : o # q => PagesOf(o) \cap PagesOf(q) = {}

(* A page that was free may go to the cache, to a bucket or into a run, and a *)
(* run may give its pages back.                                               *)
LEMMA OwnersKept ==
  ASSUME NEW C, NEW B, NEW W, NEW U, Owners(C, B, W, U)
  PROVE  /\ \A p : p \notin U => Owners(C \cup {p}, B, W, U \cup {p})
         /\ \A p : p \notin U => Owners(C, B \cup {p}, W, U \cup {p})
         /\ \A o : PagesOf(o) \cap U = {} => Owners(C, B, W \cup {o}, U \cup PagesOf(o))
         /\ \A o \in W : Owners(C, B, W \ {o}, U \ PagesOf(o))
<1>1. ASSUME NEW p, p \notin U PROVE Owners(C \cup {p}, B, W, U \cup {p})
  BY <1>1, Zenon DEF Owners
<1>2. ASSUME NEW p, p \notin U PROVE Owners(C, B \cup {p}, W, U \cup {p})
  BY <1>2, Zenon DEF Owners
<1>3. ASSUME NEW o, PagesOf(o) \cap U = {} PROVE Owners(C, B, W \cup {o}, U \cup PagesOf(o))
  <2>1. UNION {PagesOf(q) : q \in W \cup {o}} = (UNION {PagesOf(q) : q \in W}) \cup PagesOf(o)
    BY Zenon
  <2>2. \A q \in W : PagesOf(q) \subseteq U
    BY Zenon DEF Owners
  <2> QED BY <1>3, <2>1, <2>2, Zenon DEF Owners
<1>4. ASSUME NEW o \in W PROVE Owners(C, B, W \ {o}, U \ PagesOf(o))
  <2>1. U \ PagesOf(o) = C \cup B \cup UNION {PagesOf(q) : q \in W \ {o}}
    BY Zenon DEF Owners
  <2> QED BY <2>1, Zenon DEF Owners
<1> QED BY <1>1, <1>2, <1>3, <1>4, Zenon

(* The pages of a block that begins d units into page q and ends with a page. *)
LEMMA PagesOfRun ==
  ASSUME NEW q \in Nat, NEW d \in 0..(PAGE_SIZE - 1), NEW n \in Nat \ {0}, NEW o,
         o.pa = q * PAGE_SIZE + d, o.size = n * PAGE_SIZE - d
  PROVE  PagesOf(o) = Run(q * PAGE_SIZE, n)
<1>1. PAGE_SIZE \in Nat /\ PAGE_SIZE > 0
  BY PageAssumption
<1>2. align_down_4k(o.pa) = q * PAGE_SIZE
  BY InPage, Zenon
<1>3. o.pa + o.size - 1 = q * PAGE_SIZE + n * PAGE_SIZE - 1
  BY <1>1
<1>4. PagesOf(o) = {p \in (q * PAGE_SIZE)..(q * PAGE_SIZE + n * PAGE_SIZE - 1) : p % PAGE_SIZE = 0}
  BY <1>2, <1>3, Zenon DEF PagesOf
<1>5. q * PAGE_SIZE \in Nat /\ n * PAGE_SIZE \in Nat
  BY <1>1
<1>6. ASSUME NEW p \in PagesOf(o) PROVE p \in Run(q * PAGE_SIZE, n)
  <2>1. p \in Nat /\ p % PAGE_SIZE = 0 /\ q * PAGE_SIZE <= p
        /\ p < q * PAGE_SIZE + n * PAGE_SIZE
    BY <1>4, <1>5
  <2>2. PICK r \in Nat : p = r * PAGE_SIZE
    BY <2>1, AlignedIs, Zenon
  <2>3. (r - q) * PAGE_SIZE >= 0 /\ (r - q) * PAGE_SIZE < n * PAGE_SIZE
    BY <1>1, <2>1, <2>2
  <2>4. r - q >= 0
    BY <1>1, <2>3
  <2>5. r - q < n
    BY <1>1, <2>3
  <2>6. p = q * PAGE_SIZE + (r - q) * PAGE_SIZE
    BY <1>1, <2>2
  <2> QED BY <2>4, <2>5, <2>6 DEF Run
<1>7. ASSUME NEW k \in 0..(n - 1) PROVE q * PAGE_SIZE + k * PAGE_SIZE \in PagesOf(o)
  <2>1. 0 <= k * PAGE_SIZE /\ k * PAGE_SIZE <= (n - 1) * PAGE_SIZE /\ k * PAGE_SIZE \in Int
    BY <1>1
  <2>2. (n - 1) * PAGE_SIZE = n * PAGE_SIZE - PAGE_SIZE
    BY <1>1
  <2>3. k * PAGE_SIZE <= n * PAGE_SIZE - 1
    BY <1>1, <1>5, <2>1, <2>2
  <2>4. (q * PAGE_SIZE + k * PAGE_SIZE) % PAGE_SIZE = 0
    <3>1. (q + k) * PAGE_SIZE + 0 = q * PAGE_SIZE + k * PAGE_SIZE
      BY <1>1
    <3>2. q + k \in Nat /\ 0 \in 0..(PAGE_SIZE - 1)
      BY <1>1
    <3>3. ((q + k) * PAGE_SIZE + 0) % PAGE_SIZE = 0
      BY <3>2, InPage, Zenon
    <3> QED BY <3>1, <3>3
  <2> HIDE DEF Run
  <2> QED BY <1>4, <1>5, <2>1, <2>3, <2>4
<1> QED BY <1>6, <1>7 DEF Run

(* Rounding up never goes below. *)
LEMMA AlignUpAbove ==
  ASSUME NEW x \in Nat, NEW al \in Nat \ {0}
  PROVE  AlignUp(x, al) \in Nat /\ x <= AlignUp(x, al)
<1> DEFINE y == x + al - 1
           e == y \div al
           r == y % al
<1>1. y \in Nat /\ e \in Nat /\ r \in 0..(al - 1) /\ y = e * al + r
  OBVIOUS
<1>2. AlignUp(x, al) = e * al
  BY Zenon DEF AlignUp
<1> HIDE DEF e, r
<1>3. e * al \in Nat /\ e * al = y - r
  BY <1>1
<1> QED BY <1>1, <1>2, <1>3

(* The addresses of the blocks of bs units in the page at pa. *)
Blocks(pa, bs, al) ==
  {AlignUp(pa + HDR, al) + (k - 1) * bs :
     k \in 1..((pa + PAGE_SIZE - AlignUp(pa + HDR, al)) \div bs)}

(* The blocks of a page lie behind its header and inside it, and apart.       *)
LEMMA BlocksFit ==
  ASSUME NEW pa \in Nat, NEW bs \in Nat \ {0}, NEW al \in Nat \ {0}
  PROVE  /\ \A x \in Blocks(pa, bs, al) : x \in Nat /\ pa + HDR <= x /\ x + bs <= pa + PAGE_SIZE
         /\ \A x, y \in Blocks(pa, bs, al) : x # y => x + bs <= y \/ y + bs <= x
<1> DEFINE first == AlignUp(pa + HDR, al)
           room == pa + PAGE_SIZE - first
           cnt == room \div bs
<1>1. PAGE_SIZE \in Nat /\ first \in Nat /\ pa + HDR <= first /\ HDR = 1
  BY PageAssumption, AlignUpAbove DEF HDR
<1>2. Blocks(pa, bs, al) = {first + (k - 1) * bs : k \in 1..cnt}
  BY Zenon DEF Blocks
<1> HIDE DEF first
<1>3. room \in Int
  BY <1>1
<1> DEFINE r == room % bs
<1>4. cnt \in Int /\ r \in 0..(bs - 1) /\ room = cnt * bs + r
  <2> HIDE DEF room
  <2> QED BY <1>3
<1>5. room = pa + PAGE_SIZE - first
  BY Zenon
<1> HIDE DEF room, cnt, r
<1>6. ASSUME NEW k \in 1..cnt
      PROVE  /\ first + (k - 1) * bs \in Nat /\ first <= first + (k - 1) * bs
             /\ first + (k - 1) * bs + bs <= pa + PAGE_SIZE
  <2>1. k \in Nat /\ k >= 1 /\ (k - 1) * bs \in Nat /\ k * bs \in Nat /\ (k - 1) * bs + bs = k * bs
    BY <1>4
  <2>2. k * bs <= cnt * bs
    BY <1>4
  <2>3. cnt * bs <= room /\ cnt * bs \in Int
    BY <1>4
  <2> QED BY <1>1, <1>3, <1>5, <2>1, <2>2, <2>3
<1>7. ASSUME NEW j \in 1..cnt, NEW k \in 1..cnt, j < k
      PROVE  first + (j - 1) * bs + bs <= first + (k - 1) * bs
  <2>1. (j - 1) * bs + bs = j * bs /\ j * bs \in Int /\ (k - 1) * bs \in Int /\ (j - 1) * bs \in Int
    BY <1>4
  <2>2. j * bs <= (k - 1) * bs
    BY <1>4, <1>7
  <2> QED BY <1>1, <2>1, <2>2
<1>8. \A x \in Blocks(pa, bs, al) : x \in Nat /\ pa + HDR <= x /\ x + bs <= pa + PAGE_SIZE
  BY <1>1, <1>2, <1>6
<1>9. ASSUME NEW j \in 1..cnt, NEW k \in 1..cnt, first + (j - 1) * bs # first + (k - 1) * bs
      PROVE  \/ first + (j - 1) * bs + bs <= first + (k - 1) * bs
             \/ first + (k - 1) * bs + bs <= first + (j - 1) * bs
  <2>1. j \in Int /\ k \in Int /\ j # k
    BY <1>4, <1>9
  <2> QED BY <1>7, <2>1
<1> QED BY <1>2, <1>8, <1>9

(* A block is in the page that align_down_4k finds. *)
LEMMA BlockPage ==
  ASSUME NEW pa \in Nat, pa % PAGE_SIZE = 0, NEW d \in 0..(PAGE_SIZE - 1)
  PROVE  align_down_4k(pa + d) = pa
<1>1. PICK q \in Nat : pa = q * PAGE_SIZE
  BY AlignedIs, Zenon
<1> QED BY <1>1, InPage

(* Hence slab_free and kfree look at the header of the block's own page. *)
LEMMA BlockHome ==
  ASSUME NEW pa \in Nat, pa % PAGE_SIZE = 0, NEW bs \in Nat \ {0}, NEW al \in Nat \ {0},
         NEW x \in Blocks(pa, bs, al)
  PROVE  align_down_4k(x) = pa
<1>1. x \in Nat /\ pa + HDR <= x /\ x + bs <= pa + PAGE_SIZE
  BY BlocksFit, Zenon
<1>2. x - pa \in 0..(PAGE_SIZE - 1) /\ x = pa + (x - pa)
  BY <1>1, PageAssumption DEF HDR
<1>3. align_down_4k(pa + (x - pa)) = pa
  BY <1>2, BlockPage, Zenon
<1> QED BY <1>2, <1>3

(* The free list the push-front loops leave holds every block once. *)
LEMMA FreshIs ==
  ASSUME NEW pa \in Nat, NEW bs \in Nat \ {0}, NEW al \in Nat \ {0}
  PROVE  /\ FreshBlocks(pa, bs, al) \in Seq(Nat)
         /\ IsInjective(FreshBlocks(pa, bs, al))
         /\ Range(FreshBlocks(pa, bs, al)) = Blocks(pa, bs, al)
         /\ Len(FreshBlocks(pa, bs, al)) >= (pa + PAGE_SIZE - AlignUp(pa + HDR, al)) \div bs
<1> DEFINE first == AlignUp(pa + HDR, al)
           cnt == (pa + PAGE_SIZE - first) \div bs
           m == IF cnt >= 0 THEN cnt ELSE 0
           f == FreshBlocks(pa, bs, al)
<1>1. first \in Nat /\ pa + PAGE_SIZE - first \in Int
  BY PageAssumption, AlignUpAbove DEF HDR
<1>2. cnt \in Int
  <2> HIDE DEF first
  <2> QED BY <1>1
<1>3. /\ f = [i \in 1..cnt |-> first + (cnt - i) * bs]
      /\ Blocks(pa, bs, al) = {first + (k - 1) * bs : k \in 1..cnt}
  BY Zenon DEF FreshBlocks, Blocks
<1> HIDE DEF first, cnt, f
<1>4. m \in Nat /\ 1..cnt = 1..m /\ m >= cnt
  BY <1>2
<1>5. \A i \in 1..m : cnt = m
  BY <1>2
<1> HIDE DEF m
<1>6. f = [i \in 1..m |-> first + (m - i) * bs]
  BY <1>3, <1>4, <1>5, Zenon
<1>7. ASSUME NEW i \in 1..m PROVE first + (m - i) * bs \in Nat
  <2>1. m - i \in Nat
    BY <1>4
  <2> QED BY <1>1, <2>1
<1>8. f \in Seq(Nat) /\ Len(f) = m /\ DOMAIN f = 1..m
  BY <1>4, <1>6, <1>7
<1>9. IsInjective(f)
  <2>1. ASSUME NEW i \in 1..m, NEW j \in 1..m, f[i] = f[j] PROVE i = j
    <3>1. first + (m - i) * bs = first + (m - j) * bs
      BY <1>6, <2>1, Zenon
    <3>2. (m - i) * bs = (m - j) * bs
      BY <1>1, <1>4, <3>1
    <3>3. (j - i) * bs = 0 /\ j - i \in Int
      BY <1>4, <3>2
    <3> QED BY <1>4, <3>3
  <2> QED BY <1>8, <2>1 DEF IsInjective
<1>10. Range(f) = Blocks(pa, bs, al)
  <2>1. Range(f) = {first + (m - i) * bs : i \in 1..m}
    BY <1>6, <1>8, Zenon DEF Range
  <2>2. ASSUME NEW i \in 1..m PROVE \E k \in 1..m : first + (m - i) * bs = first + (k - 1) * bs
    <3>1. (m - i) + 1 \in 1..m /\ ((m - i) + 1) - 1 = m - i
      BY <1>4
    <3> QED BY <3>1
  <2>3. ASSUME NEW k \in 1..m PROVE \E i \in 1..m : first + (k - 1) * bs = first + (m - i) * bs
    <3>1. (m - k) + 1 \in 1..m /\ m - ((m - k) + 1) = k - 1
      BY <1>4
    <3> QED BY <3>1
  <2>4. Blocks(pa, bs, al) = {first + (k - 1) * bs : k \in 1..m}
    BY <1>3, <1>4, Zenon
  <2>5. ASSUME NEW x \in Range(f) PROVE x \in Blocks(pa, bs, al)
    BY <2>1, <2>2, <2>4, Zenon
  <2>6. ASSUME NEW x \in Blocks(pa, bs, al) PROVE x \in Range(f)
    BY <2>1, <2>3, <2>4, Zenon
  <2> QED BY <2>5, <2>6
<1> QED BY <1>4, <1>8, <1>9, <1>10 DEF f, cnt, first

(* ------------------------------- slab cache ------------------------------- *)

SlabPage == [pa : Nat, freelist : Seq(Nat), inuse : Nat]
Obj(x) == [kind |-> "obj", pa |-> x, size |-> OBJ_SIZE]
ObjsIn(O, p) == {o \in O : align_down_4k(o.pa) = p}
ObjBlocks(p) == Blocks(p, OBJ_SIZE, OBJ_ALIGN)
CPages(P) == {P[i].pa : i \in DOMAIN P}

(* A page of the cache: its free list holds blocks of the page that are not   *)
(* handed out, each once, and inuse counts the ones that are.                 *)
PageOK(sp, O) ==
  /\ sp.pa % PAGE_SIZE = 0
  /\ IsInjective(sp.freelist)
  /\ Range(sp.freelist) \subseteq ObjBlocks(sp.pa)
  /\ \A o \in O : o.pa \notin Range(sp.freelist)
  /\ sp.inuse = Cardinality(ObjsIn(O, sp.pa))

(* The pages P of a cache, its inuse_objects n and the objects O handed out. *)
SlabInv(P, n, O) ==
  /\ P \in Seq(SlabPage) /\ IsFiniteSet(O) /\ n = Cardinality(O)
  /\ \A i, j \in DOMAIN P : P[i].pa = P[j].pa => i = j
  /\ \A i \in DOMAIN P : PageOK(P[i], O)
  /\ \A o \in O : o = Obj(o.pa) /\ o.pa \in Nat /\ \E i \in DOMAIN P : o.pa \in ObjBlocks(P[i].pa)

(* Every page of the cache is a page, and in order. *)
LEMMA CachePage ==
  ASSUME NEW P, NEW n, NEW O, SlabInv(P, n, O), NEW i \in DOMAIN P
  PROVE  P[i] \in SlabPage /\ P[i].pa \in Nat /\ P[i].pa % PAGE_SIZE = 0 /\ PageOK(P[i], O)
<1>1. P[i] \in SlabPage /\ PageOK(P[i], O)
  BY DEF SlabInv
<1> QED BY <1>1 DEF SlabPage, PageOK

(* A block of a cache page has that page as its home. *)
LEMMA ObjHome ==
  ASSUME NEW p \in Nat, p % PAGE_SIZE = 0, NEW x \in ObjBlocks(p)
  PROVE  x \in Nat /\ align_down_4k(x) = p
  BY BlockHome, BlocksFit, SlabAssumption, Zenon DEF ObjBlocks

(* Writing one page of the cache. *)
LEMMA SlabWrite ==
  ASSUME NEW P, NEW n, NEW O, SlabInv(P, n, O), NEW i \in DOMAIN P,
         NEW sp \in SlabPage, sp.pa = P[i].pa, NEW Q, NEW R, NEW m,
         IsFiniteSet(R), m = Cardinality(R), PageOK(sp, R),
         \A p : p # sp.pa => ObjsIn(R, p) = ObjsIn(O, p),
         \A o \in R : o \in O \/ (o = Obj(o.pa) /\ o.pa \in ObjBlocks(sp.pa)),
         Q = [P EXCEPT ![i] = sp]
  PROVE  SlabInv(Q, m, R) /\ CPages(Q) = CPages(P)
<1>1. P \in Seq(SlabPage) /\ P[i] \in SlabPage /\ P[i].pa % PAGE_SIZE = 0
  BY DEF SlabInv, PageOK
<1>2. Q \in Seq(SlabPage) /\ DOMAIN Q = DOMAIN P
  BY <1>1
<1>3. Q[i] = sp /\ \A j \in DOMAIN P : j # i => Q[j] = P[j]
  BY <1>1, Zenon
<1>4. \A j \in DOMAIN P : Q[j].pa = P[j].pa
  BY <1>3, Zenon
<1>5. \A j, k \in DOMAIN Q : Q[j].pa = Q[k].pa => j = k
  BY <1>2, <1>4 DEF SlabInv
<1>6. ASSUME NEW j \in DOMAIN P PROVE PageOK(Q[j], R)
  <2>1. CASE j = i
    BY <1>3, <2>1, Zenon
  <2>2. CASE j # i
    <3>1. PageOK(P[j], O) /\ P[j].pa # sp.pa /\ P[j] \in SlabPage
      BY <1>1, <2>2 DEF SlabInv
    <3>2. ObjsIn(R, P[j].pa) = ObjsIn(O, P[j].pa)
      BY <3>1, Zenon
    <3>3. ASSUME NEW o \in R, o.pa \in Range(P[j].freelist) PROVE FALSE
      <4>1. o \in O \/ o.pa \in ObjBlocks(sp.pa)
        BY Zenon
      <4>2. CASE o \in O
        BY <3>1, <3>3, <4>2, Zenon DEF PageOK
      <4>3. CASE o.pa \in ObjBlocks(sp.pa)
        <5>1. align_down_4k(o.pa) = sp.pa
          BY <1>1, <4>3, ObjHome, Zenon DEF SlabPage
        <5>2. o.pa \in ObjBlocks(P[j].pa) /\ P[j].pa \in Nat /\ P[j].pa % PAGE_SIZE = 0
          BY <3>1, <3>3, Zenon DEF PageOK, SlabPage
        <5>3. align_down_4k(o.pa) = P[j].pa
          BY <5>2, ObjHome, Zenon
        <5> QED BY <3>1, <5>1, <5>3
      <4> QED BY <4>1, <4>2, <4>3
    <3>4. Q[j] = P[j]
      BY <1>3, <2>2, Zenon
    <3> QED BY <3>1, <3>2, <3>3, <3>4 DEF PageOK
  <2> QED BY <2>1, <2>2
<1>7. ASSUME NEW o \in R
      PROVE  o = Obj(o.pa) /\ o.pa \in Nat /\ \E j \in DOMAIN Q : o.pa \in ObjBlocks(Q[j].pa)
  <2>1. CASE o \in O
    BY <1>2, <1>4, <2>1, Zenon DEF SlabInv
  <2>2. CASE o = Obj(o.pa) /\ o.pa \in ObjBlocks(sp.pa)
    BY <1>1, <1>2, <1>3, <2>2, ObjHome, Zenon DEF SlabPage
  <2> QED BY <2>1, <2>2
<1>8. CPages(Q) = CPages(P)
  BY <1>2, <1>4, Zenon DEF CPages
<1> QED BY <1>2, <1>5, <1>6, <1>7, <1>8 DEF SlabInv

(* Writing the free list and the count of a page leaves its address. *)
LEMMA PageWrite ==
  ASSUME NEW sp \in SlabPage, NEW F, NEW u
  PROVE  [sp EXCEPT !.freelist = F, !.inuse = u] = [pa |-> sp.pa, freelist |-> F, inuse |-> u]
<1>1. sp = [pa |-> sp.pa, freelist |-> sp.freelist, inuse |-> sp.inuse]
  BY Zenon DEF SlabPage
<1>2. [sp EXCEPT !.freelist = F] = [pa |-> sp.pa, freelist |-> F, inuse |-> sp.inuse]
  BY <1>1
<1> DEFINE s1 == [sp EXCEPT !.freelist = F]
<1>3. s1 = [pa |-> sp.pa, freelist |-> F, inuse |-> sp.inuse]
  BY <1>2, Zenon
<1> HIDE DEF s1
<1>4. [s1 EXCEPT !.inuse = u] = [pa |-> sp.pa, freelist |-> F, inuse |-> u]
  BY <1>3
<1> QED BY <1>4 DEF s1

(* slab_alloc hands out the first object of page i. *)
LEMMA SlabTakes ==
  ASSUME NEW P, NEW n, NEW O, SlabInv(P, n, O), NEW i \in DOMAIN P, P[i].freelist # <<>>
  PROVE  LET x == Head(P[i].freelist)
             r == SlabTake([pages |-> P, inuse_objects |-> n], i)
         IN /\ r.obj = x /\ x \in Nat /\ align_down_4k(x) = P[i].pa
            /\ r.c = [pages |-> r.c.pages, inuse_objects |-> r.c.inuse_objects]
            /\ SlabInv(r.c.pages, r.c.inuse_objects, O \cup {Obj(x)})
            /\ CPages(r.c.pages) = CPages(P)
<1> DEFINE x == Head(P[i].freelist)
           sp == [pa |-> P[i].pa, freelist |-> Tail(P[i].freelist), inuse |-> P[i].inuse + 1]
           R == O \cup {Obj(x)}
           Q == [P EXCEPT ![i] = sp]
<1>1. P \in Seq(SlabPage) /\ P[i] \in SlabPage /\ PageOK(P[i], O) /\ IsFiniteSet(O)
      /\ n = Cardinality(O)
  BY DEF SlabInv
<1>2. P[i].pa \in Nat /\ P[i].pa % PAGE_SIZE = 0 /\ P[i].freelist \in Seq(Nat) /\ P[i].inuse \in Nat
  BY <1>1, Zenon DEF SlabPage, PageOK
<1>3. /\ x \in Range(P[i].freelist) /\ Tail(P[i].freelist) \in Seq(Nat)
      /\ Range(P[i].freelist) = Range(Tail(P[i].freelist)) \cup {x}
      /\ x \notin Range(Tail(P[i].freelist)) /\ IsInjective(Tail(P[i].freelist))
  BY <1>1, <1>2, TailMembers, Zenon DEF PageOK
<1>4. x \in ObjBlocks(P[i].pa)
  BY <1>1, <1>3, Zenon DEF PageOK
<1>5. x \in Nat /\ align_down_4k(x) = P[i].pa
  BY <1>2, <1>4, ObjHome, Zenon
<1> HIDE DEF x
<1>6. Obj(x).pa = x
  BY Zenon DEF Obj
<1>7. Obj(x) \notin O
  BY <1>1, <1>3, <1>6, Zenon DEF PageOK
<1>8. IsFiniteSet(R) /\ Cardinality(R) = n + 1
  BY <1>1, <1>7, FS_AddElement, Zenon
<1>9. sp \in SlabPage /\ sp.pa = P[i].pa /\ sp.freelist = Tail(P[i].freelist)
      /\ sp.inuse = P[i].inuse + 1
  BY <1>2, <1>3 DEF SlabPage
<1>10. \A p : p # sp.pa => ObjsIn(R, p) = ObjsIn(O, p)
  BY <1>5, <1>6, <1>9, Zenon DEF ObjsIn
<1>11. Cardinality(ObjsIn(R, P[i].pa)) = P[i].inuse + 1
  <2>1. ObjsIn(R, P[i].pa) = ObjsIn(O, P[i].pa) \cup {Obj(x)}
    BY <1>5, <1>6, Zenon DEF ObjsIn
  <2>2. Obj(x) \notin ObjsIn(O, P[i].pa) /\ ObjsIn(O, P[i].pa) \subseteq O
    BY <1>7, Zenon DEF ObjsIn
  <2>3. IsFiniteSet(ObjsIn(O, P[i].pa))
    BY <1>1, <2>2, FS_Subset, ZenonT(30)
  <2> QED BY <1>1, <2>1, <2>2, <2>3, FS_AddElement, Zenon DEF PageOK
<1>12. PageOK(sp, R)
  <2>1. \A o \in R : o.pa \notin Range(sp.freelist)
    BY <1>1, <1>3, <1>6, <1>9, Zenon DEF PageOK
  <2> HIDE DEF sp, R
  <2> QED BY <1>1, <1>2, <1>3, <1>9, <1>11, <2>1 DEF PageOK
<1>13. \A o \in R : o \in O \/ (o = Obj(o.pa) /\ o.pa \in ObjBlocks(sp.pa))
  BY <1>4, <1>6, Zenon
<1>14. SlabInv(Q, n + 1, R) /\ CPages(Q) = CPages(P)
  <2> HIDE DEF sp, R
  <2> QED BY <1>8, <1>9, <1>10, <1>12, <1>13, SlabWrite
<1>15. [P EXCEPT ![i].freelist = Tail(P[i].freelist), ![i].inuse = P[i].inuse + 1] = Q
  <2>1. [P[i] EXCEPT !.freelist = Tail(P[i].freelist), !.inuse = P[i].inuse + 1] = sp
    BY <1>1, PageWrite, Zenon
  <2> QED BY <1>1, <2>1, Zenon DEF SlabPage
<1>16. SlabTake([pages |-> P, inuse_objects |-> n], i)
         = [obj |-> x, c |-> [pages |-> Q, inuse_objects |-> n + 1]]
  BY <1>1, <1>15, Zenon DEF SlabTake, x, SlabPage
<1> HIDE DEF Q, R
<1> QED BY <1>5, <1>14, <1>16 DEF x, R

(* Pushing a block on the front of a free list. *)
LEMMA PushMembers ==
  ASSUME NEW s \in Seq(Nat), IsInjective(s), NEW x \in Nat, x \notin Range(s)
  PROVE  <<x>> \o s \in Seq(Nat) /\ Range(<<x>> \o s) = {x} \cup Range(s) /\ IsInjective(<<x>> \o s)
<1>1. <<x>> \in Seq(Nat) /\ Range(<<x>>) = {x} /\ IsInjective(<<x>>)
  BY DEF Range, IsInjective
<1>2. Range(<<x>>) \cap Range(s) = {}
  BY <1>1, Zenon
<1> DEFINE u == <<x>>
<1>3. u \in Seq(Nat) /\ Range(u) = {x} /\ IsInjective(u) /\ Range(u) \cap Range(s) = {}
  BY <1>1, <1>2, Zenon
<1> HIDE DEF u
<1>4. u \o s \in Seq(Nat) /\ Range(u \o s) = Range(u) \cup Range(s) /\ IsInjective(u \o s)
  BY <1>3, ConcatMembers
<1> QED BY <1>3, <1>4 DEF u

(* The pages after slab_free has put x on the list of page i. *)
SlabPut(P, i, x) == [P EXCEPT ![i].freelist = <<x>> \o @, ![i].inuse = @ - 1]

(* slab_free puts a live object back on the list of its page. *)
LEMMA SlabPuts ==
  ASSUME NEW P, NEW n, NEW O, SlabInv(P, n, O), NEW o \in O,
         NEW i \in DOMAIN P, P[i].pa = align_down_4k(o.pa)
  PROVE  LET Q == SlabPut(P, i, o.pa)
         IN /\ P[i].inuse # 0 /\ n # 0
            /\ SlabInv(Q, n - 1, O \ {o}) /\ CPages(Q) = CPages(P)
<1> DEFINE x == o.pa
           F == <<x>> \o P[i].freelist
           sp == [pa |-> P[i].pa, freelist |-> F, inuse |-> P[i].inuse - 1]
           R == O \ {o}
           Q == [P EXCEPT ![i] = sp]
<1>1. /\ P \in Seq(SlabPage) /\ P[i] \in SlabPage /\ PageOK(P[i], O) /\ IsFiniteSet(O)
      /\ n = Cardinality(O)
  BY DEF SlabInv
<1>2. P[i].pa \in Nat /\ P[i].pa % PAGE_SIZE = 0 /\ P[i].freelist \in Seq(Nat) /\ P[i].inuse \in Nat
  BY <1>1, Zenon DEF SlabPage, PageOK
<1>3. o = Obj(x) /\ x \in Nat /\ x \in ObjBlocks(P[i].pa) /\ align_down_4k(x) = P[i].pa
  <2>1. PICK j \in DOMAIN P : x \in ObjBlocks(P[j].pa)
    BY Zenon DEF SlabInv
  <2>2. P[j].pa \in Nat /\ P[j].pa % PAGE_SIZE = 0
    <3>1. P[j] \in SlabPage /\ PageOK(P[j], O)
      BY <1>1 DEF SlabInv
    <3> QED BY <3>1 DEF PageOK, SlabPage
  <2>3. align_down_4k(x) = P[j].pa
    BY <2>1, <2>2, ObjHome, Zenon
  <2> QED BY <2>1, <2>3 DEF SlabInv
<1>4. x \notin Range(P[i].freelist)
  BY <1>1, Zenon DEF PageOK
<1>5. F \in Seq(Nat) /\ Range(F) = {x} \cup Range(P[i].freelist) /\ IsInjective(F)
  <2>1. IsInjective(P[i].freelist)
    BY <1>1, Zenon DEF PageOK
  <2> QED BY <1>2, <1>3, <1>4, <2>1, PushMembers
<1>6. IsFiniteSet(R) /\ Cardinality(R) = n - 1 /\ n # 0
  BY <1>1, FS_RemoveElement, FS_EmptySet, Zenon
<1>7. \A q \in R : q.pa # x
  BY <1>3, Zenon DEF SlabInv
<1> HIDE DEF x, F
<1>8. Cardinality(ObjsIn(R, P[i].pa)) = P[i].inuse - 1 /\ P[i].inuse # 0
  <2>1. ObjsIn(R, P[i].pa) = ObjsIn(O, P[i].pa) \ {o}
    BY Zenon DEF ObjsIn
  <2>2. o \in ObjsIn(O, P[i].pa) /\ ObjsIn(O, P[i].pa) \subseteq O
    BY Zenon DEF ObjsIn
  <2>3. IsFiniteSet(ObjsIn(O, P[i].pa))
    BY <1>1, <2>2, FS_Subset, ZenonT(30)
  <2>4. P[i].inuse = Cardinality(ObjsIn(O, P[i].pa))
    BY <1>1, Zenon DEF PageOK
  <2> DEFINE T == ObjsIn(O, P[i].pa)
  <2> HIDE DEF T
  <2>5. IsFiniteSet(T) /\ o \in T /\ Cardinality(T) = P[i].inuse
    BY <2>2, <2>3, <2>4, Zenon DEF T
  <2>6. Cardinality(T \ {o}) = Cardinality(T) - 1 /\ Cardinality(T) # 0
    BY <2>5, FS_RemoveElement, FS_EmptySet, Zenon
  <2> QED BY <2>1, <2>5, <2>6 DEF T
<1>9. sp \in SlabPage /\ sp.pa = P[i].pa /\ sp.freelist = F /\ sp.inuse = P[i].inuse - 1
  BY <1>2, <1>5, <1>8 DEF SlabPage
<1>10. \A p : p # sp.pa => ObjsIn(R, p) = ObjsIn(O, p)
  BY <1>9, Zenon DEF ObjsIn
<1>11. PageOK(sp, R)
  <2>1. \A q \in R : q.pa \notin Range(sp.freelist)
    BY <1>1, <1>5, <1>7, <1>9, Zenon DEF PageOK
  <2> HIDE DEF sp, R
  <2> QED BY <1>1, <1>2, <1>3, <1>5, <1>8, <1>9, <2>1 DEF PageOK
<1>12. \A q \in R : q \in O \/ (q = Obj(q.pa) /\ q.pa \in ObjBlocks(sp.pa))
  BY Zenon
<1>13. SlabInv(Q, n - 1, R) /\ CPages(Q) = CPages(P)
  <2> HIDE DEF sp, R
  <2> QED BY <1>6, <1>9, <1>10, <1>11, <1>12, SlabWrite
<1>14. [P EXCEPT ![i].freelist = <<o.pa>> \o P[i].freelist, ![i].inuse = P[i].inuse - 1] = Q
  <2>1. [P[i] EXCEPT !.freelist = <<o.pa>> \o P[i].freelist, !.inuse = P[i].inuse - 1] = sp
    BY <1>1, PageWrite, Zenon DEF F, x
  <2> QED BY <1>1, <2>1, Zenon DEF SlabPage
<1>15. SlabPut(P, i, o.pa) = Q
  BY <1>14, Zenon DEF SlabPut
<1> HIDE DEF Q, R
<1> QED BY <1>6, <1>8, <1>13, <1>15 DEF R

(* A fresh page has room for an object: slab_cache_init made sure of it. *)
LEMMA FreshNotEmpty ==
  ASSUME NEW pa \in Nat, pa % PAGE_SIZE = 0
  PROVE  FreshBlocks(pa, OBJ_SIZE, OBJ_ALIGN) # <<>>
<1> DEFINE al == OBJ_ALIGN
<1>1. /\ PAGE_SIZE \in Nat /\ PAGE_SIZE > 0 /\ al \in Nat /\ al > 0
      /\ OBJ_SIZE \in Nat /\ OBJ_SIZE > 0 /\ PAGE_SIZE % al = 0
  BY PageAssumption, SlabAssumption
<1>2. PICK q \in Nat : pa = q * PAGE_SIZE
  BY AlignedIs, Zenon
<1>3. \E k \in Nat : pa = k * al
  <2> DEFINE e == PAGE_SIZE \div al
  <2>1. e \in Nat /\ PAGE_SIZE = e * al
    BY <1>1
  <2> HIDE DEF e, al
  <2>2. pa = (q * e) * al /\ q * e \in Nat
    BY <1>1, <1>2, <2>1
  <2> QED BY <2>2
<1>4. PICK k \in Nat : pa = k * al
  BY <1>3, Zenon
<1>5. AlignUp(pa + HDR, al) = pa + al /\ AlignUp(HDR, al) = al
  <2> HIDE DEF al
  <2>1. (k * al + al) \div al = k + 1 /\ al \div al = 1
    <3> DEFINE y == k * al + al
               e == y \div al
               r == y % al
    <3>1. y \in Nat /\ e \in Int /\ r \in 0..(al - 1) /\ y = e * al + r
      BY <1>1
    <3>2. y = (k + 1) * al
      BY <1>1
    <3> HIDE DEF e, r, y
    <3>3. (k + 1 - e) * al = r
      BY <1>1, <3>1, <3>2
    <3>4. k + 1 - e = 0
      <4>1. ASSUME k + 1 - e >= 1 PROVE FALSE
        <5>1. (k + 1 - e) * al >= al
          BY <1>1, <3>1, <4>1
        <5> QED BY <1>1, <3>1, <3>3, <5>1
      <4>2. ASSUME k + 1 - e <= -1 PROVE FALSE
        <5>1. (k + 1 - e) * al <= -al
          BY <1>1, <3>1, <4>2
        <5> QED BY <1>1, <3>1, <3>3, <5>1
      <4> QED BY <3>1, <4>1, <4>2
    <3>5. e = k + 1
      BY <3>1, <3>4
    <3> QED BY <1>1, <3>5 DEF e, y
  <2>2. pa + HDR + al - 1 = k * al + al /\ HDR + al - 1 = al
    BY <1>1, <1>4 DEF HDR
  <2>3. (k + 1) * al = pa + al
    BY <1>1, <1>4
  <2>4. 1 * al = al
    BY <1>1
  <2> QED BY <2>1, <2>2, <2>3, <2>4, Zenon DEF AlignUp
<1>6. al + OBJ_SIZE <= PAGE_SIZE
  BY <1>5, SlabAssumption, Zenon
<1> DEFINE room == pa + PAGE_SIZE - AlignUp(pa + HDR, al)
           c == room \div OBJ_SIZE
<1>7. room \in Int /\ room >= OBJ_SIZE
  BY <1>1, <1>5, <1>6
<1>8. c \in Int /\ c >= 1
  <2> HIDE DEF room
  <2> QED BY <1>1, <1>7
<1>9. Len(FreshBlocks(pa, OBJ_SIZE, al)) >= c /\ FreshBlocks(pa, OBJ_SIZE, al) \in Seq(Nat)
  <2>1. OBJ_SIZE \in Nat \ {0} /\ al \in Nat \ {0}
    BY SlabAssumption, Zenon
  <2> HIDE DEF al
  <2> QED BY <2>1, FreshIs, Zenon
<1> HIDE DEF c
<1> QED BY <1>8, <1>9

(* slab_page_alloc puts a page that the cache does not have in front. *)
LEMMA SlabGrows ==
  ASSUME NEW P, NEW n, NEW O, SlabInv(P, n, O),
         NEW pa \in Nat, pa % PAGE_SIZE = 0, pa \notin CPages(P)
  PROVE  LET Q == <<slab_page_alloc(pa)>> \o P
         IN /\ SlabInv(Q, n, O) /\ CPages(Q) = CPages(P) \cup {pa}
            /\ 1 \in DOMAIN Q /\ Q[1].freelist # <<>>
<1> DEFINE sp == slab_page_alloc(pa)
           Q == <<sp>> \o P
<1>1. /\ P \in Seq(SlabPage) /\ \A i \in DOMAIN P : P[i] \in SlabPage /\ PageOK(P[i], O)
      /\ IsFiniteSet(O)
  BY DEF SlabInv
<1>2. /\ sp \in SlabPage /\ sp.pa = pa /\ sp.inuse = 0
      /\ sp.freelist = FreshBlocks(pa, OBJ_SIZE, OBJ_ALIGN)
  BY FreshIs, SlabAssumption, Zenon DEF slab_page_alloc, SlabPage
<1>3. /\ sp.freelist # <<>> /\ IsInjective(sp.freelist)
      /\ Range(sp.freelist) = ObjBlocks(pa)
  BY <1>2, FreshNotEmpty, FreshIs, SlabAssumption, Zenon DEF ObjBlocks
<1> HIDE DEF sp
<1>4. \A o \in O : align_down_4k(o.pa) \in CPages(P)
  <2>1. ASSUME NEW o \in O PROVE align_down_4k(o.pa) \in CPages(P)
    <3>1. PICK j \in DOMAIN P : o.pa \in ObjBlocks(P[j].pa)
      BY Zenon DEF SlabInv
    <3>2. P[j].pa \in Nat /\ P[j].pa % PAGE_SIZE = 0
      BY <1>1, Zenon DEF PageOK, SlabPage
    <3>3. align_down_4k(o.pa) = P[j].pa
      BY <3>1, <3>2, ObjHome, Zenon
    <3> QED BY <3>3 DEF CPages
  <2> QED BY <2>1
<1>5. PageOK(sp, O)
  <2>1. ObjsIn(O, pa) = {}
    BY <1>4, Zenon DEF ObjsIn
  <2>2. \A o \in O : o.pa \notin Range(sp.freelist)
    BY <1>3, <1>4, ObjHome, Zenon
  <2> QED BY <1>2, <1>3, <2>1, <2>2, FS_EmptySet DEF PageOK
<1>6. /\ Q \in Seq(SlabPage) /\ Q[1] = sp /\ DOMAIN Q = 1..(Len(P) + 1)
      /\ \A i \in DOMAIN P : i + 1 \in DOMAIN Q /\ Q[i + 1] = P[i]
      /\ \A j \in DOMAIN Q : j # 1 => j - 1 \in DOMAIN P /\ Q[j] = P[j - 1]
  BY <1>1, <1>2
<1> HIDE DEF Q
<1>7. DOMAIN P = 1..Len(P) /\ Len(P) \in Nat
  BY <1>1
<1>8. \A i, j \in DOMAIN Q : Q[i].pa = Q[j].pa => i = j
  <2> SUFFICES ASSUME NEW i \in DOMAIN Q, NEW j \in DOMAIN Q, Q[i].pa = Q[j].pa
               PROVE  i = j
    BY Zenon
  <2>1. \A k \in DOMAIN P : P[k].pa # pa
    BY Zenon DEF CPages
  <2>2. i \in Int /\ j \in Int
    BY <1>6
  <2>3. CASE i = 1 \/ j = 1
    BY <1>2, <1>6, <2>1, <2>3
  <2>4. CASE i # 1 /\ j # 1
    <3>1. i - 1 = j - 1
      BY <1>6, <2>4 DEF SlabInv
    <3> QED BY <2>2, <3>1
  <2> QED BY <2>3, <2>4
<1>9. \A i \in DOMAIN Q : PageOK(Q[i], O)
  BY <1>1, <1>5, <1>6, Zenon
<1>10. \A o \in O : o = Obj(o.pa) /\ o.pa \in Nat /\ \E i \in DOMAIN Q : o.pa \in ObjBlocks(Q[i].pa)
  BY <1>6 DEF SlabInv
<1>11. CPages(Q) = CPages(P) \cup {pa}
  <2>1. 1 \in DOMAIN Q
    BY <1>6, <1>7
  <2>2. ASSUME NEW x \in CPages(Q) PROVE x \in CPages(P) \cup {pa}
    BY <1>2, <1>6 DEF CPages
  <2>3. ASSUME NEW x \in CPages(P) PROVE x \in CPages(Q)
    BY <1>6 DEF CPages
  <2>4. pa \in CPages(Q)
    BY <1>2, <1>6, <2>1, Zenon DEF CPages
  <2> QED BY <2>2, <2>3, <2>4, Zenon
<1>12. SlabInv(Q, n, O)
  BY <1>6, <1>8, <1>9, <1>10, Zenon DEF SlabInv
<1> QED BY <1>3, <1>6, <1>7, <1>11, <1>12 DEF Q, sp

(* The searches of slab_alloc and slab_free along the list of pages find a   *)
(* page with a free object, and the page of an object.                        *)
LEMMA SlabSearch ==
  ASSUME NEW P \in Seq(SlabPage), NEW n, NEW p
  PROVE  /\ LET i == FirstWithFree([pages |-> P, inuse_objects |-> n])
            IN i # 0 => i \in DOMAIN P /\ P[i].freelist # <<>>
         /\ p \in CPages(P) => /\ PageAt(P, p) \in DOMAIN P /\ PageAt(P, p) # 0
                               /\ P[PageAt(P, p)].pa = p
<1>1. Len(P) \in Nat /\ DOMAIN P = 1..Len(P)
  OBVIOUS
<1> DEFINE I == {i \in 1..Len(P) : P[i].freelist # <<>>}
           J == {i \in 1..Len(P) : P[i].pa = p}
<1>2. I \in SUBSET Nat /\ J \in SUBSET Nat
  BY <1>1
<1>3. FirstWithFree([pages |-> P, inuse_objects |-> n]) = IF I = {} THEN 0 ELSE Min(I)
  BY <1>1, Zenon DEF FirstWithFree, FirstOf
<1>4. PageAt(P, p) = IF J = {} THEN 0 ELSE Min(J)
  BY <1>1, Zenon DEF PageAt, FirstOf
<1>5. p \in CPages(P) => J # {}
  BY <1>1, Zenon DEF CPages
<1>6. (I # {} => Min(I) \in I) /\ (J # {} => Min(J) \in J)
  <2> HIDE DEF I, J
  <2> QED BY <1>2, MinOfNats
<1>7. (I # {} => Min(I) \in DOMAIN P /\ P[Min(I)].freelist # <<>>)
  BY <1>1, <1>6, Zenon
<1>8. (J # {} => Min(J) \in DOMAIN P /\ Min(J) # 0 /\ P[Min(J)].pa = p)
  <2>1. \A j \in 1..Len(P) : j # 0
    BY <1>1
  <2> QED BY <1>1, <1>6, <2>1, Zenon
<1> HIDE DEF I, J
<1> QED BY <1>3, <1>4, <1>5, <1>7, <1>8

(* ------------------------------- bucket heap ------------------------------ *)

Buf(x, n) == [kind |-> "buf", pa |-> x, size |-> n]
BPages(d) == {p \in DOMAIN d : d[p][1] = "SLAB"}
BigBuf(p, n) == Buf(p + HDR, n * PAGE_SIZE - HDR)

(* x is the address of a block of bucket b, by the header of its page. *)
InBucket(d, x, b) ==
  /\ x \in Nat /\ align_down_4k(x) \in DOMAIN d /\ d[align_down_4k(x)] = <<"SLAB", b>>
  /\ x \in Blocks(align_down_4k(x), BucketSizes[b], BucketSizes[b])

IsSmall(f, d, o) ==
  \E b \in Buckets : InBucket(d, o.pa, b) /\ o = Buf(o.pa, BucketSizes[b]) /\ o.pa \notin Range(f[b])
IsBig(d, o) ==
  \E n \in Nat \ {0} : /\ align_down_4k(o.pa) \in DOMAIN d
                       /\ d[align_down_4k(o.pa)] = <<"BIG", n>>
                       /\ o = BigBuf(align_down_4k(o.pa), n)

HdrOK(d, B, p) ==
  /\ p \in Nat /\ p % PAGE_SIZE = 0
  /\ \/ \E b \in Buckets : d[p] = <<"SLAB", b>>
     \/ \E n \in Nat \ {0} : d[p] = <<"BIG", n>> /\ BigBuf(p, n) \in B

(* The free lists f, the headers d and the heap blocks B handed out: a block  *)
(* is live or on the free list of its page's bucket, at most once, and a big  *)
(* header is that of a live block.                                            *)
HeapInv(f, d, B) ==
  /\ f \in [Buckets -> Seq(Nat)]
  /\ \A p \in DOMAIN d : HdrOK(d, B, p)
  /\ \A b \in Buckets : IsInjective(f[b]) /\ \A x \in Range(f[b]) : InBucket(d, x, b)
  /\ \A o \in B : IsSmall(f, d, o) \/ IsBig(d, o)

(* A live block belongs to a page with a header. *)
LEMMA BufHome ==
  ASSUME NEW f, NEW d, NEW B, HeapInv(f, d, B), NEW o \in B
  PROVE  align_down_4k(o.pa) \in DOMAIN d
  BY Zenon DEF HeapInv, IsSmall, IsBig, InBucket

(* A page holds more than its header, so a big block is found from its page. *)
LEMMA BigHome ==
  ASSUME NEW p \in Nat, p % PAGE_SIZE = 0, NEW n
  PROVE  align_down_4k(BigBuf(p, n).pa) = p /\ BigBuf(p, n).pa = p + HDR /\ HDR < PAGE_SIZE
<1>1. HDR = 1 /\ PAGE_SIZE \in Nat /\ OBJ_SIZE \in Nat /\ OBJ_SIZE > 0
  BY PageAssumption, SlabAssumption DEF HDR
<1>2. AlignUp(1, OBJ_ALIGN) \in Nat /\ 1 <= AlignUp(1, OBJ_ALIGN)
  BY SlabAssumption, AlignUpAbove, Zenon
<1>3. HDR < PAGE_SIZE
  BY <1>1, <1>2, SlabAssumption
<1>4. align_down_4k(p + HDR) = p
  BY <1>1, <1>3, BlockPage
<1> QED BY <1>3, <1>4 DEF BigBuf, Buf

(* kmalloc takes the first block of a bucket. *)
LEMMA HeapTakes ==
  ASSUME NEW f, NEW d, NEW B, HeapInv(f, d, B), NEW b \in Buckets, f[b] # <<>>
  PROVE  LET o == Buf(Head(f[b]), BucketSizes[b])
         IN /\ o \notin B /\ align_down_4k(o.pa) \in BPages(d)
            /\ HeapInv([f EXCEPT ![b] = Tail(f[b])], d, B \cup {o})
<1> DEFINE x == Head(f[b])
           o == Buf(x, BucketSizes[b])
           g == [f EXCEPT ![b] = Tail(f[b])]
<1>1. f \in [Buckets -> Seq(Nat)] /\ f[b] \in Seq(Nat) /\ IsInjective(f[b])
  BY Zenon DEF HeapInv
<1>2. /\ x \in Range(f[b]) /\ Tail(f[b]) \in Seq(Nat) /\ Range(f[b]) = Range(Tail(f[b])) \cup {x}
      /\ x \notin Range(Tail(f[b])) /\ IsInjective(Tail(f[b]))
  BY <1>1, TailMembers, Zenon
<1>3. InBucket(d, x, b)
  BY <1>2, Zenon DEF HeapInv
<1> HIDE DEF x
<1>4. o.pa = x
  BY Zenon DEF Buf
<1> HIDE DEF o
<1>5. /\ g \in [Buckets -> Seq(Nat)] /\ g[b] = Tail(f[b])
      /\ \A c \in Buckets : c # b => g[c] = f[c]
  BY <1>1, <1>2, Zenon
<1> HIDE DEF g
<1>6. \A c \in Buckets : Range(g[c]) \subseteq Range(f[c])
  BY <1>2, <1>5, Zenon
<1>7. o \notin B
  <2>1. ASSUME IsSmall(f, d, o) PROVE FALSE
    <3>1. PICK c \in Buckets : InBucket(d, o.pa, c) /\ o.pa \notin Range(f[c])
      BY <2>1, Zenon DEF IsSmall
    <3>2. c = b
      BY <1>3, <1>4, <3>1 DEF InBucket
    <3> QED BY <1>2, <1>4, <3>1, <3>2
  <2>2. ASSUME IsBig(d, o) PROVE FALSE
    BY <1>3, <1>4, <2>2 DEF IsBig, InBucket
  <2> QED BY <2>1, <2>2 DEF HeapInv
<1>8. align_down_4k(o.pa) \in BPages(d)
  BY <1>3, <1>4 DEF BPages, InBucket
<1>9. \A p \in DOMAIN d : HdrOK(d, B \cup {o}, p)
  BY Zenon DEF HeapInv, HdrOK
<1>10. \A c \in Buckets : IsInjective(g[c]) /\ \A y \in Range(g[c]) : InBucket(d, y, c)
  BY <1>2, <1>5, <1>6, Zenon DEF HeapInv
<1>11. IsSmall(g, d, o)
  <2>1. o = Buf(o.pa, BucketSizes[b]) /\ o.pa \notin Range(g[b])
    BY <1>2, <1>4, <1>5, Zenon DEF o
  <2> QED BY <1>3, <1>4, <2>1 DEF IsSmall
<1>12. \A q \in B : IsSmall(g, d, q) \/ IsBig(d, q)
  <2>1. \A q \in B : IsSmall(f, d, q) => IsSmall(g, d, q)
    BY <1>6, Zenon DEF IsSmall
  <2> QED BY <2>1 DEF HeapInv
<1>13. HeapInv(g, d, B \cup {o})
  BY <1>5, <1>9, <1>10, <1>11, <1>12, Zenon DEF HeapInv
<1> QED BY <1>7, <1>8, <1>13 DEF g, o, x

(* kfree puts a small block back on the list of its page's bucket. *)
LEMMA HeapPuts ==
  ASSUME NEW f, NEW d, NEW B, HeapInv(f, d, B), NEW o \in B, NEW b,
         d[align_down_4k(o.pa)] = <<"SLAB", b>>
  PROVE  /\ b \in Buckets /\ o.size = BucketSizes[b]
         /\ HeapInv([f EXCEPT ![b] = <<o.pa>> \o f[b]], d, B \ {o})
<1> DEFINE x == o.pa
           R == B \ {o}
           g == [f EXCEPT ![b] = <<x>> \o f[b]]
<1>1. IsSmall(f, d, o)
  BY DEF HeapInv, IsBig
<1>2. b \in Buckets /\ InBucket(d, x, b) /\ o = Buf(x, BucketSizes[b]) /\ x \notin Range(f[b])
  BY <1>1 DEF IsSmall, InBucket
<1>3. f \in [Buckets -> Seq(Nat)] /\ f[b] \in Seq(Nat) /\ IsInjective(f[b]) /\ x \in Nat
  BY <1>2, Zenon DEF HeapInv, InBucket
<1> HIDE DEF x
<1>4. /\ <<x>> \o f[b] \in Seq(Nat) /\ Range(<<x>> \o f[b]) = {x} \cup Range(f[b])
      /\ IsInjective(<<x>> \o f[b])
  BY <1>2, <1>3, PushMembers, Zenon
<1>5. /\ g \in [Buckets -> Seq(Nat)] /\ g[b] = <<x>> \o f[b]
      /\ \A c \in Buckets : c # b => g[c] = f[c]
  BY <1>2, <1>3, <1>4, Zenon
<1> HIDE DEF g
<1>6. ASSUME NEW p \in DOMAIN d PROVE HdrOK(d, R, p)
  <2>1. HdrOK(d, B, p)
    BY Zenon DEF HeapInv
  <2>2. ASSUME NEW n, d[p] = <<"BIG", n>>, BigBuf(p, n) = o PROVE FALSE
    <3>1. align_down_4k(BigBuf(p, n).pa) = p
      BY <2>1, BigHome, Zenon DEF HdrOK
    <3>2. align_down_4k(o.pa) = p
      BY <2>2, <3>1, Zenon
    <3> QED BY <2>2, <3>2
  <2> QED BY <2>1, <2>2 DEF HdrOK
<1>7. \A c \in Buckets : IsInjective(g[c]) /\ \A y \in Range(g[c]) : InBucket(d, y, c)
  <2>1. \A c \in Buckets : IsInjective(f[c]) /\ \A y \in Range(f[c]) : InBucket(d, y, c)
    BY Zenon DEF HeapInv
  <2> QED BY <1>2, <1>4, <1>5, <2>1, Zenon
<1>8. ASSUME NEW q \in R PROVE IsSmall(g, d, q) \/ IsBig(d, q)
  <2>1. CASE IsSmall(f, d, q)
    <3>1. PICK c \in Buckets : InBucket(d, q.pa, c) /\ q = Buf(q.pa, BucketSizes[c])
                               /\ q.pa \notin Range(f[c])
      BY <2>1, Zenon DEF IsSmall
    <3>2. q.pa \notin Range(g[c])
      <4>1. c # b => g[c] = f[c]
        BY <1>5, Zenon
      <4>2. c = b => q.pa # x
        BY <1>2, <3>1, Zenon
      <4> QED BY <1>4, <1>5, <3>1, <4>1, <4>2, Zenon
    <3> QED BY <3>1, <3>2 DEF IsSmall
  <2> QED BY <2>1 DEF HeapInv
<1>9. HeapInv(g, d, R)
  BY <1>5, <1>6, <1>7, <1>8, Zenon DEF HeapInv
<1>10. o.size = BucketSizes[b]
  BY <1>2, Zenon DEF Buf
<1> QED BY <1>2, <1>9, <1>10 DEF g, x

(* e is d with one header more: what hangs on the others is as before. *)
HdrAdded(e, d, pa, h) ==
  /\ DOMAIN e = DOMAIN d \cup {pa} /\ e[pa] = h
  /\ \A p \in DOMAIN d : e[p] = d[p]
  /\ \A x, b : InBucket(d, x, b) => InBucket(e, x, b)
  /\ \A f, o : IsSmall(f, d, o) => IsSmall(f, e, o)
  /\ \A o : IsBig(d, o) => IsBig(e, o)

(* A header written to a page without one does just that. *)
LEMMA NewHeader ==
  ASSUME NEW d, NEW pa, pa \notin DOMAIN d, NEW h
  PROVE  HdrAdded(SetHdr(d, pa, h), d, pa, h)
<1> DEFINE e == SetHdr(d, pa, h)
<1>1. DOMAIN e = DOMAIN d \cup {pa} /\ e[pa] = h /\ \A p \in DOMAIN d : e[p] = d[p]
  BY Zenon DEF SetHdr
<1> HIDE DEF e
<1>2. \A x, b : InBucket(d, x, b) => InBucket(e, x, b)
  BY <1>1, Zenon DEF InBucket
<1>3. \A f, o : IsSmall(f, d, o) => IsSmall(f, e, o)
  BY <1>2, Zenon DEF IsSmall
<1>4. \A o : IsBig(d, o) => IsBig(e, o)
  BY <1>1, Zenon DEF IsBig
<1> QED BY <1>1, <1>2, <1>3, <1>4 DEF HdrAdded, e

(* The free lists after refill_bucket has cut the page pa for bucket b. *)
Refilled(f, b, pa) == [f EXCEPT ![b] = FreshBlocks(pa, BucketSizes[b], BucketSizes[b]) \o f[b]]

(* refill_bucket gives a new page to a bucket that has run out. *)
LEMMA HeapRefills ==
  ASSUME NEW f, NEW d, NEW B, HeapInv(f, d, B), NEW b \in Buckets, f[b] = <<>>,
         NEW pa \in Nat, pa % PAGE_SIZE = 0, pa \notin DOMAIN d
  PROVE  LET g == Refilled(f, b, pa)
             e == SetHdr(d, pa, <<"SLAB", b>>)
         IN HeapInv(g, e, B) /\ BPages(e) = BPages(d) \cup {pa}
<1> DEFINE bs == BucketSizes[b]
           F == FreshBlocks(pa, bs, bs)
           g == [f EXCEPT ![b] = F \o f[b]]
           e == SetHdr(d, pa, <<"SLAB", b>>)
<1>1. bs \in Nat \ {0}
  BY BucketAssumption DEF Buckets
<1> HIDE DEF bs
<1>2. F \in Seq(Nat) /\ IsInjective(F) /\ Range(F) = Blocks(pa, bs, bs)
  BY <1>1, FreshIs, Zenon
<1> HIDE DEF F
<1>3. f \in [Buckets -> Seq(Nat)] /\ F \o f[b] = F
  BY <1>2 DEF HeapInv
<1>4. g \in [Buckets -> Seq(Nat)] /\ g[b] = F /\ \A c \in Buckets : c # b => g[c] = f[c]
  BY <1>2, <1>3, Zenon
<1> HIDE DEF g
<1>5. /\ DOMAIN e = DOMAIN d \cup {pa} /\ e[pa] = <<"SLAB", b>>
      /\ \A p \in DOMAIN d : e[p] = d[p]
      /\ \A x, c : InBucket(d, x, c) => InBucket(e, x, c)
      /\ \A q, o : IsSmall(q, d, o) => IsSmall(q, e, o)
      /\ \A o : IsBig(d, o) => IsBig(e, o)
  BY NewHeader, Zenon DEF HdrAdded
<1> HIDE DEF e
<1>6. \A p \in DOMAIN e : HdrOK(e, B, p)
  BY <1>5, Zenon DEF HeapInv, HdrOK
<1>7. ASSUME NEW x \in Range(F) PROVE InBucket(e, x, b)
  <2>1. x \in Nat /\ align_down_4k(x) = pa
    BY <1>1, <1>2, BlockHome, BlocksFit
  <2> QED BY <1>2, <1>5, <2>1 DEF InBucket, bs
<1>8. \A c \in Buckets : IsInjective(g[c]) /\ \A x \in Range(g[c]) : InBucket(e, x, c)
  <2>1. \A c \in Buckets : IsInjective(f[c]) /\ \A y \in Range(f[c]) : InBucket(d, y, c)
    BY Zenon DEF HeapInv
  <2> QED BY <1>2, <1>4, <1>5, <1>7, <2>1, Zenon
<1>9. ASSUME NEW o \in B, IsSmall(f, d, o) PROVE IsSmall(g, e, o)
  <2>1. PICK c \in Buckets : InBucket(d, o.pa, c) /\ o = Buf(o.pa, BucketSizes[c])
                             /\ o.pa \notin Range(f[c])
    BY <1>9, Zenon DEF IsSmall
  <2>2. o.pa \notin Range(F)
    <3>1. align_down_4k(o.pa) # pa
      BY <2>1, Zenon DEF InBucket
    <3> QED BY <1>1, <1>2, <3>1, BlockHome
  <2>3. o.pa \notin Range(g[c])
    BY <1>4, <2>1, <2>2, Zenon
  <2> QED BY <1>5, <2>1, <2>3 DEF IsSmall
<1>10. HeapInv(g, e, B)
  BY <1>4, <1>5, <1>6, <1>8, <1>9, Zenon DEF HeapInv
<1>11. BPages(e) = BPages(d) \cup {pa}
  BY <1>5 DEF BPages
<1> QED BY <1>10, <1>11, Zenon DEF Refilled, g, e, F, bs

(* A big kmalloc writes a header on the first of its own pages. *)
LEMMA HeapBig ==
  ASSUME NEW f, NEW d, NEW B, HeapInv(f, d, B), NEW n \in Nat \ {0},
         NEW pa \in Nat, pa % PAGE_SIZE = 0, pa \notin DOMAIN d
  PROVE  LET e == SetHdr(d, pa, <<"BIG", n>>)
             o == BigBuf(pa, n)
         IN /\ HeapInv(f, e, B \cup {o}) /\ BPages(e) = BPages(d)
            /\ o \notin B /\ align_down_4k(o.pa) \notin BPages(e)
<1> DEFINE e == SetHdr(d, pa, <<"BIG", n>>)
           o == BigBuf(pa, n)
<1>1. align_down_4k(o.pa) = pa
  BY BigHome, Zenon
<1>2. o \notin B
  BY <1>1, BufHome, Zenon
<1>3. /\ DOMAIN e = DOMAIN d \cup {pa} /\ e[pa] = <<"BIG", n>>
      /\ \A p \in DOMAIN d : e[p] = d[p]
      /\ \A x, c : InBucket(d, x, c) => InBucket(e, x, c)
      /\ \A q \in B : IsSmall(f, d, q) => IsSmall(f, e, q)
      /\ \A q \in B : IsBig(d, q) => IsBig(e, q)
  <2>1. HdrAdded(e, d, pa, <<"BIG", n>>)
    BY NewHeader, Zenon
  <2> HIDE DEF e
  <2> QED BY <2>1, Zenon DEF HdrAdded
<1> HIDE DEF e
<1>4. \A p \in DOMAIN e : HdrOK(e, B \cup {o}, p)
  <2>1. \A p \in DOMAIN d : HdrOK(d, B, p)
    BY Zenon DEF HeapInv
  <2>2. HdrOK(e, B \cup {o}, pa)
    BY <1>3, Zenon DEF HdrOK
  <2> HIDE DEF o
  <2>3. ASSUME NEW p \in DOMAIN d PROVE HdrOK(e, B \cup {o}, p)
    BY <1>3, <2>1, Zenon DEF HdrOK
  <2> QED BY <1>3, <2>2, <2>3
<1>5. IsBig(e, o)
  BY <1>1, <1>3, Zenon DEF IsBig
<1> HIDE DEF o
<1>6. HeapInv(f, e, B \cup {o})
  BY <1>3, <1>4, <1>5, Zenon DEF HeapInv
<1>7. BPages(e) = BPages(d) /\ align_down_4k(o.pa) \notin BPages(e)
  BY <1>1, <1>3 DEF BPages
<1> QED BY <1>2, <1>6, <1>7 DEF e, o

(* The headers after that of the page p was wiped. *)
Wiped(d, p) == [q \in DOMAIN d \ {p} |-> d[q]]

(* Freeing a big block wipes its header, and no other block has its page. *)
LEMMA HeapUnbig ==
  ASSUME NEW f, NEW d, NEW B, HeapInv(f, d, B), NEW o \in B, NEW n,
         d[align_down_4k(o.pa)] = <<"BIG", n>>
  PROVE  LET p == align_down_4k(o.pa)
             e == Wiped(d, p)
         IN /\ p \in Nat /\ p % PAGE_SIZE = 0 /\ n \in Nat \ {0} /\ o = BigBuf(p, n)
            /\ HeapInv(f, e, B \ {o}) /\ BPages(e) = BPages(d) /\ p \notin BPages(d)
<1> DEFINE p == align_down_4k(o.pa)
           e == [q \in DOMAIN d \ {p} |-> d[q]]
           R == B \ {o}
<1>1. IsBig(d, o)
  BY DEF HeapInv, IsSmall, InBucket
<1>2. n \in Nat \ {0} /\ o = BigBuf(p, n) /\ p \in DOMAIN d
  BY <1>1 DEF IsBig
<1>3. p \in Nat /\ p % PAGE_SIZE = 0
  BY <1>2, Zenon DEF HeapInv, HdrOK
<1>4. d[p] = <<"BIG", n>>
  BY Zenon
<1> HIDE DEF p
<1>5. DOMAIN e = DOMAIN d \ {p} /\ \A q \in DOMAIN e : e[q] = d[q]
  BY Zenon
<1> HIDE DEF e
<1>6. ASSUME NEW x, NEW b, InBucket(d, x, b) PROVE InBucket(e, x, b)
  BY <1>4, <1>5, <1>6 DEF InBucket
<1>7. ASSUME NEW q \in DOMAIN e PROVE HdrOK(e, R, q)
  <2>1. HdrOK(d, B, q) /\ q # p /\ e[q] = d[q]
    BY <1>5, Zenon DEF HeapInv
  <2>2. ASSUME NEW m, BigBuf(q, m) = o PROVE FALSE
    <3>1. align_down_4k(BigBuf(q, m).pa) = q
      BY <2>1, BigHome, Zenon DEF HdrOK
    <3> QED BY <2>1, <2>2, <3>1 DEF p
  <2> QED BY <2>1, <2>2 DEF HdrOK
<1>8. ASSUME NEW q \in R PROVE IsSmall(f, e, q) \/ IsBig(e, q)
  <2>1. CASE IsSmall(f, d, q)
    BY <1>6, <2>1, Zenon DEF IsSmall
  <2>2. CASE IsBig(d, q)
    <3>1. PICK m \in Nat \ {0} : /\ align_down_4k(q.pa) \in DOMAIN d
                                 /\ d[align_down_4k(q.pa)] = <<"BIG", m>>
                                 /\ q = BigBuf(align_down_4k(q.pa), m)
      BY <2>2, Zenon DEF IsBig
    <3>2. align_down_4k(q.pa) # p
      <4> SUFFICES ASSUME align_down_4k(q.pa) = p PROVE FALSE
        BY Zenon
      <4>1. m = n
        BY <1>4, <3>1
      <4> QED BY <1>2, <3>1, <4>1
    <3> QED BY <1>5, <3>1, <3>2 DEF IsBig
  <2> QED BY <2>1, <2>2 DEF HeapInv
<1>9. HeapInv(f, e, R)
  BY <1>6, <1>7, <1>8, Zenon DEF HeapInv
<1>10. BPages(e) = BPages(d) /\ p \notin BPages(d)
  BY <1>4, <1>5 DEF BPages
<1> QED BY <1>2, <1>3, <1>9, <1>10 DEF Wiped, p, e

(* ------------------------- the bytes of the heap -------------------------- *)

(* The live allocations of a kind, what a block of the heap is charged, and   *)
(* what all of them are.                                                      *)
KindOf(lv, k) == {o \in lv : o.kind = k}
BytesOf(d, o) == IF align_down_4k(o.pa) \in BPages(d) THEN o.size ELSE o.size + HDR
Total(d, lv) == SumOver([o \in lv |-> BytesOf(d, o)], KindOf(lv, "buf"))

(* Handing out or taking back an allocation changes the lists of its kind. *)
LEMMA KindsOf ==
  ASSUME NEW lv, NEW o, NEW k
  PROVE  /\ o.kind = k => KindOf(lv \cup {o}, k) = KindOf(lv, k) \cup {o}
         /\ o.kind # k => KindOf(lv \cup {o}, k) = KindOf(lv, k)
         /\ o.kind = k => KindOf(lv \ {o}, k) = KindOf(lv, k) \ {o}
         /\ o.kind # k => KindOf(lv \ {o}, k) = KindOf(lv, k)
  BY DEF KindOf

(* What a block is charged: its size and, for a big one, its header. *)
LEMMA BytesFacts ==
  ASSUME NEW f, NEW d, NEW B, HeapInv(f, d, B), NEW o \in B
  PROVE  /\ BytesOf(d, o) \in Nat
         /\ \A b : d[align_down_4k(o.pa)] = <<"SLAB", b>> => BytesOf(d, o) = BucketSizes[b]
         /\ \A n : d[align_down_4k(o.pa)] = <<"BIG", n>> => BytesOf(d, o) = n * PAGE_SIZE
<1>1. CASE IsSmall(f, d, o)
  <2>1. PICK b \in Buckets : InBucket(d, o.pa, b) /\ o = Buf(o.pa, BucketSizes[b])
    BY <1>1, Zenon DEF IsSmall
  <2>2. BucketSizes[b] \in Nat
    BY BucketAssumption DEF Buckets
  <2>3. align_down_4k(o.pa) \in BPages(d) /\ d[align_down_4k(o.pa)] = <<"SLAB", b>>
    BY <2>1 DEF InBucket, BPages
  <2>4. o.size = BucketSizes[b]
    BY <2>1 DEF Buf
  <2> QED BY <2>2, <2>3, <2>4 DEF BytesOf
<1>2. CASE IsBig(d, o)
  <2>1. PICK n \in Nat \ {0} : /\ align_down_4k(o.pa) \in DOMAIN d
                               /\ d[align_down_4k(o.pa)] = <<"BIG", n>>
                               /\ o = BigBuf(align_down_4k(o.pa), n)
    BY <1>2, Zenon DEF IsBig
  <2>2. align_down_4k(o.pa) \notin BPages(d)
    BY <2>1 DEF BPages
  <2>3. n * PAGE_SIZE \in Nat /\ HDR \in Nat
    BY PageAssumption DEF HDR
  <2>4. o.size = n * PAGE_SIZE - HDR
    BY <2>1 DEF BigBuf, Buf
  <2>5. BytesOf(d, o) = n * PAGE_SIZE
    BY <2>2, <2>3, <2>4 DEF BytesOf
  <2> QED BY <2>1, <2>3, <2>5
<1> QED BY <1>1, <1>2 DEF HeapInv

(* The byte count after a block was added, and when none was. *)
LEMMA TotalSame ==
  ASSUME NEW d, NEW e, NEW lv, NEW new, IsFiniteSet(lv),
         KindOf(new, "buf") = KindOf(lv, "buf"),
         \A o \in KindOf(lv, "buf") : BytesOf(d, o) \in Nat /\ BytesOf(e, o) = BytesOf(d, o)
  PROVE  Total(e, new) = Total(d, lv)
<1> DEFINE S == KindOf(lv, "buf")
           f == [o \in lv |-> BytesOf(d, o)]
           g == [o \in new |-> BytesOf(e, o)]
<1>1. S \subseteq lv /\ S \subseteq new
  BY Zenon DEF KindOf
<1>2. \A o \in S : f[o] \in Nat /\ f[o] = g[o]
  BY <1>1, Zenon
<1>3. IsFiniteSet(S)
  BY <1>1, FS_Subset, Zenon
<1> HIDE DEF S, f, g
<1>4. SumOver(f, S) = SumOver(g, S)
  BY <1>2, <1>3, SumSame, Zenon
<1> QED BY <1>4 DEF Total, S, f, g

(* A new heap block adds what it is charged to the total. *)
LEMMA TotalAdd ==
  ASSUME NEW d, NEW e, NEW lv, NEW new, NEW o, IsFiniteSet(new),
         KindOf(new, "buf") = KindOf(lv, "buf") \cup {o}, o \notin KindOf(lv, "buf"),
         BytesOf(e, o) \in Nat,
         \A q \in KindOf(lv, "buf") : BytesOf(d, q) \in Nat /\ BytesOf(e, q) = BytesOf(d, q)
  PROVE  Total(e, new) = Total(d, lv) + BytesOf(e, o) /\ Total(d, lv) \in Nat
<1> DEFINE S == KindOf(lv, "buf")
           T == KindOf(new, "buf")
           f == [q \in lv |-> BytesOf(d, q)]
           g == [q \in new |-> BytesOf(e, q)]
<1>1. S \subseteq lv /\ T \subseteq new /\ T = S \cup {o} /\ T \ {o} = S /\ o \in T
  BY Zenon DEF KindOf
<1>2. IsFiniteSet(T) /\ IsFiniteSet(S)
  BY <1>1, FS_Subset, Zenon
<1>3. (\A q \in T : g[q] \in Nat) /\ (\A q \in S : f[q] \in Nat /\ f[q] = g[q])
  BY <1>1, Zenon
<1>4. g[o] = BytesOf(e, o)
  BY <1>1, Zenon
<1> HIDE DEF S, T, f, g
<1>5. SumOver(g, T) = g[o] + SumOver(g, T \ {o})
  BY <1>1, <1>2, <1>3, SumFacts, Zenon
<1>6. SumOver(f, S) = SumOver(g, S) /\ SumOver(f, S) \in Nat
  BY <1>2, <1>3, SumSame, SumFacts, Zenon
<1>7. Total(e, new) = SumOver(g, T) /\ Total(d, lv) = SumOver(f, S)
  BY Zenon DEF Total, S, T, f, g
<1> QED BY <1>1, <1>4, <1>5, <1>6, <1>7

(* --------------------------- where a block lies --------------------------- *)

(* Of an allocation or a free block o: it has bs units and the page p; its    *)
(* memory lies in the pages S; it shares none with q.                         *)
Cell(o, p, bs) == o.size = bs /\ p \in Nat /\ p % PAGE_SIZE = 0
Inside(o, S) == \A u \in Units(o) : u \in Nat /\ align_down_4k(u) \in S
Apart(o, q) == Units(o) \cap Units(q) = {}

InCache(P, o) ==
  \E p \in CPages(P) : Cell(o, p, OBJ_SIZE) /\ o.pa \in ObjBlocks(p)
InHeap(d, o) ==
  \E p \in DOMAIN d : \E b \in Buckets :
    /\ d[p] = <<"SLAB", b>> /\ Cell(o, p, BucketSizes[b])
    /\ o.pa \in Blocks(p, BucketSizes[b], BucketSizes[b])

(* Memory in different pages is different memory. *)
LEMMA ApartPages ==
  ASSUME NEW o, NEW q, NEW S, NEW T, Inside(o, S), Inside(q, T), S \cap T = {}
  PROVE  Apart(o, q)
  BY Zenon DEF Inside, Apart

(* A block lies in its page, behind the header, and apart from the others. *)
LEMMA CellFacts ==
  ASSUME NEW bs \in Nat \ {0}, NEW al \in Nat \ {0}, NEW p, NEW o,
         Cell(o, p, bs), o.pa \in Blocks(p, bs, al)
  PROVE  /\ \A u \in Units(o) : u \in Nat /\ align_down_4k(u) = p /\ u # p
         /\ \A q : Cell(q, p, bs) /\ q.pa \in Blocks(p, bs, al) /\ q.pa # o.pa => Apart(o, q)
<1>1. p \in Nat /\ p % PAGE_SIZE = 0 /\ o.size = bs /\ PAGE_SIZE \in Nat /\ HDR = 1
  BY PageAssumption, Zenon DEF Cell, HDR
<1>2. /\ \A x \in Blocks(p, bs, al) : x \in Nat /\ p + HDR <= x /\ x + bs <= p + PAGE_SIZE
      /\ \A x, y \in Blocks(p, bs, al) : x # y => x + bs <= y \/ y + bs <= x
  BY <1>1, BlocksFit, Zenon
<1>3. ASSUME NEW u \in Units(o) PROVE u \in Nat /\ align_down_4k(u) = p /\ u # p
  <2>1. o.pa \in Nat /\ p + 1 <= o.pa /\ o.pa + bs <= p + PAGE_SIZE
    BY <1>1, <1>2, Zenon
  <2>2. u \in Int /\ o.pa <= u /\ u <= o.pa + bs - 1
    BY <1>1, <2>1 DEF Units
  <2>3. u - p \in 0..(PAGE_SIZE - 1) /\ u = p + (u - p) /\ u # p /\ u \in Nat
    BY <1>1, <2>1, <2>2
  <2> DEFINE k == u - p
  <2>4. k \in 0..(PAGE_SIZE - 1) /\ u = p + k
    BY <2>3, Zenon
  <2> HIDE DEF k
  <2>5. align_down_4k(p + k) = p
    BY <1>1, <2>4, BlockPage, Zenon
  <2> QED BY <2>3, <2>4, <2>5
<1>4. ASSUME NEW q, Cell(q, p, bs), q.pa \in Blocks(p, bs, al), q.pa # o.pa PROVE Apart(o, q)
  <2>1. q.size = bs
    BY <1>4, Zenon DEF Cell
  <2>2. o.pa \in Nat /\ q.pa \in Nat /\ (o.pa + bs <= q.pa \/ q.pa + bs <= o.pa)
    BY <1>2, <1>4, Zenon
  <2> QED BY <1>1, <2>1, <2>2 DEF Apart, Units
<1> QED BY <1>3, <1>4

(* A block of the slab cache. *)
LEMMA CacheCells ==
  ASSUME NEW P, NEW o, InCache(P, o)
  PROVE  /\ Inside(o, CPages(P)) /\ \A u \in Units(o) : align_down_4k(u) # u
         /\ \A q : InCache(P, q) /\ q.pa # o.pa => Apart(o, q)
<1>1. PICK p \in CPages(P) : Cell(o, p, OBJ_SIZE) /\ o.pa \in ObjBlocks(p)
  BY Zenon DEF InCache
<1>2. /\ \A u \in Units(o) : u \in Nat /\ align_down_4k(u) = p /\ u # p
      /\ \A q : Cell(q, p, OBJ_SIZE) /\ q.pa \in ObjBlocks(p) /\ q.pa # o.pa => Apart(o, q)
  BY <1>1, CellFacts, SlabAssumption, Zenon DEF ObjBlocks
<1>3. ASSUME NEW q, InCache(P, q), q.pa # o.pa PROVE Apart(o, q)
  <2>1. PICK r \in CPages(P) : Cell(q, r, OBJ_SIZE) /\ q.pa \in ObjBlocks(r)
    BY <1>3, Zenon DEF InCache
  <2>2. \A u \in Units(q) : u \in Nat /\ align_down_4k(u) = r /\ u # r
    BY <2>1, CellFacts, SlabAssumption DEF ObjBlocks
  <2>3. CASE r = p
    BY <1>2, <1>3, <2>1, <2>3, Zenon
  <2>4. CASE r # p
    BY <1>2, <2>2, <2>4, Zenon DEF Apart
  <2> QED BY <2>3, <2>4
<1> QED BY <1>2, <1>3 DEF Inside

(* A block of a bucket of the heap. *)
LEMMA HeapCells ==
  ASSUME NEW d, NEW o, InHeap(d, o)
  PROVE  /\ Inside(o, BPages(d)) /\ \A u \in Units(o) : align_down_4k(u) # u
         /\ \A q : InHeap(d, q) /\ q.pa # o.pa => Apart(o, q)
<1>1. PICK p \in DOMAIN d, b \in Buckets :
        /\ d[p] = <<"SLAB", b>> /\ Cell(o, p, BucketSizes[b])
        /\ o.pa \in Blocks(p, BucketSizes[b], BucketSizes[b])
  BY Zenon DEF InHeap
<1> DEFINE bs == BucketSizes[b]
<1>2. bs \in Nat \ {0} /\ p \in BPages(d)
  BY <1>1, BucketAssumption DEF Buckets, BPages
<1>3. /\ \A u \in Units(o) : u \in Nat /\ align_down_4k(u) = p /\ u # p
      /\ \A q : Cell(q, p, bs) /\ q.pa \in Blocks(p, bs, bs) /\ q.pa # o.pa => Apart(o, q)
  BY <1>1, <1>2, CellFacts, Zenon
<1>4. ASSUME NEW q, InHeap(d, q), q.pa # o.pa PROVE Apart(o, q)
  <2>1. PICK r \in DOMAIN d, c \in Buckets :
          /\ d[r] = <<"SLAB", c>> /\ Cell(q, r, BucketSizes[c])
          /\ q.pa \in Blocks(r, BucketSizes[c], BucketSizes[c])
    BY <1>4, Zenon DEF InHeap
  <2>2. BucketSizes[c] \in Nat \ {0}
    BY BucketAssumption DEF Buckets
  <2>3. \A u \in Units(q) : u \in Nat /\ align_down_4k(u) = r /\ u # r
    BY <2>1, <2>2, CellFacts
  <2>4. CASE r = p
    <3>1. c = b
      BY <1>1, <2>1, <2>4
    <3> QED BY <1>3, <1>4, <2>1, <2>4, <3>1
  <2>5. CASE r # p
    BY <1>3, <2>3, <2>5, Zenon DEF Apart
  <2> QED BY <2>4, <2>5
<1> QED BY <1>2, <1>3, <1>4 DEF Inside

(* The memory of an allocation lies in its pages. *)
LEMMA InItsPages ==
  ASSUME NEW o, o.pa \in Nat, o.size \in Int
  PROVE  Inside(o, PagesOf(o))
<1>1. ASSUME NEW u \in Units(o) PROVE u \in Nat /\ align_down_4k(u) \in PagesOf(o)
  <2> DEFINE e == u \div PAGE_SIZE
             f == o.pa \div PAGE_SIZE
             r == u % PAGE_SIZE
             s == o.pa % PAGE_SIZE
  <2>1. PAGE_SIZE \in Nat /\ PAGE_SIZE > 0 /\ u \in Nat /\ o.pa <= u /\ u <= o.pa + o.size - 1
    BY PageAssumption DEF Units
  <2>2. /\ e \in Nat /\ r \in 0..(PAGE_SIZE - 1) /\ u = e * PAGE_SIZE + r
        /\ f \in Nat /\ s \in 0..(PAGE_SIZE - 1) /\ o.pa = f * PAGE_SIZE + s
    BY <2>1
  <2>3. align_down_4k(u) = e * PAGE_SIZE /\ align_down_4k(o.pa) = f * PAGE_SIZE
    BY Zenon DEF align_down_4k
  <2> HIDE DEF e, f, r, s
  <2>4. f <= e
    <3> SUFFICES ASSUME e + 1 <= f PROVE FALSE
      BY <2>2
    <3>1. (e + 1) * PAGE_SIZE <= f * PAGE_SIZE
      BY <2>1, <2>2
    <3>2. (e + 1) * PAGE_SIZE = e * PAGE_SIZE + PAGE_SIZE /\ e * PAGE_SIZE \in Nat /\ f * PAGE_SIZE \in Nat
      BY <2>1, <2>2
    <3> QED BY <2>1, <2>2, <3>1, <3>2
  <2>5. f * PAGE_SIZE <= e * PAGE_SIZE /\ f * PAGE_SIZE \in Nat /\ e * PAGE_SIZE \in Nat
    BY <2>1, <2>2, <2>4
  <2>6. e * PAGE_SIZE <= o.pa + o.size - 1
    BY <2>1, <2>2, <2>5
  <2>7. (e * PAGE_SIZE) % PAGE_SIZE = 0
    <3>1. 0 \in 0..(PAGE_SIZE - 1) /\ e * PAGE_SIZE + 0 = e * PAGE_SIZE
      BY <2>1, <2>5
    <3>2. (e * PAGE_SIZE + 0) % PAGE_SIZE = 0
      BY <2>2, <3>1, InPage, Zenon
    <3> QED BY <3>1, <3>2
  <2> QED BY <2>1, <2>3, <2>5, <2>6, <2>7 DEF PagesOf
<1> QED BY <1>1 DEF Inside

(* A block of a bucket, by the header of its page. *)
LEMMA BucketCell ==
  ASSUME NEW f, NEW d, NEW B, HeapInv(f, d, B), NEW b \in Buckets, NEW o,
         InBucket(d, o.pa, b), o.size = BucketSizes[b]
  PROVE  InHeap(d, o)
<1>1. align_down_4k(o.pa) \in DOMAIN d /\ HdrOK(d, B, align_down_4k(o.pa))
  BY Zenon DEF HeapInv, InBucket
<1> QED BY <1>1 DEF InHeap, InBucket, Cell, HdrOK
==============================================================================
