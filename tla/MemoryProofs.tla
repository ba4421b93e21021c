----------------------------- MODULE MemoryProofs -----------------------------
(* For any number of pages, any page, object and bucket sizes and any mix of  *)
(* the calls of Memory: every page has one owner, and no two allocations      *)
(* share memory.  MemInv relates the parts AllocProofs is about.              *)
EXTENDS AllocProofs

(* ------------------------- the inductive invariant ------------------------ *)

Whole(d, lv) ==
  {o \in lv : o.kind = "run" \/ (o.kind = "buf" /\ align_down_4k(o.pa) \notin BPages(d))}

(* A run of kheap_alloc_pages is made of whole pages. *)
RunOK(o) == \E n \in Nat \ {0} : o.pa \in Nat /\ o.pa % PAGE_SIZE = 0 /\ o.size = n * PAGE_SIZE

(* The allocator's own lists, over the pages bf that were free at boot. *)
PoolInv(st, bf) == PmmReady(st) /\ FreeSet(st) \subseteq bf /\ bf \subseteq Managed(st)

KindOK(o) == o.kind \in {"obj", "buf", "run"} /\ (o.kind = "run" => RunOK(o))
LiveInv(lv) ==
  /\ IsFiniteSet(lv)
  /\ \A o \in lv : KindOK(o)

IsCache(c) == c = [pages |-> c.pages, inuse_objects |-> c.inuse_objects]
IsHeap(h) == h = [freelist |-> h.freelist, hdr |-> h.hdr, cur_bytes |-> h.cur_bytes]

(* Of the page allocator st, the cache c, the heap h, the live allocations lv *)
(* and the pages bf.                                                          *)
MemInv(st, c, h, lv, bf) ==
  /\ PoolInv(st, bf) /\ LiveInv(lv)
  /\ IsCache(c) /\ SlabInv(c.pages, c.inuse_objects, KindOf(lv, "obj"))
  /\ IsHeap(h) /\ HeapInv(h.freelist, h.hdr, KindOf(lv, "buf"))
  /\ Owners(CPages(c.pages), BPages(h.hdr), Whole(h.hdr, lv), bf \ FreeSet(st))
  /\ h.cur_bytes = Total(h.hdr, lv)

(* The live allocations stay finitely many, and their runs whole pages. *)
LEMMA LiveKept ==
  ASSUME NEW lv, LiveInv(lv), NEW o
  PROVE  (KindOK(o) => LiveInv(lv \cup {o})) /\ LiveInv(lv \ {o})
  BY FS_AddElement, FS_RemoveElement, Zenon DEF LiveInv

(* An allocation of c pages takes them from the free ones. *)
LEMMA PoolAlloc ==
  ASSUME NEW st, NEW bf, PoolInv(st, bf), NEW c \in Nat, NEW a, a = pmm_alloc_pages(st, c), a.pa # -1
  PROVE  /\ PoolInv(a.st, bf) /\ a.pa \in Nat /\ a.pa % PAGE_SIZE = 0 /\ c # 0
         /\ Run(a.pa, c) \cap (bf \ FreeSet(st)) = {}
         /\ bf \ FreeSet(a.st) = (bf \ FreeSet(st)) \cup Run(a.pa, c)
<1>1. /\ PmmReady(a.st) /\ SameWindow(a.st, st) /\ a.pa \in Nat /\ a.pa % PAGE_SIZE = 0 /\ c # 0
      /\ Run(a.pa, c) \subseteq FreeSet(st) /\ FreeSet(a.st) = FreeSet(st) \ Run(a.pa, c)
  BY AllocPages, Zenon DEF PoolInv
<1>2. Managed(a.st) = Managed(st)
  BY <1>1, Zenon DEF SameWindow, Managed, page_pa, IsMeta
<1> QED BY <1>1, <1>2 DEF PoolInv

(* A release of pages that are in use makes them free. *)
LEMMA PoolFree ==
  ASSUME NEW st, NEW bf, PoolInv(st, bf), NEW pa \in Nat, pa % PAGE_SIZE = 0, NEW c,
         Run(pa, c) \subseteq bf \ FreeSet(st)
  PROVE  LET new == kheap_free_pages(st, pa, c)
         IN PoolInv(new, bf) /\ bf \ FreeSet(new) = (bf \ FreeSet(st)) \ Run(pa, c)
<1> DEFINE new == kheap_free_pages(st, pa, c)
<1>1. Run(pa, c) \subseteq Managed(st) \ FreeSet(st)
  BY Zenon DEF PoolInv
<1>2. PmmReady(new) /\ SameWindow(new, st) /\ FreeSet(new) = FreeSet(st) \cup Run(pa, c)
  BY <1>1, ReleaseRun DEF PoolInv
<1>3. Managed(new) = Managed(st)
  BY <1>2, Zenon DEF SameWindow, Managed, page_pa, IsMeta
<1> QED BY <1>2, <1>3 DEF PoolInv

(* The pages of a big block and of a run. *)
LEMMA WholePages ==
  ASSUME NEW p \in Nat, p % PAGE_SIZE = 0, NEW n \in Nat \ {0}
  PROVE  /\ PagesOf(BigBuf(p, n)) = Run(p, n)
         /\ \A o : o.pa = p /\ o.size = n * PAGE_SIZE => PagesOf(o) = Run(p, n)
         /\ p \in Run(p, n)
<1>1. PICK q \in Nat : p = q * PAGE_SIZE
  BY AlignedIs, Zenon
<1>2. PAGE_SIZE \in Nat /\ n * PAGE_SIZE \in Nat /\ HDR \in 0..(PAGE_SIZE - 1) /\ 0 \in 0..(PAGE_SIZE - 1)
  <2>1. HDR < PAGE_SIZE
    BY BigHome, Zenon
  <2> QED BY <2>1, PageAssumption DEF HDR
<1>3. PagesOf(BigBuf(p, n)) = Run(p, n)
  <2>1. BigBuf(p, n).pa = q * PAGE_SIZE + HDR /\ BigBuf(p, n).size = n * PAGE_SIZE - HDR
    BY <1>1, Zenon DEF BigBuf, Buf
  <2> DEFINE o == BigBuf(p, n)
  <2>2. HDR \in 0..(PAGE_SIZE - 1) /\ o.pa = q * PAGE_SIZE + HDR /\ o.size = n * PAGE_SIZE - HDR
    BY <1>2, <2>1, Zenon
  <2> HIDE DEF o
  <2>3. PagesOf(o) = Run(q * PAGE_SIZE, n)
    BY <2>2, PagesOfRun
  <2> QED BY <1>1, <2>3 DEF o
<1>4. ASSUME NEW o, o.pa = p, o.size = n * PAGE_SIZE PROVE PagesOf(o) = Run(p, n)
  <2>1. o.pa = q * PAGE_SIZE + 0 /\ o.size = n * PAGE_SIZE - 0
    BY <1>1, <1>2, <1>4
  <2>2. 0 \in 0..(PAGE_SIZE - 1)
    BY <1>2, Zenon
  <2> QED BY <1>1, <2>1, <2>2, PagesOfRun
<1>5. p \in Run(p, n)
  <2>1. 0 \in 0..(n - 1) /\ p = p + 0 * PAGE_SIZE
    BY <1>2
  <2> QED BY <2>1 DEF Run
<1> QED BY <1>3, <1>4, <1>5

(* One page is a run of length one. *)
LEMMA OnePage ==
  ASSUME NEW p \in Nat
  PROVE  Run(p, 1) = {p}
<1>1. 0..(1 - 1) = {0} /\ p + 0 * PAGE_SIZE = p
  BY PageAssumption
<1> QED BY <1>1 DEF Run

(* A page with a header is in use, so no new page has one. *)
LEMMA HeadersOwned ==
  ASSUME NEW st, NEW c, NEW h, NEW lv, NEW bf, MemInv(st, c, h, lv, bf)
  PROVE  DOMAIN h.hdr \subseteq bf \ FreeSet(st)
<1> DEFINE d == h.hdr
           U == bf \ FreeSet(st)
<1>1. /\ Owners(CPages(c.pages), BPages(d), Whole(d, lv), U)
      /\ \A p \in DOMAIN d : HdrOK(d, KindOf(lv, "buf"), p)
  BY Zenon DEF MemInv, HeapInv
<1>2. BPages(d) \subseteq U /\ \A o \in Whole(d, lv) : PagesOf(o) \subseteq U
  BY <1>1, Zenon DEF Owners
<1> HIDE DEF d, U
<1>3. ASSUME NEW p \in DOMAIN d PROVE p \in U
  <2>1. CASE \E b \in Buckets : d[p] = <<"SLAB", b>>
    BY <1>2, <2>1 DEF BPages
  <2>2. ASSUME NEW n \in Nat \ {0}, d[p] = <<"BIG", n>>, BigBuf(p, n) \in KindOf(lv, "buf")
        PROVE  p \in U
    <3>1. p \in Nat /\ p % PAGE_SIZE = 0
      BY <1>1, Zenon DEF HdrOK
    <3>2. align_down_4k(BigBuf(p, n).pa) = p
      BY <3>1, BigHome, Zenon
    <3>3. BigBuf(p, n) \in Whole(d, lv)
      BY <2>2, <3>2 DEF Whole, BPages, KindOf
    <3>4. p \in PagesOf(BigBuf(p, n))
      BY <3>1, WholePages, Zenon
    <3> QED BY <1>2, <3>3, <3>4
  <2> QED BY <1>1, <2>1, <2>2 DEF HdrOK
<1> QED BY <1>3 DEF d, U

(* slab_alloc from a page of the cache. *)
LEMMA ObjAlloc ==
  ASSUME NEW st, NEW c, NEW h, NEW lv, NEW bf, MemInv(st, c, h, lv, bf),
         NEW i \in DOMAIN c.pages, c.pages[i].freelist # <<>>,
         NEW r, r = SlabTake(c, i)
  PROVE  MemInv(st, r.c, h, lv \cup {Obj(r.obj)}, bf)
<1> DEFINE O == KindOf(lv, "obj")
           o == Obj(Head(c.pages[i].freelist))
           new == lv \cup {o}
<1>1. IsCache(c) /\ SlabInv(c.pages, c.inuse_objects, O)
  BY Zenon DEF MemInv
<1>2. r = SlabTake([pages |-> c.pages, inuse_objects |-> c.inuse_objects], i)
  BY <1>1, Zenon DEF IsCache
<1>3. /\ r.obj = Head(c.pages[i].freelist)
      /\ r.c = [pages |-> r.c.pages, inuse_objects |-> r.c.inuse_objects]
      /\ SlabInv(r.c.pages, r.c.inuse_objects, O \cup {o})
      /\ CPages(r.c.pages) = CPages(c.pages)
  <2> DEFINE P == c.pages
             n == c.inuse_objects
             t == SlabTake([pages |-> P, inuse_objects |-> n], i)
  <2>1. SlabInv(P, n, O) /\ i \in DOMAIN P /\ P[i].freelist # <<>> /\ r = t
    BY <1>1, <1>2, Zenon
  <2> HIDE DEF O, P, n
  <2>2. /\ t.obj = Head(P[i].freelist)
        /\ t.c = [pages |-> t.c.pages, inuse_objects |-> t.c.inuse_objects]
        /\ SlabInv(t.c.pages, t.c.inuse_objects, O \cup {Obj(Head(P[i].freelist))})
        /\ CPages(t.c.pages) = CPages(P)
    BY <2>1, SlabTakes, Zenon
  <2> QED BY <2>1, <2>2, Zenon DEF P
<1>4. o.kind = "obj"
  BY Zenon DEF Obj
<1> HIDE DEF o
<1>5. KindOf(new, "obj") = O \cup {o} /\ KindOf(new, "buf") = KindOf(lv, "buf")
  BY <1>4, Zenon DEF KindOf
<1>6. LiveInv(new)
  <2>1. LiveInv(lv) /\ KindOK(o)
    BY <1>4, Zenon DEF MemInv, KindOK
  <2> QED BY <2>1, LiveKept, Zenon
<1>7. Whole(h.hdr, new) = Whole(h.hdr, lv)
  BY <1>4, Zenon DEF Whole
<1>8. Total(h.hdr, new) = Total(h.hdr, lv)
  <2>1. \A q \in KindOf(lv, "buf") : BytesOf(h.hdr, q) \in Nat
    BY BytesFacts, Zenon DEF MemInv
  <2> QED BY <1>5, <2>1, TotalSame DEF MemInv, LiveInv
<1>9. MemInv(st, r.c, h, new, bf)
  BY <1>3, <1>5, <1>6, <1>7, <1>8, Zenon DEF MemInv, IsCache
<1> QED BY <1>3, <1>9 DEF o

(* slab_alloc gets a new page. *)
LEMMA CacheGrow ==
  ASSUME NEW st, NEW c, NEW h, NEW lv, NEW bf, MemInv(st, c, h, lv, bf),
         NEW a, a = pmm_alloc_pages(st, 1), a.pa # -1,
         NEW e, e = [c EXCEPT !.pages = <<slab_page_alloc(a.pa)>> \o c.pages]
  PROVE  MemInv(a.st, e, h, lv, bf) /\ 1 \in DOMAIN e.pages /\ e.pages[1].freelist # <<>>
<1> DEFINE O == KindOf(lv, "obj")
           U == bf \ FreeSet(st)
           Q == <<slab_page_alloc(a.pa)>> \o c.pages
<1>1. /\ IsCache(c) /\ SlabInv(c.pages, c.inuse_objects, O) /\ PoolInv(st, bf)
      /\ Owners(CPages(c.pages), BPages(h.hdr), Whole(h.hdr, lv), U)
  BY Zenon DEF MemInv
<1>2. /\ PoolInv(a.st, bf) /\ a.pa \in Nat /\ a.pa % PAGE_SIZE = 0
      /\ Run(a.pa, 1) \cap U = {} /\ bf \ FreeSet(a.st) = U \cup Run(a.pa, 1)
  BY <1>1, PoolAlloc
<1>3. a.pa \notin U /\ bf \ FreeSet(a.st) = U \cup {a.pa}
  BY <1>2, OnePage, Zenon
<1>4. a.pa \notin CPages(c.pages)
  BY <1>1, <1>3, Zenon DEF Owners
<1>5. /\ SlabInv(Q, c.inuse_objects, O) /\ CPages(Q) = CPages(c.pages) \cup {a.pa}
      /\ 1 \in DOMAIN Q /\ Q[1].freelist # <<>>
  <2> HIDE DEF O
  <2> QED BY <1>1, <1>2, <1>4, SlabGrows
<1> HIDE DEF U, Q
<1>6. Owners(CPages(c.pages) \cup {a.pa}, BPages(h.hdr), Whole(h.hdr, lv), U \cup {a.pa})
  BY <1>1, <1>3, OwnersKept, Zenon
<1>7. e = [pages |-> Q, inuse_objects |-> c.inuse_objects]
  BY <1>1, Zenon DEF IsCache, Q
<1>8. e.pages = Q /\ e.inuse_objects = c.inuse_objects
  BY <1>7
<1>9. e = [pages |-> e.pages, inuse_objects |-> e.inuse_objects]
  BY <1>7, <1>8, Zenon
<1> QED BY <1>2, <1>3, <1>5, <1>6, <1>8, <1>9, Zenon DEF MemInv, IsCache, O

(* slab_free: the object's page is found, in use, and takes the object back. *)
LEMMA ObjFree ==
  ASSUME NEW st, NEW c, NEW h, NEW lv, NEW bf, MemInv(st, c, h, lv, bf),
         NEW o \in lv, o.kind = "obj",
         NEW i, i = PageAt(c.pages, align_down_4k(o.pa)),
         NEW Q, Q = SlabPut(c.pages, i, o.pa),
         NEW e, e = [pages |-> Q, inuse_objects |-> c.inuse_objects - 1]
  PROVE  /\ MemInv(st, e, h, lv \ {o}, bf)
         /\ i # 0 /\ c.pages[i].inuse # 0 /\ c.inuse_objects # 0
<1> DEFINE O == KindOf(lv, "obj")
           P == c.pages
           n == c.inuse_objects
           new == lv \ {o}
<1>1. IsCache(c) /\ SlabInv(P, n, O) /\ o \in O
  BY Zenon DEF MemInv, KindOf
<1>2. i \in DOMAIN P /\ i # 0 /\ P[i].pa = align_down_4k(o.pa)
  <2>1. PICK j \in DOMAIN P : o.pa \in ObjBlocks(P[j].pa)
    BY <1>1, Zenon DEF SlabInv
  <2>2. P \in Seq(SlabPage) /\ P[j] \in SlabPage /\ P[j].pa % PAGE_SIZE = 0
    BY <1>1 DEF SlabInv, PageOK
  <2>3. P[j].pa \in Nat
    BY <2>2, Zenon DEF SlabPage
  <2>4. align_down_4k(o.pa) = P[j].pa
    BY <2>1, <2>2, <2>3, ObjHome, Zenon
  <2>5. align_down_4k(o.pa) \in CPages(P)
    BY <2>4, Zenon DEF CPages
  <2> HIDE DEF P
  <2> QED BY <2>2, <2>5, SlabSearch, Zenon DEF P
<1>3. P[i].inuse # 0 /\ n # 0 /\ SlabInv(Q, n - 1, O \ {o}) /\ CPages(Q) = CPages(P)
  <2>1. Q = SlabPut(P, i, o.pa)
    BY Zenon
  <2> HIDE DEF P, n, O
  <2>2. /\ P[i].inuse # 0 /\ n # 0 /\ SlabInv(SlabPut(P, i, o.pa), n - 1, O \ {o})
        /\ CPages(SlabPut(P, i, o.pa)) = CPages(P)
    BY <1>1, <1>2, SlabPuts, ZenonT(30)
  <2> QED BY <2>1, <2>2, Zenon
<1>4. KindOf(new, "obj") = O \ {o} /\ KindOf(new, "buf") = KindOf(lv, "buf")
  BY Zenon DEF KindOf
<1>5. LiveInv(new)
  <2>1. LiveInv(lv)
    BY Zenon DEF MemInv
  <2> QED BY <2>1, LiveKept, Zenon
<1>6. Whole(h.hdr, new) = Whole(h.hdr, lv)
  BY Zenon DEF Whole
<1>7. Total(h.hdr, new) = Total(h.hdr, lv)
  <2>1. \A q \in KindOf(lv, "buf") : BytesOf(h.hdr, q) \in Nat
    BY BytesFacts, Zenon DEF MemInv
  <2> QED BY <1>4, <2>1, TotalSame DEF MemInv, LiveInv
<1>8. e.pages = Q /\ e.inuse_objects = n - 1
  BY Zenon
<1>9. IsCache(e)
  BY <1>8, Zenon DEF IsCache
<1>10. MemInv(st, e, h, new, bf)
  <2> HIDE DEF new
  <2> QED BY <1>3, <1>4, <1>5, <1>6, <1>7, <1>8, <1>9, Zenon DEF MemInv, P
<1> QED BY <1>2, <1>3, <1>10 DEF P, n, new

(* kmalloc from a bucket that has a block. *)
LEMMA BufTake ==
  ASSUME NEW st, NEW c, NEW h, NEW lv, NEW bf, MemInv(st, c, h, lv, bf),
         NEW b \in Buckets, h.freelist[b] # <<>>, NEW e,
         e = [freelist |-> [h.freelist EXCEPT ![b] = Tail(h.freelist[b])], hdr |-> h.hdr,
              cur_bytes |-> h.cur_bytes + BucketSizes[b]]
  PROVE  MemInv(st, c, e, lv \cup {Buf(Head(h.freelist[b]), BucketSizes[b])}, bf)
<1> DEFINE f == h.freelist
           d == h.hdr
           B == KindOf(lv, "buf")
           o == Buf(Head(f[b]), BucketSizes[b])
           g == [f EXCEPT ![b] = Tail(f[b])]
           new == lv \cup {o}
<1>1. HeapInv(f, d, B) /\ f[b] # <<>> /\ LiveInv(lv) /\ BucketSizes[b] \in Nat
  BY BucketAssumption DEF MemInv, Buckets
<1>2. o.kind = "buf" /\ o.size = BucketSizes[b]
  BY Zenon DEF Buf
<1>3. o \notin B /\ align_down_4k(o.pa) \in BPages(d) /\ HeapInv(g, d, B \cup {o})
  <2> HIDE DEF f, d, B
  <2> QED BY <1>1, HeapTakes, Zenon
<1>4. e.freelist = g /\ e.hdr = d /\ e.cur_bytes = h.cur_bytes + BucketSizes[b]
  BY Zenon
<1>5. IsHeap(e)
  BY <1>4, Zenon DEF IsHeap
<1> HIDE DEF o
<1>6. KindOf(new, "obj") = KindOf(lv, "obj") /\ KindOf(new, "buf") = B \cup {o}
  BY <1>2, Zenon DEF KindOf
<1>7. LiveInv(new)
  <2>1. KindOK(o)
    BY <1>2, Zenon DEF KindOK
  <2> QED BY <1>1, <2>1, LiveKept, Zenon
<1>8. Whole(d, new) = Whole(d, lv)
  BY <1>2, <1>3, Zenon DEF Whole
<1>9. BytesOf(d, o) = BucketSizes[b]
  BY <1>2, <1>3, Zenon DEF BytesOf
<1>10. Total(d, new) = Total(d, lv) + BytesOf(d, o)
  <2>1. \A q \in B : BytesOf(d, q) \in Nat
    BY <1>1, BytesFacts, Zenon
  <2>2. IsFiniteSet(new) /\ BytesOf(d, o) \in Nat
    BY <1>1, <1>7, <1>9, Zenon DEF LiveInv
  <2> HIDE DEF new, d
  <2> QED BY <1>3, <1>6, <2>1, <2>2, TotalAdd
<1>11. e.cur_bytes = Total(d, new)
  BY <1>4, <1>9, <1>10, Zenon DEF MemInv
<1>12. MemInv(st, c, e, new, bf)
  <2> HIDE DEF new, d, g, B
  <2>1. d = h.hdr
    BY Zenon DEF d
  <2> QED BY <1>3, <1>4, <1>5, <1>6, <1>7, <1>8, <1>11, <2>1, Zenon DEF MemInv
<1> QED BY <1>12 DEF o, new, f

(* refill_bucket: the heap gets a page, cut into blocks of the bucket. *)
LEMMA BucketGrow ==
  ASSUME NEW st, NEW c, NEW h, NEW lv, NEW bf, MemInv(st, c, h, lv, bf),
         NEW b \in Buckets, h.freelist[b] = <<>>,
         NEW a, a = pmm_alloc_pages(st, 1), a.pa # -1, NEW e,
         e = [freelist |-> [h.freelist EXCEPT ![b] = FreshBlocks(a.pa, BucketSizes[b], BucketSizes[b])
                                                      \o h.freelist[b]],
              hdr |-> SetHdr(h.hdr, a.pa, <<"SLAB", b>>), cur_bytes |-> h.cur_bytes]
  PROVE  MemInv(a.st, c, e, lv, bf)
<1> DEFINE U == bf \ FreeSet(st)
           f == h.freelist
           d == h.hdr
           B == KindOf(lv, "buf")
           g == Refilled(f, b, a.pa)
           new == SetHdr(d, a.pa, <<"SLAB", b>>)
<1>1. /\ PoolInv(st, bf) /\ LiveInv(lv) /\ HeapInv(f, d, B) /\ f[b] = <<>>
      /\ Owners(CPages(c.pages), BPages(d), Whole(d, lv), U)
  BY Zenon DEF MemInv
<1>2. /\ PoolInv(a.st, bf) /\ a.pa \in Nat /\ a.pa % PAGE_SIZE = 0
      /\ Run(a.pa, 1) \cap U = {} /\ bf \ FreeSet(a.st) = U \cup Run(a.pa, 1)
  BY <1>1, PoolAlloc
<1>3. a.pa \notin U /\ bf \ FreeSet(a.st) = U \cup {a.pa}
  BY <1>2, OnePage, Zenon
<1>4. a.pa \notin DOMAIN d
  BY <1>3, HeadersOwned, Zenon
<1>5. HeapInv(g, new, B) /\ BPages(new) = BPages(d) \cup {a.pa}
  <2> DEFINE pa == a.pa
  <2>1. pa \in Nat /\ pa % PAGE_SIZE = 0 /\ pa \notin DOMAIN d
    BY <1>2, <1>4, Zenon
  <2> HIDE DEF f, d, B, pa
  <2>2. /\ HeapInv(Refilled(f, b, pa), SetHdr(d, pa, <<"SLAB", b>>), B)
        /\ BPages(SetHdr(d, pa, <<"SLAB", b>>)) = BPages(d) \cup {pa}
    BY <1>1, <2>1, HeapRefills
  <2> QED BY <2>2 DEF pa
<1>6. e.freelist = g /\ e.hdr = new /\ e.cur_bytes = h.cur_bytes
  BY Zenon DEF Refilled
<1>7. IsHeap(e)
  BY <1>6, Zenon DEF IsHeap
<1> HIDE DEF g, new
<1>8. \A o \in B : align_down_4k(o.pa) \in BPages(new) <=> align_down_4k(o.pa) \in BPages(d)
  BY <1>1, <1>4, <1>5, BufHome
<1>9. Whole(new, lv) = Whole(d, lv)
  BY <1>8, Zenon DEF Whole, KindOf
<1>10. Total(new, lv) = Total(d, lv)
  <2>1. \A o \in B : BytesOf(d, o) \in Nat /\ BytesOf(new, o) = BytesOf(d, o)
    <3>1. \A o \in B : BytesOf(d, o) \in Nat
      BY <1>1, BytesFacts, Zenon
    <3> QED BY <1>8, <3>1 DEF BytesOf
  <2> QED BY <1>1, <2>1, TotalSame DEF LiveInv
<1> HIDE DEF U, d
<1>11. Owners(CPages(c.pages), BPages(d) \cup {a.pa}, Whole(d, lv), U \cup {a.pa})
  BY <1>1, <1>3, OwnersKept, Zenon
<1>12. d = h.hdr
  BY Zenon DEF d
<1> QED BY <1>2, <1>3, <1>5, <1>6, <1>7, <1>9, <1>10, <1>11, <1>12, Zenon DEF MemInv

(* A big kmalloc gets pages of its own. *)
LEMMA BigTake ==
  ASSUME NEW st, NEW c, NEW h, NEW lv, NEW bf, MemInv(st, c, h, lv, bf),
         NEW n \in Nat, NEW a, a = pmm_alloc_pages(st, n), a.pa # -1, NEW e,
         e = [freelist |-> h.freelist, hdr |-> SetHdr(h.hdr, a.pa, <<"BIG", n>>),
              cur_bytes |-> h.cur_bytes + n * PAGE_SIZE]
  PROVE  MemInv(a.st, c, e, lv \cup {BigBuf(a.pa, n)}, bf)
<1> DEFINE U == bf \ FreeSet(st)
           f == h.freelist
           d == h.hdr
           B == KindOf(lv, "buf")
           g == SetHdr(d, a.pa, <<"BIG", n>>)
           o == BigBuf(a.pa, n)
           new == lv \cup {o}
<1>1. /\ PoolInv(st, bf) /\ LiveInv(lv) /\ HeapInv(f, d, B)
      /\ Owners(CPages(c.pages), BPages(d), Whole(d, lv), U)
  BY Zenon DEF MemInv
<1>2. /\ PoolInv(a.st, bf) /\ a.pa \in Nat /\ a.pa % PAGE_SIZE = 0 /\ n \in Nat \ {0}
      /\ Run(a.pa, n) \cap U = {} /\ bf \ FreeSet(a.st) = U \cup Run(a.pa, n)
  BY <1>1, PoolAlloc
<1>3. PagesOf(o) = Run(a.pa, n) /\ a.pa \in Run(a.pa, n)
  BY <1>2, WholePages, Zenon
<1>4. a.pa \notin DOMAIN d
  BY <1>2, <1>3, HeadersOwned, Zenon
<1>5. /\ HeapInv(f, g, B \cup {o}) /\ BPages(g) = BPages(d)
      /\ o \notin B /\ align_down_4k(o.pa) \notin BPages(g)
  <2> HIDE DEF f, d, B
  <2> QED BY <1>1, <1>2, <1>4, HeapBig
<1>6. e.freelist = f /\ e.hdr = g /\ e.cur_bytes = h.cur_bytes + n * PAGE_SIZE
  BY Zenon
<1>7. IsHeap(e)
  BY <1>6, Zenon DEF IsHeap
<1>8. o.kind = "buf" /\ o.size + HDR = n * PAGE_SIZE /\ n * PAGE_SIZE \in Nat
  BY PageAssumption DEF BigBuf, Buf, HDR
<1> HIDE DEF o, g
<1>9. KindOf(new, "obj") = KindOf(lv, "obj") /\ KindOf(new, "buf") = B \cup {o}
  BY <1>8, Zenon DEF KindOf
<1>10. LiveInv(new)
  <2>1. KindOK(o)
    BY <1>8, Zenon DEF KindOK
  <2> QED BY <1>1, <2>1, LiveKept, Zenon
<1>11. Whole(g, new) = Whole(d, lv) \cup {o}
  BY <1>5, <1>8 DEF Whole
<1>12. BytesOf(g, o) = n * PAGE_SIZE
  BY <1>5, <1>8, Zenon DEF BytesOf
<1>13. Total(g, new) = Total(d, lv) + n * PAGE_SIZE
  <2>1. \A q \in B : BytesOf(d, q) \in Nat
    BY <1>1, BytesFacts, Zenon
  <2>2. \A q \in B : BytesOf(d, q) \in Nat /\ BytesOf(g, q) = BytesOf(d, q)
    BY <1>5, <2>1, Zenon DEF BytesOf
  <2>3. IsFiniteSet(new) /\ BytesOf(g, o) \in Nat
    BY <1>8, <1>10, <1>12, Zenon DEF LiveInv
  <2> HIDE DEF new, d
  <2>4. Total(g, new) = Total(d, lv) + BytesOf(g, o)
    BY <1>5, <1>9, <2>2, <2>3, TotalAdd
  <2> QED BY <1>12, <2>4
<1>14. e.cur_bytes = Total(g, new)
  BY <1>6, <1>13, Zenon DEF MemInv
<1> HIDE DEF U, d
<1>15. Owners(CPages(c.pages), BPages(d), Whole(d, lv) \cup {o}, U \cup PagesOf(o))
  BY <1>1, <1>2, <1>3, OwnersKept, Zenon
<1>16. MemInv(a.st, c, e, new, bf)
  <2> HIDE DEF new, B
  <2> QED BY <1>2, <1>3, <1>5, <1>6, <1>7, <1>9, <1>10, <1>11, <1>14, <1>15, Zenon DEF MemInv, d, f
<1> QED BY <1>16 DEF new, o

(* kfree of a small block. *)
LEMMA BufPut ==
  ASSUME NEW st, NEW c, NEW h, NEW lv, NEW bf, MemInv(st, c, h, lv, bf),
         NEW o \in lv, o.kind = "buf", NEW b, h.hdr[align_down_4k(o.pa)] = <<"SLAB", b>>, NEW e,
         e = [freelist |-> [h.freelist EXCEPT ![b] = <<o.pa>> \o h.freelist[b]], hdr |-> h.hdr,
              cur_bytes |-> AccountFree(h.cur_bytes, BucketSizes[b])]
  PROVE  MemInv(st, c, e, lv \ {o}, bf)
<1> DEFINE f == h.freelist
           d == h.hdr
           B == KindOf(lv, "buf")
           g == [f EXCEPT ![b] = <<o.pa>> \o f[b]]
           new == lv \ {o}
<1>1. /\ HeapInv(f, d, B) /\ LiveInv(lv) /\ o \in B /\ d[align_down_4k(o.pa)] = <<"SLAB", b>>
      /\ h.cur_bytes = Total(d, lv)
  BY Zenon DEF MemInv, KindOf
<1>2. b \in Buckets /\ o.size = BucketSizes[b] /\ HeapInv(g, d, B \ {o})
  <2> HIDE DEF f, d, B
  <2> QED BY <1>1, HeapPuts, Zenon
<1>3. align_down_4k(o.pa) \in BPages(d)
  BY <1>1, BufHome DEF BPages
<1>4. e.freelist = g /\ e.hdr = d /\ e.cur_bytes = AccountFree(h.cur_bytes, BucketSizes[b])
  BY Zenon
<1>5. IsHeap(e)
  BY <1>4, Zenon DEF IsHeap
<1>6. KindOf(new, "obj") = KindOf(lv, "obj") /\ KindOf(new, "buf") = B \ {o}
  BY Zenon DEF KindOf
<1>7. LiveInv(new)
  BY <1>1, LiveKept, Zenon
<1>8. Whole(d, new) = Whole(d, lv)
  BY <1>3, Zenon DEF Whole
<1>9. Total(d, lv) = Total(d, new) + BucketSizes[b] /\ Total(d, new) \in Nat /\ BucketSizes[b] \in Nat
  <2>1. \A q \in B : BytesOf(d, q) \in Nat
    BY <1>1, BytesFacts, Zenon
  <2>2. BytesOf(d, o) = BucketSizes[b]
    BY <1>2, <1>3, Zenon DEF BytesOf
  <2>3. IsFiniteSet(lv) /\ B = KindOf(new, "buf") \cup {o} /\ o \notin KindOf(new, "buf")
    BY <1>1, <1>6, Zenon DEF LiveInv
  <2>4. \A q \in KindOf(new, "buf") : BytesOf(d, q) \in Nat
    BY <1>6, <2>1, Zenon
  <2> HIDE DEF new, d
  <2>5. Total(d, lv) = Total(d, new) + BytesOf(d, o) /\ Total(d, new) \in Nat
    BY <1>1, <2>1, <2>3, <2>4, TotalAdd, Zenon
  <2> QED BY <1>1, <2>1, <2>2, <2>5
<1>10. e.cur_bytes = Total(d, new)
  BY <1>1, <1>4, <1>9 DEF AccountFree
<1>11. MemInv(st, c, e, new, bf)
  <2> HIDE DEF new, d, g, B
  <2>1. d = h.hdr
    BY Zenon DEF d
  <2> QED BY <1>2, <1>4, <1>5, <1>6, <1>7, <1>8, <1>10, <2>1, Zenon DEF MemInv
<1> QED BY <1>11 DEF new

(* kfree of a big block: its pages go back with its header. *)
LEMMA BigGive ==
  ASSUME NEW st, NEW c, NEW h, NEW lv, NEW bf, MemInv(st, c, h, lv, bf),
         NEW o \in lv, o.kind = "buf", NEW p, p = align_down_4k(o.pa),
         NEW n, h.hdr[p] = <<"BIG", n>>, NEW s, s = kheap_free_pages(st, p, n), NEW e,
         e = [freelist |-> h.freelist, hdr |-> [q \in DOMAIN h.hdr \ {p} |-> h.hdr[q]],
              cur_bytes |-> AccountFree(h.cur_bytes, n * PAGE_SIZE)]
  PROVE  MemInv(s, c, e, lv \ {o}, bf)
<1> DEFINE U == bf \ FreeSet(st)
           f == h.freelist
           d == h.hdr
           B == KindOf(lv, "buf")
           g == Wiped(d, p)
           new == lv \ {o}
<1>1. /\ PoolInv(st, bf) /\ LiveInv(lv) /\ HeapInv(f, d, B) /\ o \in B
      /\ d[align_down_4k(o.pa)] = <<"BIG", n>> /\ h.cur_bytes = Total(d, lv)
      /\ Owners(CPages(c.pages), BPages(d), Whole(d, lv), U)
  BY Zenon DEF MemInv, KindOf
<1>2. /\ p \in Nat /\ p % PAGE_SIZE = 0 /\ n \in Nat \ {0} /\ o = BigBuf(p, n)
      /\ HeapInv(f, g, B \ {o}) /\ BPages(g) = BPages(d) /\ p \notin BPages(d)
  <2> DEFINE k == align_down_4k(o.pa)
  <2> HIDE DEF f, d, B
  <2>1. /\ k \in Nat /\ k % PAGE_SIZE = 0 /\ n \in Nat \ {0} /\ o = BigBuf(k, n)
        /\ HeapInv(f, Wiped(d, k), B \ {o}) /\ BPages(Wiped(d, k)) = BPages(d) /\ k \notin BPages(d)
    BY <1>1, HeapUnbig, Zenon
  <2> QED BY <2>1
<1>3. PagesOf(o) = Run(p, n)
  BY <1>2, WholePages, Zenon
<1>4. o \in Whole(d, lv)
  BY <1>2, Zenon DEF Whole
<1>5. Run(p, n) \subseteq U
  BY <1>1, <1>3, <1>4, Zenon DEF Owners
<1>6. PoolInv(s, bf) /\ bf \ FreeSet(s) = U \ Run(p, n)
  <2>1. p \in Nat /\ p % PAGE_SIZE = 0 /\ PoolInv(st, bf) /\ Run(p, n) \subseteq bf \ FreeSet(st)
    BY <1>1, <1>2, <1>5, Zenon
  <2>2. PoolInv(kheap_free_pages(st, p, n), bf)
        /\ bf \ FreeSet(kheap_free_pages(st, p, n)) = (bf \ FreeSet(st)) \ Run(p, n)
    BY ONLY <2>1, PoolFree
  <2> QED BY <2>2
<1>7. e.freelist = f /\ e.hdr = g /\ e.cur_bytes = AccountFree(h.cur_bytes, n * PAGE_SIZE)
  BY Zenon DEF Wiped
<1>8. IsHeap(e)
  BY <1>7, Zenon DEF IsHeap
<1> HIDE DEF g
<1>9. KindOf(new, "obj") = KindOf(lv, "obj") /\ KindOf(new, "buf") = B \ {o}
  BY Zenon DEF KindOf
<1>10. LiveInv(new)
  BY <1>1, LiveKept, Zenon
<1>11. Whole(g, new) = Whole(d, lv) \ {o}
  BY <1>2, Zenon DEF Whole
<1>12. Total(d, lv) = Total(g, new) + n * PAGE_SIZE /\ Total(g, new) \in Nat /\ n * PAGE_SIZE \in Nat
  <2>1. \A q \in B : BytesOf(d, q) \in Nat
    BY <1>1, BytesFacts, Zenon
  <2>2. BytesOf(d, o) = n * PAGE_SIZE
    BY <1>1, BytesFacts
  <2>3. IsFiniteSet(lv) /\ B = KindOf(new, "buf") \cup {o} /\ o \notin KindOf(new, "buf")
    BY <1>1, <1>9, Zenon DEF LiveInv
  <2>4. \A q \in KindOf(new, "buf") : BytesOf(g, q) \in Nat /\ BytesOf(d, q) = BytesOf(g, q)
    BY <1>2, <1>9, <2>1, Zenon DEF BytesOf
  <2> HIDE DEF new, d
  <2>5. Total(d, lv) = Total(g, new) + BytesOf(d, o) /\ Total(g, new) \in Nat
    BY <1>1, <2>1, <2>3, <2>4, TotalAdd, Zenon
  <2> QED BY <1>1, <2>1, <2>2, <2>5, Zenon
<1>13. e.cur_bytes = Total(g, new)
  BY <1>1, <1>7, <1>12 DEF AccountFree
<1> HIDE DEF U, d
<1>14. Owners(CPages(c.pages), BPages(d), Whole(d, lv) \ {o}, U \ PagesOf(o))
  BY <1>1, <1>4, OwnersKept, Zenon
<1>15. MemInv(s, c, e, new, bf)
  <2> HIDE DEF new, B
  <2> QED BY <1>2, <1>3, <1>6, <1>7, <1>8, <1>9, <1>10, <1>11, <1>13, <1>14, Zenon DEF MemInv, d, f
<1> QED BY <1>15 DEF new

(* kheap_alloc_pages. *)
LEMMA RunTake ==
  ASSUME NEW st, NEW c, NEW h, NEW lv, NEW bf, MemInv(st, c, h, lv, bf),
         NEW n \in Nat, NEW a, a = pmm_alloc_pages(st, n), a.pa # -1,
         NEW o, o = [kind |-> "run", pa |-> a.pa, size |-> n * PAGE_SIZE]
  PROVE  MemInv(a.st, c, h, lv \cup {o}, bf)
<1> DEFINE U == bf \ FreeSet(st)
           d == h.hdr
           new == lv \cup {o}
<1>1. /\ PoolInv(st, bf) /\ LiveInv(lv)
      /\ Owners(CPages(c.pages), BPages(d), Whole(d, lv), U)
  BY Zenon DEF MemInv
<1>2. /\ PoolInv(a.st, bf) /\ a.pa \in Nat /\ a.pa % PAGE_SIZE = 0 /\ n \in Nat \ {0}
      /\ Run(a.pa, n) \cap U = {} /\ bf \ FreeSet(a.st) = U \cup Run(a.pa, n)
  BY <1>1, PoolAlloc
<1>3. o.kind = "run" /\ o.pa = a.pa /\ o.size = n * PAGE_SIZE
  BY Zenon
<1>4. PagesOf(o) = Run(a.pa, n)
  BY <1>2, <1>3, WholePages, Zenon
<1>5. KindOf(new, "obj") = KindOf(lv, "obj") /\ KindOf(new, "buf") = KindOf(lv, "buf")
  BY <1>3, Zenon DEF KindOf
<1>6. LiveInv(new)
  <2>1. KindOK(o)
    BY <1>2, <1>3, Zenon DEF KindOK, RunOK
  <2> QED BY <1>1, <2>1, LiveKept, Zenon
<1>7. Whole(d, new) = Whole(d, lv) \cup {o}
  BY <1>3, Zenon DEF Whole
<1>8. Total(d, new) = Total(d, lv)
  <2>1. \A q \in KindOf(lv, "buf") : BytesOf(d, q) \in Nat
    BY BytesFacts, Zenon DEF MemInv
  <2> QED BY <1>1, <1>5, <2>1, TotalSame DEF LiveInv
<1> HIDE DEF U, d
<1>9. Owners(CPages(c.pages), BPages(d), Whole(d, lv) \cup {o}, U \cup PagesOf(o))
  BY <1>1, <1>2, <1>4, OwnersKept, Zenon
<1>10. MemInv(a.st, c, h, new, bf)
  <2> HIDE DEF new
  <2> QED BY <1>2, <1>4, <1>5, <1>6, <1>7, <1>8, <1>9, Zenon DEF MemInv, d
<1> QED BY <1>10 DEF new

(* kheap_free_pages of a live run. *)
LEMMA RunGive ==
  ASSUME NEW st, NEW c, NEW h, NEW lv, NEW bf, MemInv(st, c, h, lv, bf),
         NEW o \in lv, o.kind = "run",
         NEW s, s = kheap_free_pages(st, o.pa, o.size \div PAGE_SIZE)
  PROVE  MemInv(s, c, h, lv \ {o}, bf)
<1> DEFINE U == bf \ FreeSet(st)
           d == h.hdr
           new == lv \ {o}
<1>1. /\ PoolInv(st, bf) /\ LiveInv(lv)
      /\ Owners(CPages(c.pages), BPages(d), Whole(d, lv), U)
  BY Zenon DEF MemInv
<1>2. PICK n \in Nat \ {0} : o.pa \in Nat /\ o.pa % PAGE_SIZE = 0 /\ o.size = n * PAGE_SIZE
  BY <1>1, Zenon DEF LiveInv, KindOK, RunOK
<1>3. o.size \div PAGE_SIZE = n
  BY <1>2, PageAssumption
<1>4. PagesOf(o) = Run(o.pa, n)
  BY <1>2, WholePages, Zenon
<1>5. o \in Whole(d, lv)
  BY Zenon DEF Whole
<1>6. Run(o.pa, n) \subseteq U
  BY <1>1, <1>4, <1>5, Zenon DEF Owners
<1>7. PoolInv(s, bf) /\ bf \ FreeSet(s) = U \ Run(o.pa, n)
  BY <1>1, <1>2, <1>3, <1>6, PoolFree
<1>8. KindOf(new, "obj") = KindOf(lv, "obj") /\ KindOf(new, "buf") = KindOf(lv, "buf")
  BY Zenon DEF KindOf
<1>9. LiveInv(new)
  BY <1>1, LiveKept, Zenon
<1>10. Whole(d, new) = Whole(d, lv) \ {o}
  BY Zenon DEF Whole
<1>11. Total(d, new) = Total(d, lv)
  <2>1. \A q \in KindOf(lv, "buf") : BytesOf(d, q) \in Nat
    BY BytesFacts, Zenon DEF MemInv
  <2> QED BY <1>1, <1>8, <2>1, TotalSame DEF LiveInv
<1> HIDE DEF U, d
<1>12. Owners(CPages(c.pages), BPages(d), Whole(d, lv) \ {o}, U \ PagesOf(o))
  BY <1>1, <1>5, OwnersKept, Zenon
<1>13. MemInv(s, c, h, new, bf)
  <2> HIDE DEF new
  <2> QED BY <1>4, <1>7, <1>8, <1>9, <1>10, <1>11, <1>12, Zenon DEF MemInv, d
<1> QED BY <1>13 DEF new

(* bucket_for_size finds a bucket of the table, or none. *)
LEMMA BucketFound ==
  ASSUME NEW s, bucket_for_size(s) # 0
  PROVE  bucket_for_size(s) \in Buckets
<1> DEFINE fit == {b \in Buckets : s <= BucketSizes[b]}
<1>1. Buckets \in SUBSET Nat
  BY BucketAssumption DEF Buckets
<1>2. fit # {} /\ bucket_for_size(s) = CHOOSE b \in fit : \A c \in fit : b <= c
  BY Zenon DEF bucket_for_size
<1>3. \E b \in fit : \A c \in fit : b <= c
  BY <1>1, <1>2, LeastExists, Zenon
<1> QED BY <1>2, <1>3

(* pmm_init leaves a state in which nothing is handed out. *)
LEMMA MemInvInit ==
  ASSUME MemInit
  PROVE  MemInv(pmm, cache, heap, live, boot_free)
<1>1. PoolInv(pmm, boot_free)
  <2>1. FreeSet(pmm) \subseteq Managed(pmm)
    BY Zenon DEF MemInit, PmmReady, FreeSet, Managed, ClearBits
  <2> QED BY <2>1 DEF MemInit, PoolInv
<1>2. live = {} /\ LiveInv(live) /\ KindOf(live, "obj") = {} /\ KindOf(live, "buf") = {}
  BY FS_EmptySet, Zenon DEF MemInit, LiveInv, KindOf
<1>3. cache.pages = <<>> /\ cache.inuse_objects = 0 /\ IsCache(cache)
  BY Zenon DEF MemInit, slab_cache_init, IsCache
<1>4. SlabInv(<<>>, 0, {})
  BY FS_EmptySet DEF SlabInv
<1>5. /\ heap.freelist = [b \in Buckets |-> <<>>] /\ heap.hdr = [p \in {} |-> <<>>]
      /\ heap.cur_bytes = 0 /\ IsHeap(heap)
  BY Zenon DEF MemInit, kheap_init, IsHeap
<1>6. HeapInv(heap.freelist, heap.hdr, {})
  <2>1. heap.freelist \in [Buckets -> Seq(Nat)] /\ DOMAIN heap.hdr = {}
    BY <1>5
  <2>2. ASSUME NEW b \in Buckets PROVE IsInjective(heap.freelist[b]) /\ Range(heap.freelist[b]) = {}
    BY <1>5 DEF IsInjective, Range
  <2> QED BY <2>1, <2>2, Zenon DEF HeapInv
<1>7. CPages(cache.pages) = {} /\ BPages(heap.hdr) = {} /\ Whole(heap.hdr, live) = {}
  BY <1>2, <1>3, <1>5 DEF CPages, BPages, Whole
<1>8. boot_free \ FreeSet(pmm) = {}
  BY Zenon DEF MemInit
<1>9. Owners({}, {}, {}, {})
  BY Zenon DEF Owners
<1>10. Total(heap.hdr, live) = 0
  <2> DEFINE f == [o \in live |-> BytesOf(heap.hdr, o)]
             S == KindOf(live, "buf")
  <2>1. S = {} /\ IsFiniteSet(S) /\ \A x \in S : f[x] \in Nat
    BY <1>2, FS_EmptySet, Zenon
  <2> HIDE DEF f, S
  <2>2. SumOver(f, S) = 0
    BY <2>1, SumFacts, Zenon
  <2> QED BY <2>2 DEF Total, f, S
<1> QED BY <1>1, <1>2, <1>3, <1>4, <1>5, <1>6, <1>7, <1>8, <1>9, <1>10, Zenon DEF MemInv

(* The slab cache. *)
LEMMA SlabAllocStep ==
  ASSUME MemInv(pmm, cache, heap, live, boot_free), slab_alloc, UNCHANGED boot_free
  PROVE  MemInv(pmm, cache, heap, live, boot_free)'
<1> DEFINE i == FirstWithFree(cache)
           a == pmm_alloc_pages(pmm, 1)
           e == [cache EXCEPT !.pages = <<slab_page_alloc(a.pa)>> \o cache.pages]
<1>1. CASE i = 0 /\ a.pa = -1
  BY <1>1, Zenon DEF slab_alloc, memVars
<1>2. CASE i # 0
  <2>1. IsCache(cache) /\ cache.pages \in Seq(SlabPage)
    BY Zenon DEF MemInv, SlabInv
  <2>2. i \in DOMAIN cache.pages /\ cache.pages[i].freelist # <<>>
    <3>1. cache = [pages |-> cache.pages, inuse_objects |-> cache.inuse_objects]
      BY <2>1, Zenon DEF IsCache
    <3> DEFINE P == cache.pages
               n == cache.inuse_objects
    <3>2. i = FirstWithFree([pages |-> P, inuse_objects |-> n])
      BY <3>1, Zenon
    <3> HIDE DEF P, n
    <3>3. FirstWithFree([pages |-> P, inuse_objects |-> n]) # 0
            => /\ FirstWithFree([pages |-> P, inuse_objects |-> n]) \in DOMAIN P
               /\ P[FirstWithFree([pages |-> P, inuse_objects |-> n])].freelist # <<>>
      BY <2>1, SlabSearch, Zenon DEF P
    <3> HIDE DEF i
    <3> QED BY <1>2, <3>2, <3>3, Zenon DEF P
  <2> DEFINE r == SlabTake(cache, i)
  <2>3. MemInv(pmm, r.c, heap, live \cup {Obj(r.obj)}, boot_free)
    BY <2>2, ObjAlloc, Zenon
  <2>4. cache' = r.c /\ pmm' = pmm /\ live' = live \cup {Obj(r.obj)} /\ heap' = heap
    BY <1>2, Zenon DEF slab_alloc, Obj
  <2> QED BY <2>3, <2>4
<1>3. CASE i = 0 /\ a.pa # -1
  <2>1. MemInv(a.st, e, heap, live, boot_free) /\ 1 \in DOMAIN e.pages /\ e.pages[1].freelist # <<>>
    BY <1>3, CacheGrow, Zenon
  <2> DEFINE r == SlabTake(e, 1)
  <2>2. cache' = r.c /\ pmm' = a.st /\ live' = live \cup {Obj(r.obj)} /\ heap' = heap
    BY <1>3, Zenon DEF slab_alloc, Obj
  <2>3. MemInv(a.st, r.c, heap, live \cup {Obj(r.obj)}, boot_free)
    <3> HIDE DEF e
    <3> QED BY <2>1, ObjAlloc
  <2> QED BY <2>2, <2>3
<1> QED BY <1>1, <1>2, <1>3

(* An object goes back to the cache. *)
LEMMA SlabFreeStep ==
  ASSUME MemInv(pmm, cache, heap, live, boot_free), NEW o \in live, slab_free(o), UNCHANGED boot_free
  PROVE  MemInv(pmm, cache, heap, live, boot_free)'
<1> DEFINE i == PageAt(cache.pages, align_down_4k(o.pa))
           e == [pages |-> SlabPut(cache.pages, i, o.pa), inuse_objects |-> cache.inuse_objects - 1]
<1>1. /\ o.kind = "obj" /\ cache' = e /\ live' = live \ {o} /\ pmm' = pmm /\ heap' = heap
  BY Zenon DEF slab_free, SlabPut
<1>2. MemInv(pmm, e, heap, live \ {o}, boot_free)
  BY <1>1, ObjFree, Zenon
<1> QED BY <1>1, <1>2

(* A refill, then a block of the bucket if there is one. *)
LEMMA SmallStep ==
  ASSUME MemInv(pmm, cache, heap, live, boot_free), NEW b \in Buckets, KmallocSmall(b),
         UNCHANGED <<cache, boot_free>>
  PROVE  MemInv(pmm, cache, heap, live, boot_free)'
<1> DEFINE r == IF heap.freelist[b] = <<>> THEN refill_bucket(b) ELSE [h |-> heap, st |-> pmm]
           h == r.h
           e == [freelist |-> [h.freelist EXCEPT ![b] = Tail(h.freelist[b])], hdr |-> h.hdr,
                 cur_bytes |-> h.cur_bytes + BucketSizes[b]]
<1>1. MemInv(r.st, cache, h, live, boot_free)
  <2> DEFINE a == pmm_alloc_pages(pmm, 1)
             g == [freelist |-> [heap.freelist EXCEPT
                                   ![b] = FreshBlocks(a.pa, BucketSizes[b], BucketSizes[b])
                                            \o heap.freelist[b]],
                   hdr |-> SetHdr(heap.hdr, a.pa, <<"SLAB", b>>), cur_bytes |-> heap.cur_bytes]
  <2>1. CASE heap.freelist[b] # <<>> \/ a.pa = -1
    <3>1. r.h = heap /\ r.st = pmm
      BY <2>1, Zenon DEF refill_bucket
    <3> QED BY <3>1
  <2>2. CASE heap.freelist[b] = <<>> /\ a.pa # -1
    <3>1. MemInv(a.st, cache, g, live, boot_free)
      BY <2>2, BucketGrow, Zenon
    <3>2. heap = [freelist |-> heap.freelist, hdr |-> heap.hdr, cur_bytes |-> heap.cur_bytes]
      BY Zenon DEF MemInv, IsHeap
    <3>3. r.st = a.st /\ r.h = g
      BY <2>2, <3>2, Zenon DEF refill_bucket
    <3> QED BY <3>1, <3>3, Zenon
  <2> QED BY <2>1, <2>2
<1>2. pmm' = r.st /\ cache' = cache /\ boot_free' = boot_free
  BY Zenon DEF KmallocSmall
<1>3. CASE h.freelist[b] = <<>>
  <2>1. heap' = h /\ live' = live
    BY <1>3, Zenon DEF KmallocSmall
  <2> QED BY <1>1, <1>2, <2>1
<1>4. CASE h.freelist[b] # <<>>
  <2>1. /\ heap' = [h EXCEPT !.freelist[b] = Tail(h.freelist[b]),
                             !.cur_bytes = h.cur_bytes + BucketSizes[b]]
        /\ live' = live \cup {Buf(Head(h.freelist[b]), BucketSizes[b])}
    BY <1>4, Zenon DEF KmallocSmall, Buf
  <2> HIDE DEF h, r
  <2>2. h = [freelist |-> h.freelist, hdr |-> h.hdr, cur_bytes |-> h.cur_bytes]
    BY <1>1, Zenon DEF MemInv, IsHeap
  <2>3. heap' = e
    BY <2>1, <2>2, Zenon
  <2>4. MemInv(r.st, cache, e, live \cup {Buf(Head(h.freelist[b]), BucketSizes[b])}, boot_free)
    BY <1>1, <1>4, BufTake, Zenon
  <2> QED BY <1>2, <2>1, <2>3, <2>4, Zenon
<1> QED BY <1>3, <1>4

(* Pages of its own for a request no bucket fits. *)
LEMMA BigStep ==
  ASSUME MemInv(pmm, cache, heap, live, boot_free), NEW s \in Nat, KmallocBig(s),
         UNCHANGED <<cache, boot_free>>
  PROVE  MemInv(pmm, cache, heap, live, boot_free)'
<1> DEFINE n == align_up_4k(s + HDR) \div PAGE_SIZE
           a == pmm_alloc_pages(pmm, n)
           e == [freelist |-> heap.freelist, hdr |-> SetHdr(heap.hdr, a.pa, <<"BIG", n>>),
                 cur_bytes |-> heap.cur_bytes + n * PAGE_SIZE]
<1>1. n \in Nat
  BY BigPages, Zenon
<1>2. CASE a.pa = -1
  BY <1>2, Zenon DEF KmallocBig
<1>3. CASE a.pa # -1
  <2>1. heap = [freelist |-> heap.freelist, hdr |-> heap.hdr, cur_bytes |-> heap.cur_bytes]
    BY Zenon DEF MemInv, IsHeap
  <2>2. /\ pmm' = a.st /\ live' = live \cup {BigBuf(a.pa, n)}
        /\ heap' = [heap EXCEPT !.hdr = SetHdr(heap.hdr, a.pa, <<"BIG", n>>),
                                !.cur_bytes = heap.cur_bytes + n * PAGE_SIZE]
    BY <1>3, Zenon DEF KmallocBig, BigBuf, Buf
  <2> HIDE DEF n
  <2>3. heap' = e
    BY <2>1, <2>2, Zenon
  <2>4. MemInv(a.st, cache, e, live \cup {BigBuf(a.pa, n)}, boot_free)
    BY <1>1, <1>3, BigTake, Zenon
  <2> QED BY <2>2, <2>3, <2>4, Zenon
<1> QED BY <1>2, <1>3

(* A heap block goes back the way its page's header says. *)
LEMMA KfreeStep ==
  ASSUME MemInv(pmm, cache, heap, live, boot_free), NEW o \in live, kfree(o), UNCHANGED boot_free
  PROVE  MemInv(pmm, cache, heap, live, boot_free)'
<1> DEFINE p == align_down_4k(o.pa)
           h == heap.hdr[p]
           k == h[2]
<1>1. /\ o.kind = "buf" /\ live' = live \ {o} /\ cache' = cache
      /\ heap = [freelist |-> heap.freelist, hdr |-> heap.hdr, cur_bytes |-> heap.cur_bytes]
  BY Zenon DEF kfree, MemInv, IsHeap
<1>2. (\E b : h = <<"SLAB", b>>) \/ (\E n : h = <<"BIG", n>>)
  <2>1. o \in KindOf(live, "buf") /\ HeapInv(heap.freelist, heap.hdr, KindOf(live, "buf"))
    BY <1>1, Zenon DEF MemInv, KindOf
  <2>2. p \in DOMAIN heap.hdr
    BY <2>1, BufHome, Zenon
  <2> QED BY <2>1, <2>2, Zenon DEF HeapInv, HdrOK
<1>3. CASE h[1] = "SLAB"
  <2> DEFINE e == [freelist |-> [heap.freelist EXCEPT ![k] = <<o.pa>> \o heap.freelist[k]],
                   hdr |-> heap.hdr, cur_bytes |-> AccountFree(heap.cur_bytes, BucketSizes[k])]
  <2>1. h = <<"SLAB", k>>
    BY <1>2, <1>3
  <2>2. /\ pmm' = pmm
        /\ heap' = [heap EXCEPT !.freelist[k] = <<o.pa>> \o heap.freelist[k],
                                !.cur_bytes = AccountFree(heap.cur_bytes, BucketSizes[k])]
    BY <1>3, Zenon DEF kfree
  <2>3. heap' = e
    <3> HIDE DEF k
    <3> QED BY <1>1, <2>2, Zenon
  <2>4. MemInv(pmm, cache, e, live \ {o}, boot_free)
    <3> HIDE DEF k
    <3> QED BY <1>1, <2>1, BufPut, Zenon
  <2> QED BY <1>1, <2>2, <2>3, <2>4, Zenon
<1>4. CASE h[1] = "BIG"
  <2> DEFINE e == [freelist |-> heap.freelist, hdr |-> Wiped(heap.hdr, p),
                   cur_bytes |-> AccountFree(heap.cur_bytes, k * PAGE_SIZE)]
  <2>1. h = <<"BIG", k>>
    BY <1>2, <1>4
  <2>2. /\ pmm' = kheap_free_pages(pmm, p, k)
        /\ heap' = [heap EXCEPT !.hdr = Wiped(heap.hdr, p),
                                !.cur_bytes = AccountFree(heap.cur_bytes, k * PAGE_SIZE)]
    BY <1>4, Zenon DEF kfree, Wiped
  <2>3. heap' = e
    <3> HIDE DEF k
    <3> QED BY <1>1, <2>2, Zenon
  <2>4. MemInv(kheap_free_pages(pmm, p, k), cache, e, live \ {o}, boot_free)
    <3> HIDE DEF k
    <3> QED BY <1>1, <2>1, BigGive DEF Wiped
  <2> QED BY <1>1, <2>2, <2>3, <2>4, Zenon
<1> QED BY <1>3, <1>4 DEF kfree

(* The inductive invariant: every step of the allocators keeps it. *)
LEMMA MemInvStep ==
  ASSUME MemInv(pmm, cache, heap, live, boot_free), [MemNext]_<<memVars, boot_free>>
  PROVE  MemInv(pmm, cache, heap, live, boot_free)'
<1>1. CASE UNCHANGED <<memVars, boot_free>>
  BY <1>1, Zenon DEF memVars
<1>2. ASSUME MemNext PROVE MemInv(pmm, cache, heap, live, boot_free)'
  <2>1. boot_free' = boot_free
    BY <1>2, Zenon DEF MemNext
  <2>2. CASE slab_alloc
    BY <2>1, <2>2, SlabAllocStep, Zenon
  <2>3. ASSUME NEW o \in live, slab_free(o) PROVE MemInv(pmm, cache, heap, live, boot_free)'
    BY <2>1, <2>3, SlabFreeStep, Zenon
  <2>4. ASSUME NEW s \in Sizes, kmalloc(s) PROVE MemInv(pmm, cache, heap, live, boot_free)'
    <3>1. s \in Nat /\ cache' = cache
      BY <2>4, SizesAssumption, Zenon DEF kmalloc
    <3>2. CASE bucket_for_size(s) # 0
      <4>1. bucket_for_size(s) \in Buckets /\ KmallocSmall(bucket_for_size(s))
        BY <2>4, <3>2, BucketFound, Zenon DEF kmalloc
      <4> QED BY <2>1, <3>1, <4>1, SmallStep
    <3>3. CASE bucket_for_size(s) = 0
      <4>1. KmallocBig(s)
        BY <2>4, <3>3, Zenon DEF kmalloc
      <4> QED BY <2>1, <3>1, <4>1, BigStep
    <3> QED BY <3>2, <3>3
  <2>5. ASSUME NEW o \in live, kfree(o) PROVE MemInv(pmm, cache, heap, live, boot_free)'
    BY <2>1, <2>5, KfreeStep, Zenon
  <2>6. ASSUME NEW n \in Counts, kheap_alloc_pages(n) PROVE MemInv(pmm, cache, heap, live, boot_free)'
    <3> DEFINE a == pmm_alloc_pages(pmm, n)
               o == [kind |-> "run", pa |-> a.pa, size |-> n * PAGE_SIZE]
    <3>1. CASE a.pa = -1
      BY <2>1, <2>6, <3>1, Zenon DEF kheap_alloc_pages, memVars
    <3>2. CASE a.pa # -1
      <4>1. pmm' = a.st /\ live' = live \cup {o} /\ cache' = cache /\ heap' = heap
        BY <2>6, <3>2, Zenon DEF kheap_alloc_pages
      <4>2. MemInv(a.st, cache, heap, live \cup {o}, boot_free)
        BY <3>2, RunTake, SizesAssumption, Zenon
      <4> QED BY <2>1, <4>1, <4>2
    <3> QED BY <3>1, <3>2
  <2>7. ASSUME NEW o \in live, FreeRunOf(o) PROVE MemInv(pmm, cache, heap, live, boot_free)'
    <3>1. MemInv(kheap_free_pages(pmm, o.pa, o.size \div PAGE_SIZE), cache, heap, live \ {o}, boot_free)
      BY <2>7, RunGive, Zenon DEF FreeRunOf
    <3> QED BY <2>1, <2>7, <3>1 DEF FreeRunOf
  <2> QED BY <1>2, <2>2, <2>3, <2>4, <2>5, <2>6, <2>7 DEF MemNext
<1> QED BY <1>1, <1>2

MemoryInv == MemInv(pmm, cache, heap, live, boot_free)

(* The invariant holds of every sequence of calls to the allocators, for all  *)
(* page, object and bucket sizes and every memory pmm_init may leave.         *)
THEOREM MemoryInvariant == MemSpec => []MemoryInv
<1>1. MemInit => MemoryInv
  BY MemInvInit, Zenon DEF MemoryInv
<1>2. MemoryInv /\ [MemNext]_<<memVars, boot_free>> => MemoryInv'
  BY MemInvStep, Zenon DEF MemoryInv
<1> QED BY <1>1, <1>2, PTL DEF MemSpec

(* Of the pages that were free at boot, each is free, or has exactly one      *)
(* owner: the slab cache, a bucket of kmalloc, or one live allocation.        *)
THEOREM PagesHaveOneOwner == MemSpec => []EveryPageHasOneOwner
<1>1. MemoryInv => EveryPageHasOneOwner
  <2>1. CachePages = CPages(cache.pages) /\ BucketPages = BPages(heap.hdr)
    BY Zenon DEF CachePages, CPages, BucketPages, BPages
  <2>2. RunsOf = Whole(heap.hdr, live)
    BY <2>1, Zenon DEF RunsOf, Whole
  <2> QED BY <2>1, <2>2, Zenon DEF MemoryInv, MemInv, Owners, EveryPageHasOneOwner
<1> QED BY <1>1, MemoryInvariant, PTL

(* ------------------------- memory is never shared -------------------------- *)

(* Where a live allocation is: in a page of the cache, in a page of a bucket, *)
(* or in pages of its own.                                                    *)
LEMMA LiveKinds ==
  ASSUME NEW st, NEW c, NEW h, NEW lv, NEW bf, MemInv(st, c, h, lv, bf), NEW o \in lv
  PROVE  \/ o \in KindOf(lv, "obj") /\ o = Obj(o.pa) /\ InCache(c.pages, o)
         \/ IsSmall(h.freelist, h.hdr, o) /\ InHeap(h.hdr, o)
         \/ o \in Whole(h.hdr, lv) /\ Inside(o, PagesOf(o))
<1> DEFINE P == c.pages
           f == h.freelist
           d == h.hdr
<1>1. /\ SlabInv(P, c.inuse_objects, KindOf(lv, "obj")) /\ HeapInv(f, d, KindOf(lv, "buf"))
      /\ KindOK(o)
  BY Zenon DEF MemInv, LiveInv
<1>2. CASE o.kind = "obj"
  <2>1. o \in KindOf(lv, "obj")
    BY <1>2, Zenon DEF KindOf
  <2>2. o = Obj(o.pa) /\ \E i \in DOMAIN P : o.pa \in ObjBlocks(P[i].pa)
    BY <1>1, <2>1, Zenon DEF SlabInv
  <2>3. PICK i \in DOMAIN P : o.pa \in ObjBlocks(P[i].pa)
    BY <2>2, Zenon
  <2>4. P[i] \in SlabPage /\ P[i].pa % PAGE_SIZE = 0
    BY <1>1, CachePage, Zenon
  <2>5. P[i].pa \in Nat /\ P[i].pa \in CPages(P)
    BY <2>4, Zenon DEF SlabPage, CPages
  <2>6. o.size = OBJ_SIZE
    BY <2>2 DEF Obj
  <2>7. InCache(P, o)
    BY <2>3, <2>4, <2>5, <2>6, Zenon DEF InCache, Cell
  <2> QED BY <2>1, <2>2, <2>7
<1>3. CASE o.kind = "buf"
  <2>1. o \in KindOf(lv, "buf")
    BY <1>3, Zenon DEF KindOf
  <2>2. CASE IsSmall(f, d, o)
    <3>1. PICK b \in Buckets : InBucket(d, o.pa, b) /\ o = Buf(o.pa, BucketSizes[b])
      BY <2>2, Zenon DEF IsSmall
    <3>2. o.size = BucketSizes[b]
      BY <3>1 DEF Buf
    <3> QED BY <1>1, <2>2, <3>1, <3>2, BucketCell, Zenon
  <2>3. CASE IsBig(d, o)
    <3>1. PICK n \in Nat \ {0} : /\ align_down_4k(o.pa) \in DOMAIN d
                                 /\ d[align_down_4k(o.pa)] = <<"BIG", n>>
                                 /\ o = BigBuf(align_down_4k(o.pa), n)
      BY <2>3, Zenon DEF IsBig
    <3>2. align_down_4k(o.pa) \in Nat
      BY <1>1, <3>1, Zenon DEF HeapInv, HdrOK
    <3>3. o \in Whole(d, lv)
      BY <1>3, <3>1 DEF Whole, BPages
    <3>4. o.pa \in Nat /\ o.size \in Int
      <4> DEFINE p == align_down_4k(o.pa)
      <4>1. o = BigBuf(p, n) /\ p \in Nat
        BY <3>1, <3>2, Zenon
      <4> HIDE DEF p
      <4>2. o.pa = p + HDR /\ o.size = n * PAGE_SIZE - HDR
        BY <4>1, Zenon DEF BigBuf, Buf
      <4> QED BY <4>1, <4>2, PageAssumption DEF HDR
    <3> QED BY <3>3, <3>4, InItsPages
  <2> QED BY <1>1, <2>1, <2>2, <2>3, Zenon DEF HeapInv
<1>4. CASE o.kind = "run"
  <2>1. o \in Whole(d, lv)
    BY <1>4, Zenon DEF Whole
  <2>2. o.pa \in Nat /\ o.size \in Int
    BY <1>1, <1>4, PageAssumption DEF KindOK, RunOK
  <2> QED BY <2>1, <2>2, InItsPages
<1> QED BY <1>1, <1>2, <1>3, <1>4 DEF KindOK

(* The memory of one allocation with pages of its own is apart from that of   *)
(* every other and from the pages of the cache and the buckets.               *)
LEMMA WholeApart ==
  ASSUME NEW C, NEW B, NEW W, NEW U, Owners(C, B, W, U), NEW o \in W, Inside(o, PagesOf(o)), NEW q
  PROVE  /\ q \in W /\ q # o /\ Inside(q, PagesOf(q)) => Apart(o, q) /\ Apart(q, o)
         /\ Inside(q, C) \/ Inside(q, B) => Apart(o, q) /\ Apart(q, o)
<1>1. PagesOf(o) \cap C = {} /\ PagesOf(o) \cap B = {}
  BY Zenon DEF Owners
<1>2. q \in W /\ q # o => PagesOf(o) \cap PagesOf(q) = {}
  BY Zenon DEF Owners
<1> DEFINE S == PagesOf(o)
           T == PagesOf(q)
<1>3. S \cap C = {} /\ C \cap S = {} /\ S \cap B = {} /\ B \cap S = {}
  BY <1>1, Zenon
<1>4. q \in W /\ q # o => S \cap T = {} /\ T \cap S = {}
  BY <1>2, Zenon
<1> HIDE DEF S, T
<1>5. Inside(o, S) /\ (Inside(q, PagesOf(q)) => Inside(q, T))
  BY Zenon DEF S, T
<1> QED BY <1>3, <1>4, <1>5, ApartPages

(* Two live allocations share no memory. *)
LEMMA LiveApart ==
  ASSUME NEW st, NEW c, NEW h, NEW lv, NEW bf, MemInv(st, c, h, lv, bf),
         NEW o \in lv, NEW q \in lv, o # q
  PROVE  Apart(o, q)
<1> DEFINE P == c.pages
           f == h.freelist
           d == h.hdr
           W == Whole(d, lv)
           C == CPages(P)
           B == BPages(d)
           U == bf \ FreeSet(st)
<1>1. Owners(C, B, W, U) /\ C \cap B = {} /\ B \cap C = {}
  BY Zenon DEF MemInv, Owners
<1>2. \/ o = Obj(o.pa) /\ InCache(P, o)
      \/ IsSmall(f, d, o) /\ InHeap(d, o)
      \/ o \in W /\ Inside(o, PagesOf(o))
  BY LiveKinds, Zenon
<1>3. \/ q = Obj(q.pa) /\ InCache(P, q)
      \/ IsSmall(f, d, q) /\ InHeap(d, q)
      \/ q \in W /\ Inside(q, PagesOf(q))
  BY LiveKinds, Zenon
<1> HIDE DEF P, f, d, W, C, B, U
<1>4. (InCache(P, o) => Inside(o, C)) /\ (InCache(P, q) => Inside(q, C))
  BY CacheCells, Zenon DEF C
<1>5. (InHeap(d, o) => Inside(o, B)) /\ (InHeap(d, q) => Inside(q, B))
  BY HeapCells, Zenon DEF B
<1>6. CASE o \in W /\ Inside(o, PagesOf(o))
  BY <1>1, <1>3, <1>4, <1>5, <1>6, WholeApart
<1>7. CASE q \in W /\ Inside(q, PagesOf(q))
  BY <1>1, <1>2, <1>4, <1>5, <1>7, WholeApart, Zenon
<1>8. CASE o = Obj(o.pa) /\ InCache(P, o)
  <2>1. CASE q = Obj(q.pa) /\ InCache(P, q)
    <3>1. o.pa # q.pa
      BY <1>8, <2>1, Zenon
    <3> QED BY <1>8, <2>1, <3>1, CacheCells
  <2>2. CASE InHeap(d, q)
    BY <1>1, <1>4, <1>5, <1>8, <2>2, ApartPages, Zenon
  <2> QED BY <1>3, <1>7, <2>1, <2>2
<1>9. CASE IsSmall(f, d, o) /\ InHeap(d, o)
  <2>1. CASE InCache(P, q)
    BY <1>1, <1>4, <1>5, <1>9, <2>1, ApartPages, Zenon
  <2>2. CASE IsSmall(f, d, q) /\ InHeap(d, q)
    <3>1. o.pa # q.pa
      <4> SUFFICES ASSUME o.pa = q.pa PROVE FALSE
        BY Zenon
      <4>1. PICK b \in Buckets : InBucket(d, o.pa, b) /\ o = Buf(o.pa, BucketSizes[b])
        BY <1>9, Zenon DEF IsSmall
      <4>2. PICK k \in Buckets : InBucket(d, q.pa, k) /\ q = Buf(q.pa, BucketSizes[k])
        BY <2>2, Zenon DEF IsSmall
      <4>3. b = k
        BY <4>1, <4>2 DEF InBucket
      <4> QED BY <4>1, <4>2, <4>3
    <3> QED BY <1>9, <2>2, <3>1, HeapCells
  <2> QED BY <1>3, <1>7, <2>1, <2>2
<1> QED BY <1>2, <1>6, <1>8, <1>9

(* No live allocation is on a free list of the cache. *)
LEMMA FreeObjApart ==
  ASSUME NEW st, NEW c, NEW h, NEW lv, NEW bf, MemInv(st, c, h, lv, bf),
         NEW o \in lv, NEW i \in DOMAIN c.pages, NEW q,
         q.pa \in Range(c.pages[i].freelist), q.size = OBJ_SIZE
  PROVE  Apart(o, q)
<1> DEFINE P == c.pages
           d == h.hdr
           W == Whole(d, lv)
           C == CPages(P)
           B == BPages(d)
           U == bf \ FreeSet(st)
<1>1. Owners(C, B, W, U) /\ C \cap B = {} /\ B \cap C = {}
  BY Zenon DEF MemInv, Owners
<1>2. P[i] \in SlabPage /\ P[i].pa \in Nat /\ PageOK(P[i], KindOf(lv, "obj"))
  BY CachePage, Zenon DEF MemInv
<1>3. InCache(P, q)
  <2>1. P[i].pa \in Nat /\ P[i].pa \in C
    BY <1>2, Zenon DEF CPages
  <2>2. P[i].pa % PAGE_SIZE = 0 /\ q.pa \in ObjBlocks(P[i].pa)
    BY <1>2, Zenon DEF PageOK
  <2> QED BY <2>1, <2>2, Zenon DEF InCache, Cell
<1>4. o \in KindOf(lv, "obj") => o.pa # q.pa
  BY <1>2, Zenon DEF PageOK
<1>5. \/ o \in KindOf(lv, "obj") /\ InCache(P, o)
      \/ InHeap(d, o)
      \/ o \in W /\ Inside(o, PagesOf(o))
  BY LiveKinds, Zenon
<1> HIDE DEF P, d, W, C, B, U
<1>6. Inside(q, C)
  BY <1>3, CacheCells, Zenon DEF C
<1>7. CASE o \in KindOf(lv, "obj") /\ InCache(P, o)
  BY <1>3, <1>4, <1>7, CacheCells, Zenon
<1>8. CASE InHeap(d, o)
  <2>1. Inside(o, B)
    BY <1>8, HeapCells, Zenon DEF B
  <2> QED BY <1>1, <1>6, <2>1, ApartPages
<1>9. CASE o \in W /\ Inside(o, PagesOf(o))
  BY <1>1, <1>6, <1>9, WholeApart, Zenon
<1> QED BY <1>5, <1>7, <1>8, <1>9

(* Nor on a free list of the heap. *)
LEMMA FreeBufApart ==
  ASSUME NEW st, NEW c, NEW h, NEW lv, NEW bf, MemInv(st, c, h, lv, bf),
         NEW o \in lv, NEW b \in Buckets, NEW q,
         q.pa \in Range(h.freelist[b]), q.size = BucketSizes[b]
  PROVE  Apart(o, q)
<1> DEFINE P == c.pages
           f == h.freelist
           d == h.hdr
           W == Whole(d, lv)
           C == CPages(P)
           B == BPages(d)
           U == bf \ FreeSet(st)
<1>1. Owners(C, B, W, U) /\ C \cap B = {} /\ B \cap C = {}
  BY Zenon DEF MemInv, Owners
<1>2. HeapInv(f, d, KindOf(lv, "buf")) /\ q.pa \in Range(f[b])
  BY Zenon DEF MemInv
<1>3. \/ InCache(P, o)
      \/ IsSmall(f, d, o) /\ InHeap(d, o)
      \/ o \in W /\ Inside(o, PagesOf(o))
  BY LiveKinds, Zenon
<1> HIDE DEF P, f, d, W, C, B, U
<1>4. InBucket(d, q.pa, b)
  BY <1>2, Zenon DEF HeapInv
<1>5. InHeap(d, q)
  BY <1>2, <1>4, BucketCell, Zenon
<1>6. Inside(q, B)
  BY <1>5, HeapCells, Zenon DEF B
<1>7. CASE InCache(P, o)
  <2>1. Inside(o, C)
    BY <1>7, CacheCells, Zenon DEF C
  <2> QED BY <1>1, <1>6, <2>1, ApartPages
<1>8. CASE IsSmall(f, d, o) /\ InHeap(d, o)
  <2>1. o.pa # q.pa
    <3>1. PICK k \in Buckets : InBucket(d, o.pa, k) /\ o.pa \notin Range(f[k])
      BY <1>8, Zenon DEF IsSmall
    <3>2. o.pa = q.pa => k = b
      BY <1>4, <3>1 DEF InBucket
    <3> QED BY <1>2, <3>1, <3>2
  <2> QED BY <1>5, <1>8, <2>1, HeapCells
<1>9. CASE o \in W /\ Inside(o, PagesOf(o))
  BY <1>1, <1>6, <1>9, WholeApart, Zenon
<1> QED BY <1>3, <1>7, <1>8, <1>9, Zenon

(* No live allocation covers the header of a page. *)
LEMMA HeadersApart ==
  ASSUME NEW st, NEW c, NEW h, NEW lv, NEW bf, MemInv(st, c, h, lv, bf),
         NEW o \in lv, NEW u \in CPages(c.pages) \cup DOMAIN h.hdr
  PROVE  u \notin Units(o)
<1> DEFINE P == c.pages
           d == h.hdr
           W == Whole(d, lv)
<1> SUFFICES ASSUME u \in Units(o) PROVE FALSE
  BY Zenon
<1>1. /\ Owners(CPages(P), BPages(d), W, bf \ FreeSet(st))
      /\ \A p \in DOMAIN d : HdrOK(d, KindOf(lv, "buf"), p)
      /\ \A i \in DOMAIN P : P[i] \in SlabPage /\ P[i].pa % PAGE_SIZE = 0
  BY CachePage, Zenon DEF MemInv, HeapInv
<1>2. u \in Nat /\ u % PAGE_SIZE = 0
  BY <1>1, Zenon DEF CPages, SlabPage, HdrOK
<1>3. align_down_4k(u) = u
  <2>1. PAGE_SIZE \in Nat /\ PAGE_SIZE > 0
    BY PageAssumption
  <2>2. 0 \in 0..(PAGE_SIZE - 1) /\ u + 0 = u
    BY <1>2, <2>1
  <2>3. align_down_4k(u + 0) = u
    BY <1>2, <2>2, BlockPage, Zenon
  <2> QED BY <2>2, <2>3
<1>4. \/ InCache(P, o)
      \/ InHeap(d, o)
      \/ o \in W /\ Inside(o, PagesOf(o))
  BY LiveKinds, Zenon
<1>5. ~InCache(P, o) /\ ~InHeap(d, o)
  BY <1>3, CacheCells, HeapCells, Zenon
<1>6. o \in W /\ u \in PagesOf(o)
  BY <1>3, <1>4, <1>5, Zenon DEF Inside
<1>7. u \notin CPages(P) /\ u \notin BPages(d)
  BY <1>1, <1>6, Zenon DEF Owners
<1>8. u \in DOMAIN d /\ ~(\E b \in Buckets : d[u] = <<"SLAB", b>>)
  BY <1>7 DEF BPages
<1>9. PICK n \in Nat \ {0} : d[u] = <<"BIG", n>> /\ BigBuf(u, n) \in KindOf(lv, "buf")
  BY <1>1, <1>8, Zenon DEF HdrOK
<1> DEFINE q == BigBuf(u, n)
<1>10. align_down_4k(q.pa) = u /\ q.pa = u + HDR
  BY <1>2, BigHome, Zenon
<1>11. q \in W
  BY <1>7, <1>9, <1>10, Zenon DEF Whole, KindOf
<1>12. u \in PagesOf(q)
  BY <1>2, WholePages, Zenon
<1>13. o = q
  <2> HIDE DEF q
  <2> QED BY <1>1, <1>6, <1>11, <1>12, Zenon DEF Owners
<1>14. o.pa = u + 1
  BY <1>10, <1>13, Zenon DEF HDR
<1> HIDE DEF q
<1>15. o.size \in Int
  <2>1. o.size = n * PAGE_SIZE - HDR
    BY <1>13, Zenon DEF q, BigBuf, Buf
  <2> QED BY <2>1, PageAssumption DEF HDR
<1> QED BY <1>2, <1>14, <1>15 DEF Units

(* Two live allocations never overlap, none lies on a free list or over the   *)
(* header of a page, slab_free never panics on a live object, and the heap's  *)
(* byte count is that of its live blocks: after every sequence of calls, for  *)
(* all page, object and bucket sizes.                                         *)
THEOREM AllocationsAreDisjoint == MemSpec => []AllocationsDisjoint
<1>1. ASSUME MemoryInv PROVE AllocationsDisjoint
  <2>1. MemInv(pmm, cache, heap, live, boot_free)
    BY <1>1, Zenon DEF MemoryInv
  <2>2. ASSUME NEW o \in live PROVE Units(o) \cap Headers = {}
    BY <2>1, HeadersApart, Zenon DEF Headers, CachePages, CPages
  <2>3. ASSUME NEW o \in live, NEW q \in live \ {o} PROVE Units(o) \cap Units(q) = {}
    BY <2>1, LiveApart, Zenon DEF Apart
  <2>4. ASSUME NEW o \in live, NEW q \in FreeBlocks PROVE Units(o) \cap Units(q) = {}
    <3>1. \/ \E i \in DOMAIN cache.pages : q.pa \in Range(cache.pages[i].freelist) /\ q.size = OBJ_SIZE
          \/ \E b \in Buckets : q.pa \in Range(heap.freelist[b]) /\ q.size = BucketSizes[b]
      BY DEF FreeBlocks, Range, Range
    <3>2. Apart(o, q)
      BY <2>1, <3>1, FreeObjApart, FreeBufApart, Zenon
    <3> QED BY <3>2 DEF Apart
  <2>5. ASSUME NEW o \in live, o.kind = "obj" PROVE ~SlabPanics(o)
    <3> DEFINE i == PageAt(cache.pages, align_down_4k(o.pa))
    <3>1. i # 0 /\ cache.pages[i].inuse # 0 /\ cache.inuse_objects # 0
      BY <2>1, <2>5, ObjFree, Zenon
    <3> QED BY <3>1 DEF SlabPanics
  <2>6. heap.cur_bytes = SumOver([o \in live |-> Bytes(o)], {o \in live : o.kind = "buf"})
    <3>1. BucketPages = BPages(heap.hdr)
      BY Zenon DEF BucketPages, BPages
    <3>2. \A o : Bytes(o) = BytesOf(heap.hdr, o)
      BY <3>1, Zenon DEF Bytes, BytesOf
    <3>3. [o \in live |-> Bytes(o)] = [o \in live |-> BytesOf(heap.hdr, o)]
      BY <3>2, Zenon
    <3>4. {o \in live : o.kind = "buf"} = KindOf(live, "buf")
      BY Zenon DEF KindOf
    <3>5. heap.cur_bytes = Total(heap.hdr, live)
      BY <2>1, Zenon DEF MemInv
    <3> QED BY <3>3, <3>4, <3>5, Zenon DEF Total
  <2> QED BY <2>2, <2>3, <2>4, <2>5, <2>6 DEF AllocationsDisjoint
<1> QED BY <1>1, MemoryInvariant, PTL
===============================================================================
