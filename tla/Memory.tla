-------------------------------- MODULE Memory --------------------------------
(* The run-time allocators over the page allocator: a slab cache              *)
(* (slab_cache.c) and the bucket heap (kheap.c).  Addresses are physical, in  *)
(* the units of Platform; a header takes one unit.  Every call is one step:   *)
(* the code asserts thread context and takes no lock, so what is said here    *)
(* holds while no second thread preempts the caller inside a call.            *)
EXTENDS Integers, Sequences, FiniteSets, Pmm, Sums

CONSTANTS
  BucketSizes,   \* g_bucket_sizes, ascending
  OBJ_SIZE,      \* object size of the cache, a multiple of OBJ_ALIGN
  OBJ_ALIGN,     \* obj_align
  Sizes,         \* the sizes asked of kmalloc
  Counts,        \* the page counts asked of kheap_alloc_pages
  MaxLive        \* bound: allocations alive at once

ASSUME SizesAssumption == Sizes \subseteq Nat /\ Counts \subseteq Nat

HDR == 1
Buckets == DOMAIN BucketSizes
AlignUp(x, a) == ((x + a - 1) \div a) * a

(* slab_cache_init panics on an empty object, on an alignment that is not a   *)
(* power of two, and when the header and one object do not fit in a page.     *)
ASSUME SlabAssumption ==
  /\ OBJ_SIZE \in Nat \ {0} /\ OBJ_ALIGN \in Nat \ {0}
  /\ PAGE_SIZE % OBJ_ALIGN = 0
  /\ AlignUp(HDR, OBJ_ALIGN) + OBJ_SIZE <= PAGE_SIZE

ASSUME BucketAssumption == BucketSizes \in Seq(Nat \ {0})

VARIABLES
  pmm,       \* pmm_state_t
  cache,     \* a slab_cache_t: its pages, newest first, and inuse_objects
  heap,      \* g_freelist, the page headers and g_kheap_cur_bytes
  live,      \* ghost: the allocations handed out, [kind, pa, size]
  boot_free  \* ghost: the pages that were free when pmm_init returned

memVars == <<pmm, cache, heap, live>>

(* Mutant: the first block starts at the page, over its header. *)
FreshBlocksNoHeader(pa, bs, al) ==
  LET n == PAGE_SIZE \div bs IN [i \in 1..n |-> pa + (n - i) * bs]

(* The addresses of the blocks of bs units in a page, as the push-front loops *)
(* leave them: the last one first.  A bucket aligns to the block size, a      *)
(* cache to its obj_align.                                                    *)
FreshBlocks(pa, bs, al) ==
  LET first == AlignUp(pa + HDR, al)
      n == (pa + PAGE_SIZE - first) \div bs
  IN [i \in 1..n |-> first + (n - i) * bs]

(* --------------------------------- slab cache ----------------------------- *)

slab_cache_init == [pages |-> <<>>, inuse_objects |-> 0]

(* Hands out the first object of page i of the list. *)
SlabTake(c, i) ==
  [obj |-> Head(c.pages[i].freelist),
   c |-> [pages |-> [c.pages EXCEPT ![i].freelist = Tail(@), ![i].inuse = @ + 1],
          inuse_objects |-> c.inuse_objects + 1]]

slab_page_alloc(pa) == [pa |-> pa, freelist |-> FreshBlocks(pa, OBJ_SIZE, OBJ_ALIGN), inuse |-> 0]

(* The searches along the list of pages; 0 when there is none. *)
FirstOf(I) == IF I = {} THEN 0 ELSE Min(I)
FirstWithFree(c) == FirstOf({i \in DOMAIN c.pages : c.pages[i].freelist # <<>>})
PageAt(pages, pa) == FirstOf({i \in DOMAIN pages : pages[i].pa = pa})

slab_alloc ==
  LET i == FirstWithFree(cache)
      a == pmm_alloc_pages(pmm, 1)
      r == IF i # 0 THEN SlabTake(cache, i)
           ELSE SlabTake([cache EXCEPT !.pages = <<slab_page_alloc(a.pa)>> \o @], 1)
  IN /\ Cardinality(live) < MaxLive
     /\ IF i = 0 /\ a.pa = -1 THEN UNCHANGED memVars
        ELSE /\ cache' = r.c
             /\ pmm' = IF i = 0 THEN a.st ELSE pmm
             /\ live' = live \cup {[kind |-> "obj", pa |-> r.obj, size |-> OBJ_SIZE]}
             /\ UNCHANGED heap

(* The panics of slab_free: a foreign page, an empty page, an empty cache. *)
SlabPanics(o) ==
  LET i == PageAt(cache.pages, align_down_4k(o.pa))
  IN i = 0 \/ cache.pages[i].inuse = 0 \/ cache.inuse_objects = 0

slab_free(o) ==
  LET i == PageAt(cache.pages, align_down_4k(o.pa))
  IN /\ o.kind = "obj"
     /\ ~SlabPanics(o)
     /\ cache' = [pages |-> [cache.pages EXCEPT ![i].freelist = <<o.pa>> \o @,
                                                ![i].inuse = @ - 1],
                  inuse_objects |-> cache.inuse_objects - 1]
     /\ live' = live \ {o}
     /\ UNCHANGED <<pmm, heap>>

(* ------------------------------- bucket heap ------------------------------ *)

kheap_init == [freelist |-> [b \in Buckets |-> <<>>], hdr |-> [p \in {} |-> <<>>],
               cur_bytes |-> 0]

SetHdr(hdr, pa, h) == [p \in DOMAIN hdr \cup {pa} |-> IF p = pa THEN h ELSE hdr[p]]

bucket_for_size(size) ==
  LET fit == {b \in Buckets : size <= BucketSizes[b]}
  IN IF fit = {} THEN 0 ELSE CHOOSE b \in fit : \A c \in fit : b <= c

(* The heap and the allocator after a refill, unchanged when no page is left. *)
refill_bucket(b) ==
  LET a == pmm_alloc_pages(pmm, 1)
  IN IF a.pa = -1 THEN [h |-> heap, st |-> pmm]
     ELSE [h |-> [heap EXCEPT !.hdr = SetHdr(@, a.pa, <<"SLAB", b>>),
                              !.freelist[b] = FreshBlocks(a.pa, BucketSizes[b], BucketSizes[b]) \o @],
           st |-> a.st]

KmallocSmall(b) ==
  LET r == IF heap.freelist[b] = <<>> THEN refill_bucket(b) ELSE [h |-> heap, st |-> pmm]
  IN /\ pmm' = r.st
     /\ IF r.h.freelist[b] = <<>> THEN heap' = r.h /\ live' = live
        ELSE /\ heap' = [r.h EXCEPT !.freelist[b] = Tail(@), !.cur_bytes = @ + BucketSizes[b]]
             /\ live' = live \cup {[kind |-> "buf", pa |-> Head(r.h.freelist[b]),
                                    size |-> BucketSizes[b]]}

KmallocBig(size) ==
  LET n == align_up_4k(size + HDR) \div PAGE_SIZE
      a == pmm_alloc_pages(pmm, n)
  IN IF a.pa = -1 THEN UNCHANGED <<pmm, heap, live>>
     ELSE /\ pmm' = a.st
          /\ heap' = [heap EXCEPT !.hdr = SetHdr(@, a.pa, <<"BIG", n>>),
                                  !.cur_bytes = @ + n * PAGE_SIZE]
          /\ live' = live \cup {[kind |-> "buf", pa |-> a.pa + HDR,
                                 size |-> n * PAGE_SIZE - HDR]}

kmalloc(size) ==
  /\ Cardinality(live) < MaxLive
  /\ IF bucket_for_size(size) # 0 THEN KmallocSmall(bucket_for_size(size))
                                  ELSE KmallocBig(size)
  /\ UNCHANGED cache

(* Mutant: only the first page of a run goes back. *)
kheap_free_first_page(st, pa, n) == FreePages(st, {align_down_4k(pa)})

kheap_free_pages(st, pa, n) ==
  FreePages(st, {align_down_4k(pa) + i * PAGE_SIZE : i \in 0..(n - 1)})

AccountFree(cur, bytes) == IF cur >= bytes THEN cur - bytes ELSE 0

(* The header at the base of the page tells which way the pointer goes back;  *)
(* the poison of a big block wipes that header with the rest of its pages.    *)
(* (A pointer into a page without a header is ignored; no caller has one.)    *)
kfree(o) ==
  LET page == align_down_4k(o.pa)
      h == heap.hdr[page]
  IN /\ o.kind = "buf"
     /\ \/ /\ h[1] = "SLAB"
           /\ heap' = [heap EXCEPT !.freelist[h[2]] = <<o.pa>> \o @,
                                   !.cur_bytes = AccountFree(@, BucketSizes[h[2]])]
           /\ UNCHANGED pmm
        \/ /\ h[1] = "BIG"
           /\ heap' = [heap EXCEPT !.hdr = [p \in DOMAIN @ \ {page} |-> @[p]],
                                   !.cur_bytes = AccountFree(@, h[2] * PAGE_SIZE)]
           /\ pmm' = kheap_free_pages(pmm, page, h[2])
     /\ live' = live \ {o}
     /\ UNCHANGED cache

(* The page-granular interface (thread stacks, bounce buffers, virtqueues). *)
kheap_alloc_pages(n) ==
  LET a == pmm_alloc_pages(pmm, n)
  IN /\ Cardinality(live) < MaxLive
     /\ IF a.pa = -1 THEN UNCHANGED memVars
        ELSE /\ pmm' = a.st
             /\ live' = live \cup {[kind |-> "run", pa |-> a.pa, size |-> n * PAGE_SIZE]}
             /\ UNCHANGED <<cache, heap>>

FreeRunOf(o) ==
  /\ o.kind = "run"
  /\ pmm' = kheap_free_pages(pmm, o.pa, o.size \div PAGE_SIZE)
  /\ live' = live \ {o}
  /\ UNCHANGED <<cache, heap>>

MemNext ==
  /\ \/ slab_alloc
     \/ \E o \in live : slab_free(o)
     \/ \E s \in Sizes : kmalloc(s)
     \/ \E o \in live : kfree(o)
     \/ \E n \in Counts : kheap_alloc_pages(n)
     \/ \E o \in live : FreeRunOf(o)
  /\ UNCHANGED boot_free

(* The addresses of the free pages, and of the allocator's metadata. *)
FreeSet(st) == {page_pa(st, i) : i \in ClearBits(st)}
IsMeta(st, pa) ==
  pa >= st.meta_base_pa /\ pa < st.meta_base_pa + PMM_METADATA_PAGES * PAGE_SIZE

(* The state pmm_init leaves: any bitmap over a window of whole pages whose   *)
(* clear bits have been counted, and in which the metadata is reserved.       *)
PmmReady(st) ==
  /\ st \in [base_pa : Nat, limit_pa : Int, total_pages : Nat, free_pages : Nat,
             bit : [0..(st.total_pages - 1) -> BOOLEAN], next_hint : Nat, meta_base_pa : Int]
  /\ FreeExact(st)
  /\ st.base_pa % PAGE_SIZE = 0
  /\ st.limit_pa = page_pa(st, st.total_pages)
  /\ \A pa \in FreeSet(st) : ~IsMeta(st, pa)

MemInit ==
  /\ PmmReady(pmm) /\ boot_free = FreeSet(pmm)
  /\ cache = slab_cache_init /\ heap = kheap_init /\ live = {}
MemSpec == MemInit /\ [][MemNext]_<<memVars, boot_free>>

(* The count of free pages is the number of clear bits of the bitmap, after   *)
(* pmm_init and every allocation and release; hence a request for one page    *)
(* is refused only when none is free, wherever the hint points.               *)
PageCountExact ==
  FreeExact(pmm) /\ (pmm.free_pages > 0 => Candidates(pmm, 1) # {})

(* The pages behind the live allocations and the allocators' own lists. *)
PagesOf(o) == {p \in align_down_4k(o.pa)..(o.pa + o.size - 1) : p % PAGE_SIZE = 0}
CachePages == {cache.pages[i].pa : i \in DOMAIN cache.pages}
BucketPages == {p \in DOMAIN heap.hdr : heap.hdr[p][1] = "SLAB"}
RunsOf == {o \in live : o.kind = "run" \/ (o.kind = "buf" /\ align_down_4k(o.pa) \notin BucketPages)}

(* No page is lost and none has two owners: a page that was free at boot is   *)
(* free now, or belongs to exactly one of the slab cache, a bucket of the     *)
(* heap and a multi-page allocation that is still alive.                      *)
EveryPageHasOneOwner ==
  /\ boot_free \ FreeSet(pmm) = CachePages \cup BucketPages \cup UNION {PagesOf(o) : o \in RunsOf}
  /\ CachePages \cap BucketPages = {}
  /\ \A o \in RunsOf : PagesOf(o) \cap (CachePages \cup BucketPages) = {}
  /\ \A o, q \in RunsOf : o # q => PagesOf(o) \cap PagesOf(q) = {}

Units(o) == o.pa..(o.pa + o.size - 1)
FreeBlocks ==
  {[pa |-> a, size |-> OBJ_SIZE] : a \in UNION {Range(cache.pages[i].freelist) : i \in DOMAIN cache.pages}}
    \cup UNION {{[pa |-> a, size |-> BucketSizes[b]] : a \in Range(heap.freelist[b])} : b \in Buckets}
Headers == CachePages \cup DOMAIN heap.hdr

(* What kfree takes off the byte count: a big block is charged its header. *)
Bytes(o) == IF align_down_4k(o.pa) \in BucketPages THEN o.size ELSE o.size + HDR

(* Two live allocations never share memory, none lies on a free list or over  *)
(* a page header, slab_free finds every object it is given in its cache, and  *)
(* the heap's byte count is that of its live blocks.                          *)
AllocationsDisjoint ==
  /\ \A o \in live : Units(o) \cap Headers = {}
  /\ \A o \in live : \A q \in (live \ {o}) \cup FreeBlocks : Units(o) \cap Units(q) = {}
  /\ \A o \in live : o.kind = "obj" => ~SlabPanics(o)
  /\ heap.cur_bytes = SumOver([o \in live |-> Bytes(o)], {o \in live : o.kind = "buf"})
===============================================================================
