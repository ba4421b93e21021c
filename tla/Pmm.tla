--------------------------------- MODULE Pmm ---------------------------------
(* The bitmap allocator of pmm.c: allocation and release of pages.  bit[i] is *)
(* TRUE when page i is reserved or allocated.                                 *)
EXTENDS Integers, FiniteSets, Page

ClearBits(st) == {i \in 0..(st.total_pages - 1) : ~st.bit[i]}

SetBits(st, P, b) ==
  [st EXCEPT !.bit = [i \in 0..(st.total_pages - 1) |-> IF i \in P THEN b ELSE st.bit[i]]]

(* Only bits that change are counted.  MarkFree takes the pages of all the    *)
(* ranges the loop in pmm_init goes through, or of the addresses given back.  *)
MarkFree(st, P) ==
  [SetBits(st, P, FALSE) EXCEPT !.free_pages = @ + Cardinality(P \ ClearBits(st))]

(* The pages from s0 to e0, both aligned, cut to the managed window. *)
Pages(st, s0, e0) ==
  LET s == IF s0 < st.base_pa THEN st.base_pa ELSE s0
      e == IF e0 > st.limit_pa THEN st.limit_pa ELSE e0
  IN {i \in 0..(st.total_pages - 1) : (s - st.base_pa) \div PAGE_SIZE <= i
                                      /\ i < (e - st.base_pa) \div PAGE_SIZE}

bitmap_mark_range_free(st, ranges) ==
  MarkFree(st, UNION {Pages(st, align_up_4k(r.base), align_down_4k(range_end(r))) : r \in ranges})

bitmap_mark_range_reserved(st, r) ==
  LET P == Pages(st, align_down_4k(r.base), align_up_4k(range_end(r)))
      n == Cardinality(P \cap ClearBits(st))
  IN [SetBits(st, P, TRUE) EXCEPT !.free_pages = IF @ < n THEN 0 ELSE @ - n]

(* A new window, everything in it reserved. *)
bitmap_mark_all_reserved(base, limit, meta) ==
  LET n == (limit - base) \div PAGE_SIZE
  IN [base_pa |-> base, limit_pa |-> limit, total_pages |-> n, free_pages |-> 0,
      bit |-> [i \in 0..(n - 1) |-> TRUE], next_hint |-> 0, meta_base_pa |-> meta]

(* How pmm_init fills the bitmap: the usable ranges are freed, then what lies *)
(* below the kernel, the kernel, the blob (if any) and the metadata are       *)
(* reserved once more.                                                        *)
pmm_bitmap(st, usable, below, kernel, blob, meta) ==
  LET st1 == bitmap_mark_range_free(st, usable)
      st2 == bitmap_mark_range_reserved(st1, below)
      st3 == bitmap_mark_range_reserved(st2, kernel)
      st4 == IF blob.size = 0 THEN st3 ELSE bitmap_mark_range_reserved(st3, blob)
  IN bitmap_mark_range_reserved(st4, meta)

FreeRun(st, i, count) == \A j \in i..(i + count - 1) : ~st.bit[j]

(* Mutant: the search does not start again below the hint. *)
CandidatesNoWrap(st, count) ==
  LET up == {i \in st.next_hint..(st.total_pages - count) : FreeRun(st, i, count)}
  IN IF count = 0 \/ st.free_pages < count \/ count > st.total_pages THEN {}
     ELSE {i \in up : \A k \in up : i <= k}

(* The page a call would return, as a set of at most one: the lowest run that *)
(* starts at or above the hint, else the lowest one wholly below it.          *)
Candidates(st, count) ==
  LET start == IF st.next_hint >= st.total_pages THEN 0 ELSE st.next_hint
      up == {i \in start..(st.total_pages - count) : FreeRun(st, i, count)}
      low == {i \in 0..(start - count) : FreeRun(st, i, count)}
  IN IF count = 0 \/ st.free_pages < count \/ count > st.total_pages THEN {}
     ELSE IF up # {} THEN {i \in up : \A k \in up : i <= k}
     ELSE {i \in low : \A k \in low : i <= k}

Take(st, i, count) ==
  [SetBits(st, i..(i + count - 1), TRUE) EXCEPT !.free_pages = @ - count,
                                                !.next_hint = i + count]

page_pa(st, i) == st.base_pa + i * PAGE_SIZE

(* pmm_alloc_pages: the new state and the physical address, -1 on failure. *)
pmm_alloc_pages(st, count) ==
  IF Candidates(st, count) = {} THEN [st |-> st, pa |-> -1]
  ELSE LET i == CHOOSE k \in Candidates(st, count) : TRUE
       IN [st |-> Take(st, i, count), pa |-> page_pa(st, i)]

(* The pages at the addresses in pas go back, if they are managed, aligned    *)
(* and not metadata; a page that is free already is left alone, and the hint  *)
(* never moves up.                                                            *)
FreePages(st, pas) ==
  LET ok == {pa \in pas : /\ pa >= st.base_pa /\ pa < st.limit_pa
                          /\ pa % PAGE_SIZE = 0
                          /\ ~(/\ pa >= st.meta_base_pa
                               /\ pa < st.meta_base_pa + PMM_METADATA_PAGES * PAGE_SIZE)}
      P == {i \in 0..(st.total_pages - 1) : st.bit[i] /\ page_pa(st, i) \in ok}
  IN [MarkFree(st, P) EXCEPT
        !.next_hint = CHOOSE h \in P \cup {@} : \A k \in P \cup {@} : h <= k]

pmm_free_page(st, pa) == FreePages(st, {pa})

(* The count of free pages is the number of clear bits of the bitmap. *)
FreeExact(st) == st.free_pages = Cardinality(ClearBits(st))
===============================================================================
