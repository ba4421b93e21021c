------------------------------- MODULE PmmInit -------------------------------
(* pmm_init of pmm.c: the bitmap from the usable ranges of platform.c.        *)
EXTENDS Integers, Sequences, FiniteSets, Platform, Pmm

CONSTANTS BITMAP_PAGES  \* pages whose bits fit in the metadata region

(* The lowest page-aligned RAM address in the window (win_start if none). *)
LowestRam(mem) ==
  LET bases == {r.base : r \in UNION {Range(ClampInside(m)) : m \in Range(mem)}}
  IN IF bases = {} THEN win_start ELSE CHOOSE b \in bases : \A c \in bases : b <= c

(* pmm_init after platform_get_usable_ranges: the managed window is what the  *)
(* usable ranges span.  <<>> is a panic.                                      *)
pmm_init(bi, totalsize, mem, usable) ==
  LET base == CHOOSE b \in {r.base : r \in Range(usable)} :
                \A r \in Range(usable) : b <= r.base
      limit == CHOOSE e \in {range_end(r) : r \in Range(usable)} :
                \A r \in Range(usable) : range_end(r) <= e
      meta == meta_base_pa(bi)
      meta_end == meta + PMM_METADATA_PAGES * PAGE_SIZE
      st == bitmap_mark_all_reserved(base, limit, meta)
  IN IF usable = <<>> \/ meta < win_start \/ meta_end > win_end \/ st.total_pages > BITMAP_PAGES
       THEN <<>>
       ELSE <<pmm_bitmap(st, Range(usable), Rng(LowestRam(mem), bi.kernel_phys_base),
                         Rng(bi.kernel_phys_base, align_up_4k(runtime_end_pa(bi))),
                         [DtbBlob(bi, totalsize) EXCEPT !.size = IF bi.dtb_ptr = 0 THEN 0 ELSE @],
                         Rng(meta, meta_end))>>
==============================================================================
