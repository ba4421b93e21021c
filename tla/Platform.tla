------------------------------- MODULE Platform -------------------------------
(* The page-range arithmetic of platform.c: from the memory and reserved      *)
(* ranges of the device tree to the ranges the page allocator may use.        *)
(* Addresses are in units of a fraction of a page, so that a range can begin  *)
(* or end inside one.                                                         *)
EXTENDS Integers, Sequences, FiniteSets, SequencesExt, Page

CONSTANTS
  RAM_BASE,             \* start of the direct-mapped window
  RAM_DIRECTMAP_SIZE,   \* its size
  HH_BASE,              \* where the high half maps physical address 0
  PLATFORM_MAX_RANGES   \* capacity of the range arrays

win_start == RAM_BASE
win_end == RAM_BASE + RAM_DIRECTMAP_SIZE

(* A high-half address of the RAM window, or a low alias left as it is. *)
hh_virt_to_phys(va) ==
  IF va >= HH_BASE + RAM_BASE THEN (va - (HH_BASE + RAM_BASE)) + RAM_BASE ELSE va

(* The clamp to the window that follows every alignment, as a sequence: empty *)
(* when nothing is left of the range.                                         *)
Clamp(start, end) ==
  LET s == IF start < win_start THEN win_start ELSE start
      e == IF end > win_end THEN win_end ELSE end
  IN IF e <= s THEN <<>> ELSE <<Rng(s, e)>>

(* Mutant: a reservation is rounded inwards, like memory. *)
ClampAroundInwards(r) == Clamp(align_up_4k(r.base), align_down_4k(range_end(r)))

ClampInside(r) == Clamp(align_up_4k(r.base), align_down_4k(range_end(r)))
ClampAround(r) == Clamp(align_down_4k(r.base), align_up_4k(range_end(r)))

sort_ranges(rs) == SortSeq(rs, LAMBDA a, b : a.base < b.base)

(* Over a sorted list: drops empty ranges and joins the ones that touch. *)
normalize_merge(rs) ==
  LET Add(out, r) ==
        IF r.size = 0 THEN out
        ELSE IF out = <<>> \/ r.base > range_end(Last(out)) THEN Append(out, r)
        ELSE IF range_end(r) > range_end(Last(out))
             THEN Append(Front(out), Rng(Last(out).base, range_end(r)))
        ELSE out
  IN FoldLeft(Add, <<>>, rs)

(* What is left of one memory range: the gaps between the reserved ranges     *)
(* that reach into it, and its tail.                                          *)
Gaps(m, rsv) ==
  LET Cut(acc, r) ==
        IF acc.cur >= range_end(m) \/ r.base >= range_end(m) THEN acc
        ELSE [out |-> IF r.base > acc.cur THEN Append(acc.out, Rng(acc.cur, r.base))
                                          ELSE acc.out,
              cur |-> IF range_end(r) > acc.cur THEN range_end(r) ELSE acc.cur]
      end == FoldLeft(Cut, [out |-> <<>>, cur |-> m.base],
                      SelectSeq(rsv, LAMBDA r : range_end(r) > m.base))
  IN IF end.cur < range_end(m) THEN Append(end.out, Rng(end.cur, range_end(m)))
                               ELSE end.out

subtract_reserved(mem, rsv) ==
  FlattenSeq([i \in DOMAIN mem |-> IF mem[i].size = 0 THEN <<>> ELSE Gaps(mem[i], rsv)])

(* The blob as platform.c and pmm.c reserve it: its own size, else the one    *)
(* the loader passed, and never more than that.                               *)
DtbBlob(bi, totalsize) ==
  LET sz0 == IF totalsize = 0 THEN bi.dtb_size ELSE totalsize
      sz == IF bi.dtb_size # 0 /\ sz0 > bi.dtb_size THEN bi.dtb_size ELSE sz0
  IN [base |-> hh_virt_to_phys(bi.dtb_ptr), size |-> sz]

(* __kernel_runtime_end is a linker symbol of the high half. *)
runtime_end_pa(bi) == hh_virt_to_phys(bi.runtime_end)
meta_base_pa(bi) == align_up_4k(runtime_end_pa(bi))

(* The reservations nobody listed: what lies below the kernel, the kernel     *)
(* with its .bss, the allocator's metadata and the device tree itself.        *)
ImplicitReserved(bi, totalsize, mem_min_base) ==
  LET blob == DtbBlob(bi, totalsize)
      meta == meta_base_pa(bi)
      meta_end == meta + PMM_METADATA_PAGES * PAGE_SIZE
  IN  (IF bi.kernel_phys_base > mem_min_base
         THEN Clamp(align_down_4k(mem_min_base), align_up_4k(bi.kernel_phys_base))
         ELSE <<>>)
   \o Clamp(align_down_4k(bi.kernel_phys_base), align_up_4k(runtime_end_pa(bi)))
   \o (IF meta < win_end
         THEN <<Rng(meta, IF meta_end > win_end THEN win_end ELSE meta_end)>>
         ELSE <<>>)
   \o (IF bi.dtb_ptr = 0 THEN <<>> ELSE ClampAround(blob))

(* Fails without any memory, or when the pieces overflow the caller's array. *)
platform_get_usable_ranges(bi, totalsize, mem0, rsv0) ==
  LET ClampAll(rs, Op(_)) == FlattenSeq([i \in DOMAIN rs |-> Op(rs[i])])
      mem == normalize_merge(sort_ranges(ClampAll(mem0, ClampInside)))
      min_base == IF mem = <<>> THEN RAM_BASE ELSE mem[1].base
      rsv == ClampAll(SelectSeq(rsv0, LAMBDA r : r.size # 0), ClampAround)
      all_rsv == normalize_merge(sort_ranges(
                   rsv \o ImplicitReserved(bi, totalsize, min_base)))
      left == subtract_reserved(mem, all_rsv)
  IN [ok |-> mem0 # <<>> /\ Len(left) <= PLATFORM_MAX_RANGES,
      out |-> normalize_merge(sort_ranges(ClampAll(left, ClampInside)))]
===============================================================================
