--------------------------------- MODULE Page ---------------------------------
(* Pages and page alignment, shared by platform.c, pmm.c and the allocators.  *)
EXTENDS Integers

CONSTANTS
  PAGE_SIZE,            \* units in a page
  PMM_METADATA_PAGES    \* pages kept behind the kernel for the allocator

ASSUME PageAssumption == PAGE_SIZE \in Nat \ {0}

(* A dtb_range_t. *)
Rng(base, end) == [base |-> base, size |-> end - base]
range_end(r) == r.base + r.size

align_up_4k(x) == ((x + PAGE_SIZE - 1) \div PAGE_SIZE) * PAGE_SIZE
align_down_4k(x) == (x \div PAGE_SIZE) * PAGE_SIZE

(* A range holds all of the page at p, or some of it. *)
Covers(r, p) == r.base <= p /\ p + PAGE_SIZE <= range_end(r)
Touches(p, r) == r.base < p + PAGE_SIZE /\ range_end(r) > p
===============================================================================
