--------------------------------- MODULE Mmu ---------------------------------
(* The translation tables mmu_init builds for the high half, and the walk of  *)
(* its self-test.  A descriptor keeps its kind, its output address and the    *)
(* three attributes the code chooses: executable, read-only, device.          *)
EXTENDS Integers, Sequences, FiniteSets, Platform

CONSTANTS
  RAM_BLOCK_SIZE,    \* reach of an L2 entry (2 MiB)
  L1_BLOCK_SIZE,     \* reach of an L1 entry (1 GiB)
  L1_ENTRIES,        \* 512
  MAX_L2_TABLES,     \* 128
  MAX_L3_TABLES,     \* l3_pool, 64
  UART_PA            \* the device address the self-test probes

Perm(x, ro, dev) == [x |-> x, ro |-> ro, dev |-> dev]
RW_XN == Perm(FALSE, FALSE, FALSE)
RO_XN == Perm(FALSE, TRUE, FALSE)
RO_X == Perm(TRUE, TRUE, FALSE)
DEVICE == Perm(FALSE, FALSE, TRUE)

align_down_2m(x) == (x \div RAM_BLOCK_SIZE) * RAM_BLOCK_SIZE
align_up_2m(x) == ((x + RAM_BLOCK_SIZE - 1) \div RAM_BLOCK_SIZE) * RAM_BLOCK_SIZE

PagesPerBlock == RAM_BLOCK_SIZE \div PAGE_SIZE
InSection(pa, s) == pa >= s.base /\ pa < range_end(s)

(* Mutant: only the page of the vectors is executable. *)
PagePermVectorsOnly(img, pa) ==
  IF pa = align_down_4k(img.vectors) THEN RO_X
  ELSE IF InSection(pa, img.rodata) \/ InSection(pa, img.core_rodata) THEN RO_XN
  ELSE RW_XN

(* The permissions of one page of a block that meets the kernel: the first    *)
(* section that holds the page's first byte decides.                          *)
PagePerm(img, pa) ==
  IF pa = align_down_4k(img.vectors) THEN RO_X
  ELSE IF InSection(pa, img.text) THEN RO_X
  ELSE IF InSection(pa, img.rodata) THEN RO_XN
  ELSE IF InSection(pa, img.core_text) THEN RO_X
  ELSE IF InSection(pa, img.core_rodata) THEN RO_XN
  ELSE RW_XN

PageTable(img, pa) == [p \in 0..(PagesPerBlock - 1) |-> PagePerm(img, pa + p * PAGE_SIZE)]

NONE == [k |-> "none"]
BLOCK(perm) == [k |-> "block", perm |-> perm]
TABLE(i) == [k |-> "table", id |-> i]

OverlapsKernel(img, pa) ==
  ~(pa + RAM_BLOCK_SIZE <= img.start \/ pa >= img.runtime_end)

EmptyL2 == [i \in 0..((L1_BLOCK_SIZE \div RAM_BLOCK_SIZE) - 1) |-> NONE]

(* get_l2_for_l1: one L2 table per L1 entry, taken when first needed. *)
GetL2(pt, i1) ==
  IF i1 \in DOMAIN pt.l2 THEN pt
  ELSE IF Cardinality(DOMAIN pt.l2) >= MAX_L2_TABLES THEN [pt EXCEPT !.hung = TRUE]
  ELSE [pt EXCEPT !.l2 = [i \in DOMAIN @ \cup {i1} |-> IF i = i1 THEN EmptyL2 ELSE @[i]]]

(* The body of the loop over the 2 MiB steps of a range.  A block that meets  *)
(* the kernel takes a fresh L3 table each time a range reaches it.            *)
MapBlock(img, pt0, pa) ==
  LET i1 == pa \div L1_BLOCK_SIZE
      i2 == (pa % L1_BLOCK_SIZE) \div RAM_BLOCK_SIZE
      pt == GetL2(pt0, i1)
  IN IF pt0.hung \/ i1 = 0 \/ i1 >= L1_ENTRIES THEN pt0
     ELSE IF pt.hung THEN pt
     ELSE IF ~OverlapsKernel(img, pa) THEN [pt EXCEPT !.l2[i1][i2] = BLOCK(RW_XN)]
     ELSE IF Len(pt.l3) >= MAX_L3_TABLES THEN [pt EXCEPT !.hung = TRUE]
     ELSE [pt EXCEPT !.l3 = Append(@, PageTable(img, pa)),
                     !.l2[i1][i2] = TABLE(Len(pt.l3) + 1)]

MapRange(img, pt, r) ==
  LET start == align_down_2m(IF r.base < RAM_BASE THEN RAM_BASE ELSE r.base)
      end == align_up_2m(range_end(r))
  IN IF pt.hung \/ range_end(r) <= RAM_BASE THEN pt
     ELSE FoldLeft(LAMBDA t, i : MapBlock(img, t, start + (i - 1) * RAM_BLOCK_SIZE), pt,
                   [i \in 1..((end - start) \div RAM_BLOCK_SIZE) |-> i])

(* The tables; hung when a pool ran out and the code waits for ever.  L1[0]   *)
(* is the device block and never changes.                                     *)
mmu_init_tables(img, mem) ==
  FoldLeft(LAMBDA pt, r : MapRange(img, pt, r),
           [l2 |-> [i \in {} |-> EmptyL2], l3 |-> <<>>, hung |-> FALSE],
           IF mem = <<>> THEN <<Rng(RAM_BASE, win_end)>> ELSE mem)

(* The walk for a high-half address: <<>> where a level has no entry. *)
mmu_lookup_desc(pt, va) ==
  LET off == va - HH_BASE
      i1 == off \div L1_BLOCK_SIZE
      e == pt.l2[i1][(off % L1_BLOCK_SIZE) \div RAM_BLOCK_SIZE]
  IN IF i1 = 0 THEN <<DEVICE>>
     ELSE IF i1 \notin DOMAIN pt.l2 \/ e = NONE THEN <<>>
     ELSE IF e.k = "block" THEN <<e.perm>>
     ELSE <<pt.l3[e.id][(off % RAM_BLOCK_SIZE) \div PAGE_SIZE]>>

mmu_expect_page(pt, va, perm) == mmu_lookup_desc(pt, va) = <<perm>>

Expected(img) ==
  << <<img.text, RO_X>>, <<img.rodata, RO_XN>>, <<img.core_text, RO_X>>,
     <<img.core_rodata, RO_XN>>, <<img.data, RW_XN>>, <<img.core_data, RW_XN>>,
     <<img.bss, RW_XN>>, <<img.core_bss, RW_XN>> >>

(* FALSE is the panic of the self-test.  The Core sections may be empty; the  *)
(* others may not, and all lie in this order without overlap.                 *)
mmu_assert_layout_and_wx(pt, img) ==
  LET all == Expected(img)
      full == SelectSeq(all, LAMBDA e : e[1].size # 0)
  IN /\ \A s \in {img.text, img.rodata, img.data, img.bss} : s.size > 0
     /\ \A i \in 1..(Len(full) - 1) : range_end(full[i][1]) <= full[i + 1][1].base
     /\ \A i \in DOMAIN full : mmu_expect_page(pt, HH_BASE + full[i][1].base, full[i][2])
     /\ mmu_expect_page(pt, HH_BASE + UART_PA, DEVICE)
===============================================================================
