--------------------------------- MODULE Boot ---------------------------------
(* The way from power-on to running allocators: loader_main, then kmain up to *)
(* the caches - device tree, translation tables, page allocator, heap - and   *)
(* the allocators at work.  A variable that later phases no longer read goes  *)
(* back to its initial value.                                                 *)
EXTENDS Integers, Sequences, FiniteSets, Loader, Mmu, PmmInit, Memory, DtbTree

CONSTANTS
  Disks, Blobs,       \* what the firmware may find and pass
  SectionPages,       \* pages of the kernel's eight sections, in link order
  VIRTIO_RANGES,      \* capacity of the virtio range array
  RunPages            \* bound: free pages with which the run goes on

VARIABLES
  phase,
  disk, kern,         \* the disk and what the loader made of it
  bi, blob,           \* boot_info_t and the device tree blob
  dtb, uart,          \* the parse of dtb.c and the console's base
  pt                  \* the translation tables

bootVars == <<disk, kern, bi, blob, dtb, uart, pt>>
vars == <<phase, bootVars, memVars, boot_free>>

NoKern == [kernel_phys_base |-> 0]
NoBi == [kernel_phys_base |-> 0, runtime_end |-> 0, dtb_ptr |-> 0, dtb_size |-> 0]
NoBlob == [magic |-> FALSE]
NoDtb == [totalsize |-> 0, tokens |-> <<>>, rsv |-> <<>>, mem |-> <<>>]
NoPt == [l2 |-> [i \in {} |-> EmptyL2], l3 |-> <<>>, hung |-> FALSE]
NoDisk == [bad |-> {}]
NoPmm == [total_pages |-> 0, free_pages |-> 0, bit |-> <<>>]

Init ==
  /\ phase = "power" /\ disk \in Disks /\ blob \in Blobs
  /\ kern = NoKern /\ bi = NoBi /\ dtb = NoDtb /\ uart = 0 /\ pt = NoPt
  /\ boot_free = {} /\ pmm = NoPmm /\ cache = slab_cache_init /\ heap = kheap_init /\ live = {}

Load ==
  /\ phase = "power"
  /\ \E k \in {loader_main(disk)} :
     /\ phase' = IF k = <<>> THEN "panic" ELSE "loaded"
     /\ kern' = IF k = <<>> THEN kern ELSE k[1]
     /\ UNCHANGED <<disk, bi, blob, dtb, uart, pt, boot_free, memVars>>

(* dtb_total_size and the hand-over.  The blob has been in memory all along:  *)
(* a kernel loaded over its header leaves no magic number.  (A kernel that    *)
(* begins inside the blob would leave arbitrary tokens; that is left out.)    *)
KernelEnd == kern.kernel_phys_base + kern.kernel_size
Overwritten == blob.pa >= kern.kernel_phys_base /\ blob.pa < KernelEnd
Torn == blob.pa < kern.kernel_phys_base /\ blob.pa + blob.totalsize > kern.kernel_phys_base

Jump ==
  LET seen == IF Overwritten \/ ~blob.magic THEN 0 ELSE blob.totalsize
  IN /\ phase = "loaded" /\ ~Torn
     /\ phase' = "kmain"
     /\ bi' = [kernel_phys_base |-> kern.kernel_phys_base,
               runtime_end |-> HH_BASE + align_up_4k(KernelEnd),
               dtb_ptr |-> IF seen > 0 THEN HH_BASE + blob.pa ELSE 0, dtb_size |-> seen]
     /\ disk' = NoDisk /\ kern' = NoKern
     /\ UNCHANGED <<blob, dtb, uart, pt, boot_free, memVars>>

(* kmain's device tree step; without a blob the fallback UART stays. *)
DtbBringUp ==
  /\ phase = "kmain"
  /\ phase' = "dtb"
  /\ \E d \in {dtb_init(blob, bi.dtb_size)} :
     \E found \in {dtb_find_pl011_uart(d.tokens)} :
     /\ dtb' = IF bi.dtb_ptr = 0 THEN NoDtb ELSE d
     /\ uart' = IF bi.dtb_ptr # 0 /\ found # 0 THEN found ELSE UART_PA
  /\ UNCHANGED <<disk, kern, bi, blob, pt, boot_free, memVars>>

(* The linker's layout: eight sections in order from the load address. *)
Image ==
  LET At(i) == bi.kernel_phys_base
                 + PAGE_SIZE * FoldLeft(LAMBDA x, y : x + y, 0, SubSeq(SectionPages, 1, i - 1))
      S(i) == [base |-> At(i), size |-> PAGE_SIZE * SectionPages[i]]
  IN [start |-> bi.kernel_phys_base, runtime_end |-> runtime_end_pa(bi), vectors |-> At(1),
      text |-> S(1), rodata |-> S(2), core_text |-> S(3), core_rodata |-> S(4),
      data |-> S(5), core_data |-> S(6), bss |-> S(7), core_bss |-> S(8)]

mmu_init ==
  /\ phase = "dtb"
  /\ \E img \in {Image} : \E t \in {mmu_init_tables(img, dtb.mem)} :
     /\ pt' = t
     /\ phase' = IF t.hung THEN "hung"
                 ELSE IF mmu_assert_layout_and_wx(t, img) THEN "mmu" ELSE "panic"
  /\ UNCHANGED <<disk, kern, bi, blob, dtb, uart, boot_free, memVars>>

PmmBringUp ==
  LET u == platform_get_usable_ranges(bi, dtb.totalsize, dtb.mem, dtb.rsv)
      st == IF u.ok THEN pmm_init(bi, dtb.totalsize, dtb.mem, u.out) ELSE <<>>
  IN /\ phase = "mmu"
     /\ phase' = IF st = <<>> THEN "panic" ELSE "pmm"
     /\ pmm' = IF st = <<>> THEN pmm ELSE st[1]
     /\ boot_free' = IF st = <<>> THEN {} ELSE FreeSet(st[1])
     /\ UNCHANGED <<disk, kern, bi, blob, dtb, uart, pt, cache, heap, live>>

(* kheap_init and the cache inits: nothing is allocated yet. *)
HeapBringUp ==
  /\ phase = "pmm" /\ pmm.free_pages <= RunPages
  /\ phase' = "running"
  /\ heap' = kheap_init /\ cache' = slab_cache_init
  /\ bi' = NoBi /\ blob' = NoBlob /\ dtb' = NoDtb /\ uart' = 0 /\ pt' = NoPt
  /\ UNCHANGED <<disk, kern, boot_free, pmm, live>>

Run == phase = "running" /\ MemNext /\ UNCHANGED <<phase, bootVars>>

Next ==
  \/ Load
  \/ Jump
  \/ DtbBringUp
  \/ mmu_init
  \/ PmmBringUp
  \/ HeapBringUp
  \/ Run

Spec == Init /\ [][Next]_vars

(* ------------------------------- properties ------------------------------- *)

(* Word j of a file by arithmetic alone: which cluster of the chain, which    *)
(* sector of the cluster, which word of the sector.                           *)
FileWord(vol, file, j) ==
  LET size == SECTOR * vol.spc
      fat(c) == disk.sector[vol.fat_start + (c \div FAT_PER_SECTOR)][(c % FAT_PER_SECTOR) + 1]
      chain[k \in 0..(j \div size)] == IF k = 0 THEN file.first_cluster ELSE fat(chain[k - 1])
      lba == vol.data_start + (chain[j \div size] - 2) * vol.spc + (j % size) \div SECTOR
  IN disk.sector[lba][(j % SECTOR) + 1]

Segments(vol, file) ==
  LET ehdr == FileWord(vol, file, 0)
  IN SelectSeq([i \in 1..ehdr.phnum |-> FileWord(vol, file, ehdr.phoff + i - 1)], IsLoad)

(* When the loader jumps, memory holds the kernel the directory names: every  *)
(* segment of the ELF file at its address, its tail zeroed, nothing else, and *)
(* the region passed to the kernel is exactly the one that was written.       *)
LoadsTheKernelFile ==
  phase = "loaded" =>
    LET vol == fat16_parse(disk, gpt_find_partition_lba(disk))[1]
        file == FindKernel(disk, vol)[1]
        segs == Segments(vol, file)
        Reach(ph) == dest_paddr(segs, ph)..(dest_paddr(segs, ph) + ph.memsz - 1)
    IN /\ DOMAIN kern.image = UNION {Reach(ph) : ph \in Range(segs)}
       /\ \A ph \in Range(segs) : \A a \in Reach(ph) :
            LET o == a - dest_paddr(segs, ph)
            IN kern.image[a] = IF o < ph.filesz THEN FileWord(vol, file, ph.offset + o)
                               ELSE [w |-> "zero"]
       /\ kern.kernel_phys_base \in DOMAIN kern.image
       /\ KernelEnd - 1 \in DOMAIN kern.image
       /\ \A a \in DOMAIN kern.image : kern.kernel_phys_base <= a /\ a < KernelEnd

(* What dtb.c reports is what the tree says: the ranges of all memory nodes,  *)
(* the reservations of the header and of /reserved-memory in document order,  *)
(* the console that stdout-path or an alias names, the virtio slots whose     *)
(* "compatible" precedes their "reg" - up to the capacity of each array.      *)
DtbSeesTheTree ==
  phase = "dtb" /\ dtb.tokens # <<>> /\ Depth(blob.tree) <= MAX_DEPTH =>
    /\ dtb.mem = UpTo(DTB_MAX_MEMORY_RANGES, TreeMemory(blob.tree))
    /\ dtb.rsv = UpTo(DTB_MAX_RESERVED_RANGES,
                      Front(blob.rsvmap) \o TreeReserved(blob.tree))
    /\ uart = (IF TreeUart(blob.tree) = 0 THEN UART_PA ELSE TreeUart(blob.tree))
    /\ dtb_get_virtio_mmio_ranges(dtb.tokens, VIRTIO_RANGES)
         = UpTo(VIRTIO_RANGES, Visible(blob.tree, "virtio,mmio"))

WindowPages == {p \in win_start..(win_end - 1) : p % PAGE_SIZE = 0}

(* After pmm_init a page of the window is free exactly when some memory range *)
(* covers all of it and nothing touches it: no reservation of the device      *)
(* tree, not the blob, the boot region, the kernel or the metadata.  The      *)
(* allocator is then in a state from which Memory starts.                     *)
UsableIsExact ==
  phase = "pmm" =>
    /\ PmmReady(pmm)
    /\ boot_free =
        {p \in WindowPages :
           /\ \E r \in Range(dtb.mem) : Covers(r, p)
           /\ \A r \in Range(dtb.rsv) : ~Touches(p, r)
           /\ p >= meta_base_pa(bi) + PMM_METADATA_PAGES * PAGE_SIZE
           /\ ~(bi.dtb_ptr # 0 /\ Touches(p, [base |-> blob.pa, size |-> blob.totalsize]))}

(* Through the tables mmu_init installs, every page the allocator will hand   *)
(* out is ordinary writable memory, every section of the kernel has its own   *)
(* permissions on all of its pages, and the metadata can be written - also    *)
(* where memory ranges overlap, share a block with the kernel or leave the    *)
(* window.                                                                    *)
MappingsFitTheMemory ==
  phase = "pmm" =>
    LET PermAt(pa) == mmu_lookup_desc(pt, HH_BASE + pa)
        SectionPagesOf(r) == {p \in r.base..(range_end(r) - 1) : p % PAGE_SIZE = 0}
    IN /\ \A p \in boot_free : PermAt(p) = <<RW_XN>>
       /\ \A i \in 1..8 : \A p \in SectionPagesOf(Expected(Image)[i][1]) :
            PermAt(p) = <<Expected(Image)[i][2]>>
===============================================================================
