-------------------------------- MODULE Loader --------------------------------
(* loader_main: from a GPT disk to a kernel in memory.  A disk is a GPT, one  *)
(* FAT16 volume per partition and the set of sectors that cannot be read.  A  *)
(* sector is a sequence of words; the ELF header and a program header are one *)
(* word each.                                                                 *)
EXTENDS Integers, Sequences, FiniteSets, SequencesExt

CONSTANTS
  SECTOR,                    \* words in a sector
  FAT_PER_SECTOR,            \* FAT entries in a sector
  EOC,                       \* the least end-of-chain mark (0xFFF8)
  LOADER_KERNEL_PHYS_BASE,   \* where a kernel without addresses goes
  LOADER_END,                \* __boot_stack_top
  LOADER_PAGE                \* alignment asked of the kernel

Readable(disk, lba) == lba \notin disk.bad

(* The first EFI system or basic data partition, else the first used entry;   *)
(* 0 when the header or a sector of entries cannot be read before that.       *)
gpt_find_partition_lba(disk) ==
  LET Entry(w, e) ==
        IF w.done \/ e.type = "zero" \/ e.first_lba = 0 THEN w
        ELSE IF e.type \in {"efi", "basic"} THEN [done |-> TRUE, lba |-> e.first_lba]
        ELSE IF w.lba = 0 THEN [w EXCEPT !.lba = e.first_lba] ELSE w
      Sector(w, s) ==
        IF w.done THEN w
        ELSE IF ~Readable(disk, disk.gpt.entries_lba + s - 1) THEN [done |-> TRUE, lba |-> 0]
        ELSE FoldLeft(Entry, w, disk.gpt.entries[s])
  IN IF ~Readable(disk, 1) \/ ~disk.gpt.signature THEN 0
     ELSE FoldLeft(Sector, [done |-> FALSE, lba |-> 0],
                   [s \in DOMAIN disk.gpt.entries |-> s]).lba

(* The layout computed from the boot sector; <<>> when it is not FAT16. *)
fat16_parse(disk, part_lba) ==
  IF ~Readable(disk, part_lba) \/ part_lba \notin DOMAIN disk.boot THEN <<>>
  ELSE LET b == disk.boot[part_lba]
           fat_start == part_lba + b.reserved
           root == fat_start + b.num_fats * b.spf
           root_sectors == (b.root_entries + b.dirents_per_sector - 1) \div b.dirents_per_sector
       IN IF b.spc = 0 \/ b.reserved = 0 \/ b.num_fats = 0 \/ b.spf = 0 \/ b.root_entries = 0
            THEN <<>>
          ELSE <<[fat_start |-> fat_start, root_dir |-> root, root_sectors |-> root_sectors,
                  data_start |-> root + root_sectors, spc |-> b.spc]>>

fat16_cluster_to_lba(vol, cluster) == vol.data_start + (cluster - 2) * vol.spc

fat16_is_eoc(cluster) == cluster >= EOC

(* A FAT sector that cannot be read ends the chain. *)
fat16_next_cluster(disk, vol, cluster) ==
  LET lba == vol.fat_start + (cluster \div FAT_PER_SECTOR)
  IN IF Readable(disk, lba) THEN disk.sector[lba][(cluster % FAT_PER_SECTOR) + 1] ELSE EOC

Usable(cluster) == cluster >= 2 /\ ~fat16_is_eoc(cluster)

(* A directory scan: deleted entries, long names and labels are skipped, the  *)
(* first free entry or an unreadable sector ends it.                          *)
fat16_find_in_root(disk, vol, target) ==
  LET Scan(w, e) ==
        IF w.done \/ e.name = "deleted" \/ e.attr \in {"lfn", "label"} THEN w
        ELSE IF e.name = "end" THEN [w EXCEPT !.done = TRUE]
        ELSE IF e.name = target THEN [done |-> TRUE, out |-> <<e>>]
        ELSE w
      Sector(w, s) ==
        IF w.done THEN w
        ELSE IF ~Readable(disk, vol.root_dir + s - 1) THEN [w EXCEPT !.done = TRUE]
        ELSE FoldLeft(Scan, w, disk.sector[vol.root_dir + s - 1])
  IN FoldLeft(Sector, [done |-> FALSE, out |-> <<>>], [s \in 1..vol.root_sectors |-> s]).out

(* The words offset .. offset+len-1 of a file as <<words>>, <<>> on failure:  *)
(* skip whole clusters, then copy sector by sector along the chain.           *)
fat16_read_file_at(disk, vol, file, offset, len) ==
  LET cluster_size == SECTOR * vol.spc
      Skip(c, i) == IF i = 1 \/ Usable(c) THEN fat16_next_cluster(disk, vol, c) ELSE c
      first == FoldLeft(Skip, file.first_cluster, [i \in 1..(offset \div cluster_size) |-> i])
      CopySector(w, s) ==
        LET lba == fat16_cluster_to_lba(vol, w.cluster) + s - 1
            avail == SubSeq(disk.sector[lba], w.sector_off + 1, SECTOR)
            take == SubSeq(avail, 1, IF Len(avail) > w.remaining THEN w.remaining
                                                                  ELSE Len(avail))
        IN IF s - 1 < w.sector_idx \/ w.remaining = 0 \/ ~w.ok THEN w
           ELSE IF ~Readable(disk, lba) THEN [w EXCEPT !.ok = FALSE]
           ELSE [w EXCEPT !.words = @ \o take, !.remaining = @ - Len(take), !.sector_off = 0]
      CopyCluster(w, i) ==
        IF ~w.ok \/ w.remaining = 0 THEN w
        ELSE IF ~Usable(w.cluster) THEN [w EXCEPT !.ok = FALSE]
        ELSE LET r == FoldLeft(CopySector, w, [s \in 1..vol.spc |-> s])
             IN [r EXCEPT !.sector_idx = 0,
                          !.cluster = IF r.ok /\ r.remaining > 0
                                        THEN fat16_next_cluster(disk, vol, @) ELSE @]
      in_cluster == offset % cluster_size
      Result(w) == IF w.ok /\ w.remaining = 0 THEN <<w.words>> ELSE <<>>
  IN IF len = 0 THEN << <<>> >>
     ELSE IF offset + len > file.size THEN <<>>
     ELSE Result(FoldLeft(CopyCluster,
            [cluster |-> first, sector_idx |-> in_cluster \div SECTOR,
             sector_off |-> in_cluster % SECTOR, words |-> <<>>, remaining |-> len, ok |-> TRUE],
            [i \in 1..(len + 1) |-> i]))

(* The words read are the header and the program headers themselves. *)
ReadPhdrs(disk, vol, file, ehdr) ==
  LET ph == [i \in 1..ehdr.phnum |->
               fat16_read_file_at(disk, vol, file, ehdr.phoff + i - 1, 1)]
  IN IF \E i \in DOMAIN ph : ph[i] = <<>> THEN <<>> ELSE <<[i \in DOMAIN ph |-> ph[i][1][1]]>>

(* Mutant: the tail of a segment beyond its file part is not cleared. *)
LoadSegmentNoBss(mem, ph, dest, data) ==
  LET span == dest..(dest + ph.filesz - 1)
  IN IF mem = <<>> \/ data = <<>> THEN <<>>
     ELSE <<[a \in DOMAIN mem[1] \cup span |-> IF a \in span THEN data[1][a - dest + 1]
                                                            ELSE mem[1][a]]>>

(* The memory after the segment, or <<>> if its words could not be read. *)
LoadSegment(mem, ph, dest, data) ==
  LET At(a) == IF a - dest < ph.filesz THEN data[1][a - dest + 1] ELSE [w |-> "zero"]
      span == dest..(dest + ph.memsz - 1)
  IN IF mem = <<>> \/ data = <<>> THEN <<>>
     ELSE <<[a \in DOMAIN mem[1] \cup span |-> IF a \in span THEN At(a) ELSE mem[1][a]]>>

LeastOf(S, default) == IF S = {} THEN default ELSE CHOOSE x \in S : \A y \in S : x <= y
IsLoad(ph) == ph.load /\ ph.memsz # 0

(* Where a segment goes: its p_paddr, or its place relative to the lowest     *)
(* addresses of the image.                                                    *)
dest_paddr(loads, ph) ==
  IF ph.paddr # 0 THEN ph.paddr
  ELSE LeastOf({q.paddr : q \in Range(loads)} \ {0}, LOADER_KERNEL_PHYS_BASE)
         + (ph.vaddr - LeastOf({q.vaddr : q \in Range(loads)}, 0))

(* The loaded kernel as <<kernel>>, <<>> on failure. *)
Loaded(mem, loads, entry) ==
  LET min_paddr == LeastOf({dest_paddr(loads, ph) : ph \in Range(loads)}, 0)
      max_paddr == -LeastOf({-(dest_paddr(loads, ph) + ph.memsz) : ph \in Range(loads)}, 0)
  IN IF loads = <<>> \/ mem = <<>> THEN <<>>
     ELSE <<[image |-> mem[1], kernel_phys_base |-> min_paddr,
             kernel_size |-> max_paddr - min_paddr, entry |-> entry]>>

LoadAll(disk, vol, file, loads, entry) ==
  LET Add(m, ph) == LoadSegment(m, ph, dest_paddr(loads, ph),
                                fat16_read_file_at(disk, vol, file, ph.offset, ph.filesz))
  IN Loaded(FoldLeft(Add, <<[a \in {} |-> [w |-> "zero"]]>>, loads), loads, entry)

LoadPhdrs(disk, vol, file, phs, entry) ==
  IF phs = <<>> THEN <<>> ELSE LoadAll(disk, vol, file, SelectSeq(phs[1], IsLoad), entry)

LoadElf(disk, vol, file, eh) ==
  IF eh = <<>> \/ eh[1][1].w # "ehdr" \/ eh[1][1].phnum = 0 THEN <<>>
  ELSE LoadPhdrs(disk, vol, file, ReadPhdrs(disk, vol, file, eh[1][1]), eh[1][1].entry)

load_kernel_elf(disk, vol, file) ==
  LoadElf(disk, vol, file, fat16_read_file_at(disk, vol, file, 0, 1))

(* The kernel file is the first of the two names that exists. *)
FindKernel(disk, vol) ==
  LET a == fat16_find_in_root(disk, vol, "KERNEL.ELF")
  IN IF a # <<>> THEN a ELSE fat16_find_in_root(disk, vol, "KERNEL8.ELF")

(* The checks on a loaded kernel; the overlap with the loader is only seen    *)
(* once the copy is done.                                                     *)
Accepted(k) ==
  IF \/ k = <<>> \/ k[1].kernel_phys_base < LOADER_END
     \/ k[1].kernel_phys_base % LOADER_PAGE # 0 \/ k[1].entry % 4 # 0 THEN <<>> ELSE k

LoadFrom(disk, vol, file) ==
  IF file = <<>> \/ file[1].attr = "dir" THEN <<>>
  ELSE Accepted(load_kernel_elf(disk, vol, file[1]))

LoadVolume(disk, vol) == IF vol = <<>> THEN <<>> ELSE LoadFrom(disk, vol[1], FindKernel(disk, vol[1]))

LoadPartition(disk, part) == IF part = 0 THEN <<>> ELSE LoadVolume(disk, fat16_parse(disk, part))

(* loader_main up to the jump: <<the loaded kernel>>, or <<>> for a panic. *)
loader_main(disk) == LoadPartition(disk, gpt_find_partition_lba(disk))
===============================================================================
