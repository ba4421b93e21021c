-------------------------------- MODULE MCBoot --------------------------------
(* Small machines for Boot: 16 pages of RAM window, four to a block.          *)
EXTENDS Boot

MCBucketSizes == <<1, 2>>
MCSectionPages == <<2, 1, 0, 0, 1, 0, 1, 0>>

(* ---------------------------------- disks --------------------------------- *)

Data(n) == [w |-> <<"data", n>>]
Ehdr(phnum, phoff, entry) == [w |-> "ehdr", phnum |-> phnum, phoff |-> phoff, entry |-> entry]
Phdr(load, offset, vaddr, paddr, filesz, memsz) ==
  [w |-> "phdr", load |-> load, offset |-> offset, vaddr |-> vaddr, paddr |-> paddr,
   filesz |-> filesz, memsz |-> memsz]

(* Kernels of nine words: header, three program headers, padding and data. *)
ElfFile(entry, pa1, pa2) ==
  <<Ehdr(3, 1, entry), Phdr(TRUE, 5, 1000, pa1, 3, 8), Phdr(FALSE, 0, 0, 0, 1, 4),
    Phdr(TRUE, 8, 1008, pa2, 1, 12), Data(0), Data(1), Data(2), Data(3), Data(4)>>

Dirent(name, attr, first, size) ==
  [name |-> name, attr |-> attr, first_cluster |-> first, size |-> size]
EndEntry == Dirent("end", "file", 0, 0)

(* A volume at LBA 8: one reserved sector, two FATs of two sectors, a root    *)
(* directory of two sectors, then the clusters.  The file's clusters are      *)
(* scattered: with spc 2 a cluster holds four words, with spc 1 two.          *)
FatSectors(chain) ==
  LET Next2(c) == IF \E i \in DOMAIN chain : chain[i] = c
                    THEN LET i == CHOOSE k \in DOMAIN chain : chain[k] = c
                         IN IF i = Len(chain) THEN EOC + 1 ELSE chain[i + 1]
                    ELSE 0
  IN [s \in 0..1 |-> [j \in 1..FAT_PER_SECTOR |-> Next2(s * FAT_PER_SECTOR + j - 1)]]

Volume(spc, chain, file, root) ==
  LET data(lba) == \* the words of a data sector: which part of the file it holds
        LET c == ((lba - 15) \div spc) + 2
            k == IF \E i \in DOMAIN chain : chain[i] = c
                   THEN CHOOSE i \in DOMAIN chain : chain[i] = c ELSE 0
            at == (k - 1) * spc * SECTOR + ((lba - 15) % spc) * SECTOR
        IN [j \in 1..SECTOR |-> IF k = 0 \/ at + j > Len(file) THEN Data(0) ELSE file[at + j]]
  IN [lba \in 9..40 |->
        IF lba \in 9..10 THEN FatSectors(chain)[lba - 9]
        ELSE IF lba \in 11..12 THEN FatSectors(chain)[lba - 11]
        ELSE IF lba \in 13..14 THEN root[lba - 12]
        ELSE data(lba)]

Bpb(spc) == [spc |-> spc, reserved |-> 1, num_fats |-> 2, spf |-> 2, root_entries |-> 4,
             dirents_per_sector |-> 2]

Disk(spc, chain, file, root, gpt, bad) ==
  [gpt |-> [signature |-> TRUE, entries_lba |-> 2, entries |-> gpt],
   boot |-> [l \in {8} |-> Bpb(spc)], sector |-> Volume(spc, chain, file, root), bad |-> bad]

Part(t, lba) == [type |-> t, first_lba |-> lba]
GptPlain == << <<Part("zero", 0), Part("efi", 8)>> >>
GptFallback == << <<Part("linux", 8), Part("zero", 0)>>, <<Part("linux", 30)>> >>
GptLater == << <<Part("linux", 30), Part("zero", 0)>>, <<Part("basic", 8)>> >>

RootOf(first) == << <<Dirent("deleted", "file", 9, 9), Dirent("CAPAZ", "label", 0, 0)>>,
                    <<Dirent("KERNEL.ELF", "file", first, 9), EndEntry>> >>
RootSecond(first) == << <<Dirent("KERNEL8.ELF", "lfn", 9, 9), Dirent("KERNEL8.ELF", "file", first, 9)>>,
                        <<EndEntry, Dirent("KERNEL.ELF", "file", 9, 9)>> >>

MCDisks ==
  {Disk(1, <<5, 3, 7, 4, 6>>, ElfFile(e, 72, pa2), RootOf(5), GptPlain, {}) : e \in {1000, 1001}, pa2 \in {80, 0}}
    \cup {Disk(2, <<6, 3, 4>>, ElfFile(1000, 72, 80), RootSecond(6), g, {}) : g \in {GptFallback, GptLater}}
    \cup {Disk(1, <<3, 5, 7, 4, 6>>, ElfFile(1000, 0, 0), RootOf(3), GptPlain, {}),
          Disk(1, <<5, 3, 7, 4, 6>>, ElfFile(1000, 68, 76), RootOf(5), GptLater, {}),
          Disk(2, <<4, 2, 5>>, ElfFile(1000, 64, 72), RootOf(4), GptPlain, {}),
          Disk(2, <<4, 2, 5>>, ElfFile(1000, 74, 82), RootOf(4), GptPlain, {}),
          Disk(2, <<4, 2>>, ElfFile(1000, 72, 80), RootOf(4), GptPlain, {})}
    \cup {Disk(1, <<5, 3, 7, 4, 6>>, ElfFile(1000, 72, 80), RootOf(5), GptLater, {lba}) :
            lba \in {1, 2, 3, 8, 9, 10, 11, 13, 14, 16, 18, 20}}

(* ---------------------------------- trees --------------------------------- *)

Cells(n, x) == IF n = 2 THEN <<x \div CELL, x % CELL>> ELSE <<x>>
Reg(a, s, rs) == PROP("reg", FlattenSeq([i \in DOMAIN rs |-> Cells(a, rs[i][1]) \o Cells(s, rs[i][2])]))
CellProps(a, s) == <<PROP("#address-cells", <<a>>), PROP("#size-cells", <<s>>)>>
Compat(ss) == PROP("compatible", ss)
Path(comps) == [comps |-> comps, abs |-> TRUE, opts |-> FALSE]
Alias(a) == [comps |-> <<a>>, abs |-> FALSE, opts |-> FALSE]
WithOpts(p) == [p EXCEPT !.opts = TRUE]

Memory2(a, s, r1, r2) ==
  IF r2 = <<>> THEN <<Node("memory@", <<Reg(a, s, r1)>>, <<>>)>>
  ELSE <<Node("memory", <<NOP, Reg(a, s, r1)>>, <<>>), Node("memory@", <<Reg(a, s, r2)>>, <<>>)>>

ReservedMemory(a, s, rs, kids) ==
  Node("reserved-memory", CellProps(a, s) \o <<PROP("ranges", <<>>)>>,
       <<Node("buffer", <<Reg(a, s, rs)>>, <<>>)>> \o kids)
Pool(a, s) ==
  Node("pool", <<PROP("reusable", <<>>)>>,
       <<Node("slice", <<Reg(a, s, << <<97, 2>> >>)>>, <<>>)>>)

UartNode(name, a, s, addr, first) ==
  LET c == Compat(<<"arm,primecell", "arm,pl011">>)
      r == Reg(a, s, << <<addr, 4>> >>)
      w == PROP("reg-io-width", <<4>>)
  IN Node(name, IF first THEN <<w, c, r>> ELSE <<r, c, w>>, <<>>)

VirtioNode(a, s, addr, first) ==
  LET c == Compat(<<"virtio,mmio">>)
      r == Reg(a, s, << <<addr, 2>> >>)
  IN Node("virtio_mmio@", IF first THEN <<c, r>> ELSE <<r, c>>, <<>>)

Root(a, s, kids) == Node("", CellProps(a, s), kids)
Chosen(p) == Node("chosen", <<PROP("stdout-path", p)>>, <<>>)
Aliases(p) == Node("aliases", <<PROP("serial0", p)>>, <<>>)

(* The console chosen by path, with options; a bus with its own cell counts;  *)
(* slots that can be seen and one that cannot.                                *)
TreeA(r1, r2) ==
  Root(2, 2, <<Chosen(WithOpts(Path(<<"soc", "uart@8">>))),
               ReservedMemory(2, 2, << <<101, 6>> >>, <<>>)>>
    \o Memory2(2, 2, r1, r2)
    \o <<Node("soc", CellProps(1, 1),
              <<UartNode("uart@8", 1, 1, 8, FALSE), VirtioNode(1, 1, 20, TRUE),
                VirtioNode(1, 1, 22, FALSE), VirtioNode(1, 1, 24, TRUE)>>)>>)

(* Chosen by alias; a bus that states one of its cell counts; a name that     *)
(* begins like a memory node, and a count that begins like #size-cells.       *)
TreeB(r1, r2, alias) ==
  Root(2, 1, Memory2(2, 1, r1, r2)
    \o <<Aliases(alias), Chosen(Alias("serial0")),
         Node("memory-controller@", <<Reg(2, 1, << <<96, 16>> >>)>>, <<>>),
         Node("bus", <<PROP("#address-cells", <<1>>), NOP>>,
              <<Node("sound", <<PROP("#sound-dai-cells", <<0>>)>>, <<>>),
                UartNode("uart@12", 1, 1, 12, FALSE), UartNode("uart@16", 1, 1, 16, TRUE)>>)>>)

(* No choice of a console; cells the parser refuses; reservations beyond the  *)
(* capacity of the array.                                                     *)
TreeC(r1, r2) ==
  Root(1, 1, Memory2(1, 1, r1, r2)
    \o <<Node("i2c", CellProps(1, 0), <<Node("memory@", <<PROP("reg", <<96, 16>>)>>, <<>>)>>),
         ReservedMemory(1, 1, << <<88, 0>>, <<60, 5>>, <<99, 9>> >>, <<Pool(1, 1)>>)>>)

Bare == Root(2, 2, <<Chosen(NoPath)>>)
Deep == Root(2, 2, <<Node("a", <<>>, <<Node("b", <<>>, <<Node("c", <<>>, <<UartNode("d", 2, 2, 4, TRUE)>>)>>)>>),
                     Node("memory", <<Reg(2, 2, << <<64, 48>> >>)>>, <<>>)>>)

Layouts == { << << <<64, 48>> >>, <<>> >>,
             << << <<64, 30>>, <<94, 20>> >>, <<>> >>,
             << << <<90, 40>> >>, << <<60, 36>> >> >>,
             << << <<64, 40>>, <<70, 0>>, <<80, 32>> >>, << <<120, 2>> >> >>,
             << << <<64, 48>>, <<64, 20>>, <<80, 8>> >>, << <<112, 16>> >> >> }

Blob(pa, size, rsvmap, tree) ==
  [pa |-> pa, magic |-> TRUE, offsets_ok |-> TRUE, totalsize |-> size,
   rsvmap |-> rsvmap \o << [base |-> 0, size |-> 0] >>, tree |-> tree, tokens |-> Tokens(tree)]
Rsv(b, n) == <<[base |-> b, size |-> n]>>

MCTrees == {TreeA(l[1], l[2]) : l \in Layouts}
             \cup {TreeB(l[1], l[2], p) : l \in Layouts,
                     p \in {Path(<<"bus", "uart@12">>), WithOpts(Path(<<"bus", "uart@12">>)), Alias("x")}}
             \cup {TreeC(l[1], l[2]) : l \in Layouts \ {<< << <<90, 40>> >>, << <<60, 36>> >> >>}}
MCBlobs ==
  {Blob(p, 5, r, t) : p \in {40, 64, 98}, r \in {<<>>, Rsv(90, 1)}, t \in MCTrees}
    \cup {Blob(64, 4, <<>>, Bare), Blob(64, 4, <<>>, Deep), Blob(74, 4, <<>>, TreeB(<< <<64, 48>> >>, <<>>, Alias("x"))),
          [Blob(98, 4, <<>>, Deep) EXCEPT !.magic = FALSE],
          [Blob(98, 4, <<>>, Deep) EXCEPT !.offsets_ok = FALSE]}
===============================================================================
