--------------------------------- MODULE Dtb ---------------------------------
(* The flattened device tree and the walkers of dtb.c.  The structure block   *)
(* is a sequence of tokens; a property carries cells or strings instead of    *)
(* bytes; a node or property name is one of the names the walkers tell apart. *)
EXTENDS Integers, Sequences, FiniteSets, SequencesExt

CONSTANTS
  CELL,                      \* one more than the largest value of a cell
  MAX_DEPTH,                 \* stack of the find walkers (32)
  COLLECT_DEPTH,             \* stack of the collecting walkers (64)
  DTB_MAX_MEMORY_RANGES,
  DTB_MAX_RESERVED_RANGES

BEGIN_NODE(name) == [name |-> name, t |-> "BEGIN"]
END_NODE == [t |-> "END"]
NOP == [t |-> "NOP"]
FDT_END == [t |-> "FINISH"]
PROP(pname, val) == [name |-> pname, t |-> "PROP", val |-> val]

(* node_ctx_t, with the name of the node and the mark a walker gives it. *)
Ctx(name, pa, ps, mark) ==
  [name |-> name, parent_addr_cells |-> pa, parent_size_cells |-> ps,
   addr_cells |-> pa, size_cells |-> ps, mark |-> mark]

Marked(stack) == \E i \in DOMAIN stack : stack[i].mark

(* Most walkers compare only a prefix of a property's name, and of an entry   *)
(* of "compatible", where a name here stands for all that begin with it.      *)
AddressCells(p) == p.name = "#address-cells"
SizeCells(p) == p.name \in {"#size-cells", "#sound-dai-cells"}
RegLike(p) == p.name \in {"reg", "reg-io-width"}

(* A node begins, unless the stack of open nodes is full; a cell count. *)
BeginNode(w, name, depth, mark) ==
  LET a == IF w.stack = <<>> THEN 2 ELSE Last(w.stack).addr_cells
      s == IF w.stack = <<>> THEN 2 ELSE Last(w.stack).size_cells
  IN IF Len(w.stack) >= depth THEN [w EXCEPT !.done = TRUE, !.ok = FALSE]
     ELSE [w EXCEPT !.stack = Append(@, Ctx(name, a, s, mark))]

CellCount(w, f, val, ok) ==
  IF ok THEN [w EXCEPT !.stack[Len(w.stack)][f] = val[1]] ELSE w

(* The loop every walker is: a stack of open nodes, the cell counts a node    *)
(* gives its children (inherited until it states them), and what the walker   *)
(* does with the others: Mark(stack, name) when a node begins and             *)
(* Take(w, p) at a property p of the innermost node; w.done ends the walk.    *)
(* CellOk is the walker's test of the length of a cell count.                 *)
Walk(tokens, depth, out, CellOk(_), Mark(_, _), Take(_, _)) ==
  LET Step(w, k) ==
        IF w.done THEN w
        ELSE CASE k.t = "BEGIN" -> BeginNode(w, k.name, depth, Mark(w.stack, k.name))
               [] k.t = "END" -> [w EXCEPT !.stack = Front(@)]
               [] k.t = "NOP" -> w
               [] k.t = "PROP" ->
                    IF w.stack = <<>> THEN w
                    ELSE IF AddressCells(k) THEN CellCount(w, "addr_cells", k.val, CellOk(Len(k.val)))
                    ELSE IF SizeCells(k) THEN CellCount(w, "size_cells", k.val, CellOk(Len(k.val)))
                    ELSE Take(w, k)
               [] k.t = "FINISH" -> [w EXCEPT !.done = TRUE]
               [] OTHER -> [w EXCEPT !.done = TRUE, !.ok = FALSE]
      Begun == [stack |-> <<>>, done |-> FALSE, ok |-> TRUE, out |-> out]
      \* The steps are taken eight at a time, which only keeps the recursion shallow.
      Block(w, b) ==
        LET after[i \in 0..8] == IF i = 0 THEN w
                                 ELSE IF 8 * b + i > Len(tokens) THEN after[i - 1]
                                 ELSE Step(after[i - 1], tokens[8 * b + i])
        IN IF w.done THEN w ELSE after[8]
      at[b \in 0..(Len(tokens) \div 8)] == Block(IF b = 0 THEN Begun ELSE at[b - 1], b)
  IN at[Len(tokens) \div 8]

Found(w, v) == [w EXCEPT !.out = v, !.done = TRUE]
Exactly4(n) == n = 1          \* len == 4
AtLeast4(n) == n >= 1         \* len >= 4
NoMark(stack, name) == FALSE

(* ------------------------------- reg parsing ------------------------------ *)

Value(cells) == IF Len(cells) = 1 THEN cells[1] ELSE cells[1] * CELL + cells[2]
Tuple(val, i, a, s) ==
  [base |-> Value(SubSeq(val, i + 1, i + a)), size |-> Value(SubSeq(val, i + a + 1, i + a + s))]

append_range(arr, max, r) == IF r.size = 0 \/ Len(arr) >= max THEN arr ELSE Append(arr, r)

CellsParse(a, s) == a \in 1..2 /\ s \in 1..2

parse_reg_all(val, a, s, arr, max) ==
  IF ~CellsParse(a, s) THEN arr
  ELSE FoldLeft(LAMBDA acc, i : append_range(acc, max, Tuple(val, (i - 1) * (a + s), a, s)),
                arr, [i \in 1..(Len(val) \div (a + s)) |-> i])

(* The first tuple, as a sequence that is empty when the blob is too short. *)
parse_reg_first(val, a, s) ==
  IF Len(val) >= 2 /\ CellsParse(a, s) /\ Len(val) >= a + s
    THEN <<Tuple(val, 0, a, s)>> ELSE <<>>

(* --------------------------- the collecting walks ------------------------- *)

(* Mutant: a prefix is enough for a memory node. *)
IsMemoryNodePrefix(name) == name \in {"memory", "memory@", "memory-controller@"}

IsMemoryNode(name) == name \in {"memory", "memory@"}

(* The memory reservation block ends with an all-zero entry. *)
collect_memreserve_ranges(rsvmap) ==
  LET Add(w, r) == IF w.done THEN w
                   ELSE IF r.base = 0 /\ r.size = 0 THEN [w EXCEPT !.done = TRUE]
                   ELSE [w EXCEPT !.arr = append_range(@, DTB_MAX_RESERVED_RANGES, r)]
  IN FoldLeft(Add, [done |-> FALSE, arr |-> <<>>], rsvmap).arr

collect_reserved_memory_ranges(tokens, rsv) ==
  LET Mark(stack, name) == name = "reserved-memory" /\ ~Marked(stack)
      Take(w, p) ==
        IF RegLike(p) /\ Marked(Front(w.stack))
          THEN [w EXCEPT !.out = parse_reg_all(p.val, Last(w.stack).parent_addr_cells,
                  Last(w.stack).parent_size_cells, @, DTB_MAX_RESERVED_RANGES)]
          ELSE w
  IN Walk(tokens, COLLECT_DEPTH, rsv, AtLeast4, Mark, Take).out

collect_memory_ranges(tokens) ==
  LET Mark(stack, name) == IsMemoryNode(name)
      Take(w, p) ==
        IF RegLike(p) /\ Last(w.stack).mark
          THEN [w EXCEPT !.out = parse_reg_all(p.val, Last(w.stack).parent_addr_cells,
                  Last(w.stack).parent_size_cells, @, DTB_MAX_MEMORY_RANGES)]
          ELSE w
  IN Walk(tokens, COLLECT_DEPTH, <<>>, AtLeast4, Mark, Take).out

(* The candidate flag is set by "compatible", so only a "reg" that follows it *)
(* in the node counts.                                                        *)
Compatible(w, p, needle) ==
  [w EXCEPT !.stack[Len(w.stack)].mark = @ \/ needle \in Range(p.val)]

dtb_get_virtio_mmio_ranges(tokens, cap) ==
  LET Take(w, p) ==
        IF p.name = "compatible" THEN Compatible(w, p, "virtio,mmio")
        ELSE IF RegLike(p) /\ Last(w.stack).mark
          THEN LET out == parse_reg_all(p.val, Last(w.stack).parent_addr_cells,
                                        Last(w.stack).parent_size_cells, w.out, cap)
               IN [w EXCEPT !.out = out, !.done = Len(out) >= cap]
        ELSE w
  IN Walk(tokens, COLLECT_DEPTH, <<>>, AtLeast4, NoMark, Take).out

(* ------------------------------ the console UART -------------------------- *)

(* walk_struct_find(false, true, ...): the first pl011 node, as <<addr>>. *)
walk_struct_find(tokens) ==
  LET Take(w, p) ==
        IF p.name = "compatible" THEN Compatible(w, p, "arm,pl011")
        ELSE IF RegLike(p) /\ Last(w.stack).mark /\ w.out = <<>>
          THEN LET r == parse_reg_first(p.val, Last(w.stack).parent_addr_cells,
                                        Last(w.stack).parent_size_cells)
               IN IF r = <<>> THEN w ELSE [w EXCEPT !.out = <<r[1].base>>]
        ELSE w
      w == Walk(tokens, MAX_DEPTH, <<>>, Exactly4, NoMark, Take)
  IN IF w.ok THEN w.out ELSE <<>>

(* Both look at the properties of the first open node of the given name.  A   *)
(* path is its components, an alias a single word; opts is what may follow    *)
(* a colon in stdout-path, and strip_after_colon drops it.                    *)
FirstNamed(n, stack, name) == name = n /\ ~Marked(stack)
NoPath == [comps |-> <<>>, abs |-> FALSE, opts |-> FALSE]

dtb_read_chosen_stdout(tokens) ==
  LET Mark(stack, name) == FirstNamed("chosen", stack, name)
      Take(w, p) ==
        IF /\ Last(w.stack).mark
           /\ p.name \in {"stdout-path", "linux,stdout-path"}
           /\ p.val # NoPath
          THEN Found(w, [p.val EXCEPT !.opts = FALSE]) ELSE w
  IN Walk(tokens, Len(tokens), NoPath, Exactly4, Mark, Take).out

dtb_resolve_alias(tokens, alias) ==
  LET Mark(stack, name) == FirstNamed("aliases", stack, name)
      Take(w, p) == IF Last(w.stack).mark /\ p.name = alias THEN Found(w, p.val) ELSE w
  IN Walk(tokens, Len(tokens), NoPath, Exactly4, Mark, Take).out

(* The address in the "reg" of the node whose path from the root is comps. *)
dtb_find_node_reg_addr_by_path(tokens, path) ==
  LET Names(stack) == [i \in 1..(Len(stack) - 1) |-> stack[i + 1].name]
      Take(w, p) ==
        IF p.name # "reg" \/ Names(w.stack) # path.comps THEN w
        ELSE LET a == Last(w.stack).parent_addr_cells
                 s == Last(w.stack).parent_size_cells
             IN IF a \notin 1..2 \/ Len(p.val) < a + s THEN [w EXCEPT !.done = TRUE]
                ELSE Found(w, <<Value(SubSeq(p.val, 1, a))>>)
      w == Walk(tokens, MAX_DEPTH, <<>>, Exactly4, NoMark, Take)
  IN IF path.comps = <<>> \/ path.opts \/ ~w.ok THEN <<>> ELSE w.out

dtb_resolve_stdout_uart(tokens) ==
  LET chosen == dtb_read_chosen_stdout(tokens)
      path == IF chosen = NoPath \/ chosen.abs THEN chosen
              ELSE dtb_resolve_alias(tokens, chosen.comps[1])
  IN IF path.abs THEN dtb_find_node_reg_addr_by_path(tokens, path) ELSE <<>>

(* 0 when neither stdout-path nor the scan finds one. *)
dtb_find_pl011_uart(tokens) ==
  LET out == dtb_resolve_stdout_uart(tokens)
      scan == walk_struct_find(tokens)
  IN IF out # <<>> /\ out[1] # 0 THEN out[1] ELSE IF scan # <<>> THEN scan[1] ELSE 0

(* dtb_init with the parse it ends in.  A blob whose header is refused leaves *)
(* nothing; one whose offsets are wrong leaves its size.                      *)
dtb_init(blob, fdt_size) ==
  LET none == [totalsize |-> 0, tokens |-> <<>>, rsv |-> <<>>, mem |-> <<>>]
  IN IF ~blob.magic \/ blob.totalsize = 0 \/ (fdt_size # 0 /\ blob.totalsize > fdt_size)
       THEN none
     ELSE IF ~blob.offsets_ok THEN [none EXCEPT !.totalsize = blob.totalsize]
     ELSE [totalsize |-> blob.totalsize, tokens |-> blob.tokens,
           rsv |-> collect_reserved_memory_ranges(blob.tokens,
                     collect_memreserve_ranges(blob.rsvmap)),
           mem |-> collect_memory_ranges(blob.tokens)]
===============================================================================
