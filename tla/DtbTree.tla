------------------------------- MODULE DtbTree -------------------------------
(* What the walkers of Dtb should find, read off the tree itself: a node is   *)
(* [name, props, kids].  Flatten is the structure block of a tree.            *)
EXTENDS Integers, Sequences, FiniteSets, Dtb

Node(name, props, kids) == [name |-> name, kids |-> kids, props |-> props]

RECURSIVE Flatten(_)
Flatten(n) ==
  <<BEGIN_NODE(n.name)>> \o n.props
    \o FlattenSeq([i \in DOMAIN n.kids |-> Flatten(n.kids[i])]) \o <<END_NODE>>

Tokens(tree) == Flatten(tree) \o <<FDT_END>>

HasProp(n, p) == \E i \in DOMAIN n.props : n.props[i].t = "PROP" /\ n.props[i].name = p
PropAt(n, p) == CHOOSE i \in DOMAIN n.props : n.props[i].t = "PROP" /\ n.props[i].name = p
PropVal(n, p) == n.props[PropAt(n, p)].val
CellsOf(n, p, inherited) == IF HasProp(n, p) THEN PropVal(n, p)[1] ELSE inherited

(* The nodes in document order, each with the names above it and the cell     *)
(* counts its parent gives it.                                                *)
RECURSIVE NodeList(_, _, _, _)
NodeList(n, above, a, s) ==
  <<[node |-> n, above |-> above, a |-> a, s |-> s]>>
    \o FlattenSeq([i \in DOMAIN n.kids |->
         NodeList(n.kids[i], Append(above, n.name),
                  CellsOf(n, "#address-cells", a), CellsOf(n, "#size-cells", s))])

Nodes(tree) == NodeList(tree, <<>>, 2, 2)

Depth(tree) == LET ns == Nodes(tree)
               IN CHOOSE d \in 1..Len(Tokens(tree)) :
                    /\ \E i \in DOMAIN ns : Len(ns[i].above) + 1 = d
                    /\ \A i \in DOMAIN ns : Len(ns[i].above) + 1 <= d

(* Every range of the "reg" of a node of the list. *)
RegRanges(x) ==
  IF ~HasProp(x.node, "reg") \/ x.a \notin 1..2 \/ x.s \notin 1..2 THEN <<>>
  ELSE LET v == PropVal(x.node, "reg")
       IN SelectSeq([i \in 1..(Len(v) \div (x.a + x.s)) |->
                       Tuple(v, (i - 1) * (x.a + x.s), x.a, x.s)],
                    LAMBDA r : r.size # 0)

RangesOf(tree, Test(_)) ==
  FlattenSeq([i \in DOMAIN Nodes(tree) |->
                IF Test(Nodes(tree)[i]) THEN RegRanges(Nodes(tree)[i]) ELSE <<>>])

UpTo(n, s) == SubSeq(s, 1, IF Len(s) < n THEN Len(s) ELSE n)

TreeMemory(tree) == RangesOf(tree, LAMBDA x : x.node.name \in {"memory", "memory@"})
TreeReserved(tree) == RangesOf(tree, LAMBDA x : "reserved-memory" \in Range(x.above))

Is(x, compat) == HasProp(x.node, "compatible") /\ compat \in Range(PropVal(x.node, "compatible"))
CompatibleFirst(x) == PropAt(x.node, "compatible") < PropAt(x.node, "reg")

(* The nodes a scan for a compatible string can see. *)
Visible(tree, compat) ==
  RangesOf(tree, LAMBDA x : Is(x, compat) /\ HasProp(x.node, "reg") /\ CompatibleFirst(x))

(* The address of the node with this path, 0 without one. *)
AddressAt(tree, comps) ==
  LET hit == SelectSeq(Nodes(tree), LAMBDA x : Len(x.above) = Len(comps)
                         /\ Tail(Append(x.above, x.node.name)) = comps)
      x == hit[1]
      v == PropVal(x.node, "reg")
  IN IF \/ comps = <<>> \/ hit = <<>> \/ ~HasProp(x.node, "reg")
        \/ x.a \notin 1..2 \/ Len(v) < x.a + x.s THEN 0
     ELSE Value(SubSeq(v, 1, x.a))

Under(tree, name, p) ==
  LET hit == SelectSeq(Nodes(tree), LAMBDA x : x.node.name = name /\ HasProp(x.node, p))
  IN IF hit = <<>> THEN NoPath ELSE PropVal(hit[1].node, p)

(* The console: where stdout-path leads (options may follow the path there,   *)
(* not in an alias), else the first visible pl011.                            *)
TreeUart(tree) ==
  LET out == Under(tree, "chosen", "stdout-path")
      path == IF out.abs \/ out = NoPath THEN out ELSE Under(tree, "aliases", out.comps[1])
      direct == IF path.abs /\ (out.abs \/ ~path.opts) THEN AddressAt(tree, path.comps) ELSE 0
      scan == Visible(tree, "arm,pl011")
  IN IF direct # 0 THEN direct ELSE IF scan = <<>> THEN 0 ELSE scan[1].base
===============================================================================
