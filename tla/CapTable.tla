------------------------------ MODULE CapTable ------------------------------
(***************************************************************************)
(* Capability tables (Kern/Kernel/cap/cap_table.c) and the operations on     *)
(* them (cap_ops.c).  A handle is an index and a generation; removing an      *)
(* entry bumps the generation of its slot, so that old handles go stale.      *)
(*                                                                            *)
(* The calls do not mask interrupts: in this tree only the Core thread makes  *)
(* them, so each is one action.  Left out: the type tag, which travels with   *)
(* the object, and calls that fail, which change nothing (an insert that gets *)
(* no entry object gives its slot back to the top of the free stack).  Added: *)
(* root, the cap_create from which an entry descends, which no code reads.    *)
(***************************************************************************)
EXTENDS Integers, Sequences, FiniteSetsExt, Functions, Null

CONSTANTS Table,     \* capability tables
          NSlots,    \* CONFIG_CAP_TABLE_SLOTS
          GenMod,    \* 2^32, the range of a generation
          Obj,       \* kernel objects
          Root,      \* names for calls of cap_create
          Right,     \* the bits of cap_rights_t
          MaxIssue   \* bound on the handles issued by one table

ASSUME CapAssumption ==
  /\ NSlots \in Nat
  /\ GenMod \in Nat /\ GenMod >= 2
  /\ {"DUP", "TRANSFER"} \subseteq Right
  /\ MaxIssue \in Nat

Slot  == 0..(NSlots - 1)
Gen   == 1..(GenMod - 1)
Entry == [rights : SUBSET Right, obj : Obj, gen : Gen, root : Root]

ASSUME NullAssumption == NULL \notin Entry

VARIABLES
  caps,     \* each table: its slots, generations and stack of free slots, and
            \* the generations issued for each slot so far, in order
  granted   \* the rights each root was created with

vars == <<caps, granted>>

(* cap_table_init *)
EmptyTable ==
  [slots  |-> [i \in Slot |-> NULL],
   gens   |-> [i \in Slot |-> 1],
   free   |-> [k \in 1..NSlots |-> k - 1],
   issued |-> [i \in Slot |-> <<>>]]

Init ==
  /\ caps = [t \in Table |-> EmptyTable]
  /\ granted = [r \in Root |-> {}]

-----------------------------------------------------------------------------
(* Operations on one table.  Mutants: the generation stays; it may become 0.  *)
keep_gen(gen) == gen
bump_to_zero(gen) == (gen + 1) % GenMod

(* Generation 0 is reserved. *)
cap_bump_gen(gen) ==
  LET next == (gen + 1) % GenMod IN IF next = 0 THEN 1 ELSE next

(* cap_lookup_ex: does the handle h name an entry with the rights need?       *)
cap_lookup(tab, h, need) ==
  /\ h.idx \in Slot
  /\ tab.slots[h.idx] # NULL
  /\ h.gen # 0 /\ h.gen = tab.gens[h.idx] /\ h.gen = tab.slots[h.idx].gen
  /\ need \subseteq tab.slots[h.idx].rights

(* The slot cap_table_alloc_slot hands out: the top of the free stack.        *)
TopFree(tab) == tab.free[Len(tab.free)]
PopFree(free) == SubSeq(free, 1, Len(free) - 1)

(* The bound: so many handles have been issued by the table. *)
Issued(tab) == MapThenSumSet(LAMBDA i : Len(tab.issued[i]), Slot)

CanInsert(tab) == tab.free # <<>> /\ Issued(tab) < MaxIssue

(* Mutant: the free index is read, not popped. *)
insert_without_pop(tab, rights, obj, root) ==
  LET i == TopFree(tab)
      g == tab.gens[i]
  IN  [tab EXCEPT !.slots[i] = [rights |-> rights, obj |-> obj, gen |-> g, root |-> root],
                  !.issued[i] = Append(@, g)]

(* Mutant: the generation is bumped on insertion too, in the entry only. *)
insert_bumps_entry(tab, rights, obj, root) ==
  LET i == TopFree(tab)
      g == cap_bump_gen(tab.gens[i])
  IN  [tab EXCEPT !.slots[i] = [rights |-> rights, obj |-> obj, gen |-> g, root |-> root],
                  !.free = PopFree(@),
                  !.issued[i] = Append(@, g)]

cap_table_insert(tab, rights, obj, root) ==
  LET i == TopFree(tab)
      g == tab.gens[i]
      e == [rights |-> rights, obj |-> obj, gen |-> g, root |-> root]
  IN  [slots  |-> [tab.slots EXCEPT ![i] = e],
       gens   |-> tab.gens,
       free   |-> PopFree(tab.free),
       issued |-> [tab.issued EXCEPT ![i] = Append(@, g)]]

cap_table_free_slot(free, i) == IF Len(free) < NSlots THEN Append(free, i) ELSE free

cap_table_remove(tab, i) ==
  [slots  |-> [tab.slots EXCEPT ![i] = NULL],
   gens   |-> [tab.gens EXCEPT ![i] = cap_bump_gen(@)],
   free   |-> cap_table_free_slot(tab.free, i),
   issued |-> tab.issued]

-----------------------------------------------------------------------------
Handle == [idx : 0..NSlots, gen : 0..(GenMod - 1)]

(* Where the entries that descend from r are.                                 *)
Entries(r) ==
  {p \in Table \X Slot : /\ caps[p[1]].slots[p[2]] # NULL
                         /\ caps[p[1]].slots[p[2]].root = r}

(* An object may get several capabilities, each a root of its own: kmain      *)
(* makes one to send to the kernel log and one to receive from it.            *)
cap_create(t, rights, o, r) ==
  /\ Entries(r) = {}
  /\ CanInsert(caps[t])
  /\ caps' = [caps EXCEPT ![t] = cap_table_insert(@, rights, o, r)]
  /\ granted' = [granted EXCEPT ![r] = rights]

(* Mutants: dup asks for no right; it adds the mask instead of applying it.   *)
dup_unchecked(src, h, dst, mask) ==
  LET e == caps[src].slots[h.idx]
  IN  /\ cap_lookup(caps[src], h, {})
      /\ CanInsert(caps[dst])
      /\ caps' = [caps EXCEPT ![dst] = cap_table_insert(@, e.rights \cap mask, e.obj, e.root)]
      /\ UNCHANGED granted

dup_adds_mask(src, h, dst, mask) ==
  LET e == caps[src].slots[h.idx]
  IN  /\ cap_lookup(caps[src], h, {"DUP"})
      /\ CanInsert(caps[dst])
      /\ caps' = [caps EXCEPT ![dst] = cap_table_insert(@, e.rights \cup mask, e.obj, e.root)]
      /\ UNCHANGED granted

cap_dup(src, h, dst, mask) ==
  LET e == caps[src].slots[h.idx]
  IN  /\ cap_lookup(caps[src], h, {"DUP"})
      /\ CanInsert(caps[dst])
      /\ caps' = [caps EXCEPT ![dst] = cap_table_insert(@, e.rights \cap mask, e.obj, e.root)]
      /\ UNCHANGED granted

(* Insert into dst, then remove from src; both may be the same table.  The    *)
(* removal finds the entry it has just looked up, so there is no rollback.    *)
cap_transfer(src, h, dst, mask) ==
  LET e     == caps[src].slots[h.idx]
      added == [caps EXCEPT ![dst] = cap_table_insert(@, e.rights \cap mask, e.obj, e.root)]
  IN  /\ cap_lookup(caps[src], h, {"TRANSFER"})
      /\ CanInsert(caps[dst])
      /\ caps' = [added EXCEPT ![src] = cap_table_remove(@, h.idx)]
      /\ UNCHANGED granted

(* cap_drop, and cap_invalidate, which is the same: no right is asked for.    *)
cap_drop(t, h) ==
  /\ cap_lookup(caps[t], h, {})
  /\ caps' = [caps EXCEPT ![t] = cap_table_remove(@, h.idx)]
  /\ UNCHANGED granted

(* The scan removes the entries of o in index order.  free_slot never finds   *)
(* the stack full here, as the proofs show, so the indices are all pushed.    *)
cap_table_invalidate_object(t, o) ==
  LET tab  == caps[t]
      hits == {i \in Slot : tab.slots[i] # NULL /\ tab.slots[i].obj = o}
  IN  \E order \in [1..Cardinality(hits) -> hits] :
        /\ \A a, b \in DOMAIN order : a < b => order[a] < order[b]
        /\ Range(order) = hits
        /\ caps' = [caps EXCEPT ![t] =
             [slots  |-> [i \in Slot |-> IF i \in hits THEN NULL ELSE tab.slots[i]],
              gens   |-> [i \in Slot |-> IF i \in hits THEN cap_bump_gen(tab.gens[i])
                                                       ELSE tab.gens[i]],
              free   |-> tab.free \o order,
              issued |-> tab.issued]]
        /\ UNCHANGED granted

(* Handles that open a slot of t; with another one a call changes nothing.    *)
Opens(t) == {h \in Handle : cap_lookup(caps[t], h, {})}

Next ==
  \/ \E t \in Table, o \in Obj, r \in Root, rights \in SUBSET Right :
       cap_create(t, rights, o, r)
  \/ \E src \in Table : \E h \in Opens(src) :
       \/ \E dst \in Table, mask \in SUBSET Right :
            cap_dup(src, h, dst, mask) \/ cap_transfer(src, h, dst, mask)
       \/ cap_drop(src, h)
  \/ \E t \in Table, o \in Obj : cap_table_invalidate_object(t, o)

Spec == Init /\ [][Next]_vars

-----------------------------------------------------------------------------
CapTables == [slots  : [Slot -> Entry \cup {NULL}],
              gens   : [Slot -> Gen],
              free   : Seq(Slot),
              issued : [Slot -> Seq(Gen)]]

(* Tables have the shape cap_table.h gives them. *)
TypeOK ==
  /\ caps \in [Table -> CapTables]
  /\ granted \in [Root -> SUBSET Right]

(* The free stack is exact: it holds every empty slot once and no occupied    *)
(* one, so no insert overwrites a live entry and no slot is ever lost to the  *)
(* stack guard of cap_table_free_slot.                                        *)
FreeExact ==
  \A t \in Table :
    /\ IsInjective(caps[t].free)
    /\ Range(caps[t].free) = {i \in Slot : caps[t].slots[i] = NULL}

(* A live entry answers to the handle that was issued for it: the generation  *)
(* of its slot is still the one it was inserted with.                         *)
LiveHandleValid ==
  \A t \in Table : \A i \in Slot : caps[t].slots[i] # NULL =>
    /\ caps[t].slots[i].gen = caps[t].gens[i]
    /\ caps[t].issued[i] # <<>> /\ caps[t].issued[i][Len(caps[t].issued[i])] = caps[t].gens[i]

(* "Stale handle must fail due to gen bump" (cap_ops_selftest): a handle      *)
(* issued for a slot before the latest one opens the slot again only after    *)
(* all 2^32 - 1 generations have been through it.                             *)
StaleHandleFails ==
  \A t \in Table : \A i \in Slot : \A n \in DOMAIN caps[t].issued[i] :
    cap_lookup(caps[t], [idx |-> i, gen |-> caps[t].issued[i][n]], {}) =>
      \/ n = Len(caps[t].issued[i])
      \/ Len(caps[t].issued[i]) - n >= GenMod - 1

(* Rights never grow: whatever chain of dups and transfers, with any masks,   *)
(* an entry came from, it has no right that its cap_create did not give.      *)
RightsNeverGrow ==
  \A t \in Table : \A i \in Slot : caps[t].slots[i] # NULL =>
    caps[t].slots[i].rights \subseteq granted[caps[t].slots[i].root]

(* A capability created without the DUP right is never in two places, however *)
(* often it is transferred.                                                   *)
NoCopyWithoutDup ==
  \A r \in Root : "DUP" \notin granted[r] => \A p, q \in Entries(r) : p = q
=============================================================================
