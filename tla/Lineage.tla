------------------------------ MODULE Lineage ------------------------------
(***************************************************************************)
(* The identities of syntax nodes (parsing/lineage.rs), and the arenas the *)
(* builder allocates from (data/ast.rs, grammar.rs).                       *)
(*                                                                         *)
(* An arena is a sequence of products; a node product owns one AST record, *)
(* and its index stands for both ids.  A token product owns none.  parent  *)
(* is the arena's parent metadata, overwritten by whichever reduction used *)
(* the record last.  A green id is the pair of the command that interned   *)
(* the tree and the tree: seal_generation drops the directory, so no later *)
(* command finds it again.                                                 *)
(*                                                                         *)
(* The lineage state ln is a record; the maps in it are partial functions. *)
(***************************************************************************)
EXTENDS Integers, Sequences, FiniteSets, SequencesExt

Put(f, key, value) == (key :> value) @@ f
Without(f, keys) == [x \in DOMAIN f \ keys |-> f[x]]
Ascending(set) ==
  [i \in 1 .. Cardinality(set) |-> CHOOSE x \in set : Cardinality({y \in set : y <= x}) = i]

-----------------------------------------------------------------------------
(* Extents *)

TokenSpan(occ) == [start |-> occ, end |-> occ, closed |-> TRUE]
PointSpan(occ) == [start |-> occ, end |-> occ, closed |-> FALSE]

\* AnchoredSpan::cover: the least and the greatest occurrence
Cover(extents, boundary) ==
  LET join(all, one) ==
        [start |-> IF one.start < all.start THEN one.start ELSE all.start,
         end |-> IF one.end > all.end THEN one.end ELSE all.end,
         closed |-> IF one.end >= all.end THEN one.closed ELSE all.closed]
  IN IF extents = <<>> THEN PointSpan(boundary) ELSE FoldLeft(join, Head(extents), Tail(extents))

-----------------------------------------------------------------------------
(* The lineage state *)

EmptyLineage ==
  [of |-> <<>>, holders |-> <<>>, fresh |-> <<>>, pending |-> <<>>, anchors |-> <<>>, anchorOf |-> <<>>,
   next |-> 0, created |-> <<>>, claimed |-> {}, inherited |-> <<>>, died |-> <<>>, diedAnchor |-> <<>>]

\* Mutant: the records of the last command stay open to inheritance.
KeepWindow(ln) == [ln EXCEPT !.pending = <<>>, !.fresh = <<>>, !.claimed = {}, !.inherited = <<>>]

\* The death journal outlives the command.
BeginCommand(ln) ==
  [ln EXCEPT !.created = <<>>, !.pending = <<>>, !.fresh = <<>>, !.claimed = {}, !.inherited = <<>>]

Bucket(ln, key) == IF key \in DOMAIN ln.anchors THEN ln.anchors[key] ELSE <<>>
AnchorRegister(ln, key, record) ==
  [ln EXCEPT !.anchors = Put(@, key, Append(Bucket(ln, key), record)), !.anchorOf = Put(@, record, key)]
AnchorUnregister(ln, record) ==
  LET key == ln.anchorOf[record]
      rest == SelectSeq(Bucket(ln, key), LAMBDA r : r # record)
  IN IF record \notin DOMAIN ln.anchorOf THEN ln
     ELSE [ln EXCEPT !.anchorOf = Without(@, {record}),
                     !.anchors = IF rest = <<>> THEN Without(@, {key}) ELSE Put(@, key, rest)]

DropHolder(ln, lineage, record) ==
  [ln EXCEPT !.holders = IF lineage \in DOMAIN @ /\ @[lineage] = record THEN Without(@, {lineage}) ELSE @]

ReserveFresh(ln, record) ==
  [ln EXCEPT !.next = @ + 1, !.fresh = Put(@, record, ln.next + 1),
             !.of = IF record \in DOMAIN @ THEN @ ELSE Put(@, record, ln.next + 1)]

\* An identity is claimed by one new record of a command at most.
Unclaimed(ln, lineage) == lineage \notin ln.claimed

\* A proof found: effective at once, the holder changes when liveness is final.
Inherit(ln, record, old, lineage) ==
  [ln EXCEPT !.of = Put(@, record, lineage), !.claimed = @ \cup {lineage},
             !.inherited = IF record \in DOMAIN @ THEN @ ELSE Put(@, record, old),
             !.pending = Put(@, record, [old |-> old, lineage |-> lineage, fresh |-> ln.fresh[record]])]

\* assign_new: the one older record of the same role and extent, or a fresh serial
AssignNew(ln, production, extent, record) ==
  LET reserved == ReserveFresh(ln, record)
      key == <<production, extent>>
      older == SelectSeq(Bucket(ln, key), LAMBDA r : ~Contains(ln.created, r))
      proved == /\ Len(older) = 1 /\ older[1] # record /\ older[1] \in DOMAIN reserved.of
                /\ Unclaimed(ln, reserved.of[older[1]])
      assigned == IF proved THEN Inherit(reserved, record, older[1], reserved.of[older[1]])
                  ELSE [reserved EXCEPT !.holders = Put(@, reserved.next, record)]
  IN AnchorRegister([assigned EXCEPT !.created = Append(@, record)], key, record)

\* mark is the length of created and the serial; a failed attempt takes back what it added.
Mark(ln) == [created |-> Len(ln.created), next |-> ln.next]

ForgetHolders(ln, record, lineages) ==
  FoldLeft(LAMBDA l, lineage : DropHolder([l EXCEPT !.claimed = @ \ {lineage}], lineage, record),
           ln, Ascending(lineages))
Forget(ln, record) ==
  LET lineages == {f[record] : f \in {g \in {ln.fresh, ln.of} : record \in DOMAIN g}}
      forgotten == ForgetHolders(ln, record, lineages)
  IN AnchorUnregister([forgotten EXCEPT !.fresh = Without(@, {record}), !.of = Without(@, {record}),
                                        !.pending = Without(@, {record}), !.inherited = Without(@, {record})],
                      record)
Rollback(ln, mark) ==
  LET drained == SubSeq(ln.created, mark.created + 1, Len(ln.created))
  IN [FoldLeft(Forget, ln, drained) EXCEPT !.created = SubSeq(@, 1, mark.created), !.next = mark.next]

-----------------------------------------------------------------------------
(* The context proofs *)

DirectChildRecords(arena, record) == SelectSeq(arena[record].children, LAMBDA c : arena[c].kind = "node")

Resolved(ln, record) ==
  CASE record \in DOMAIN ln.of -> ln.of[record]
    [] record \notin DOMAIN ln.of /\ record \in DOMAIN ln.died -> ln.died[record]
    [] OTHER -> 0

\* neighbors_agree: known identities equal, otherwise the same record
SideAgrees(ln, left, right) ==
  IF {left, right} \subseteq DOMAIN ln.of THEN ln.of[left] = ln.of[right] ELSE left = right
NeighborsAgree(ln, new, old, i) ==
  \A k \in {i - 1, i + 1} \cap DOMAIN new : SideAgrees(ln, new[k], old[k])

\* The same position under a parent whose own correspondence is proved.
ContextProof(ln, arena, parent, record) ==
  LET new == DirectChildRecords(arena, parent[record])
      old == DirectChildRecords(arena, ln.inherited[parent[record]])
      at == {i \in DOMAIN new : new[i] = record /\ \A k \in 1 .. i - 1 : new[k] # record}
      proved == {i \in at : /\ Resolved(ln, old[i]) # 0 /\ Unclaimed(ln, Resolved(ln, old[i]))
                            /\ NeighborsAgree(ln, new, old, i)}
  IN IF Len(new) # Len(old) \/ proved = {} THEN ln
     ELSE Inherit(ln, record, old[CHOOSE i \in proved : TRUE], Resolved(ln, old[CHOOSE i \in proved : TRUE]))

ResolveOne(ln, arena, parent, record) ==
  IF /\ record \notin DOMAIN ln.pending /\ record \in DOMAIN parent /\ record \in DOMAIN ln.fresh
     /\ parent[record] \in DOMAIN ln.inherited
  THEN ContextProof(ln, arena, parent, record) ELSE ln

RECURSIVE ResolveContexts(_, _, _)
ResolveAgain(before, after, arena, parent) ==
  IF after = before THEN after ELSE ResolveContexts(after, arena, parent)
ResolveContexts(ln, arena, parent) ==
  ResolveAgain(ln, FoldLeft(LAMBDA l, r : ResolveOne(l, arena, parent, r), ln, Reverse(ln.created)), arena, parent)

-----------------------------------------------------------------------------
(* Settling against the final live set *)

Dormant == -1   \* the role a record without a lineage is indexed under

\* A record that re-enters takes back its identity unless somebody holds it.
Revive(ln, arena, record) ==
  LET lineage == ln.died[record]
      bound == [ln EXCEPT !.of = Put(@, record, lineage), !.holders = Put(@, lineage, record),
                          !.died = Without(@, {record}), !.diedAnchor = Without(@, {record})]
  IN IF record \in DOMAIN ln.died /\ lineage \notin DOMAIN ln.holders
     THEN IF record \in DOMAIN ln.diedAnchor THEN AnchorRegister(bound, ln.diedAnchor[record], record) ELSE bound
     ELSE AssignNew(ln, Dormant, arena[record].extent, record)

\* Mutant: the old identity, even while its bearer lives.
CommitAlways(ln, live, record) ==
  LET proof == ln.pending[record]
  IN IF record \notin DOMAIN ln.pending THEN ln
     ELSE [DropHolder(ln, proof.fresh, record) EXCEPT !.of = Put(@, record, proof.lineage), !.holders = Put(@, proof.lineage, record)]

\* The reserved serial while the old bearer lives, otherwise the old identity.
CommitTransfer(ln, live, record) ==
  LET proof == ln.pending[record]
      freed == DropHolder(ln, proof.fresh, record)
  IN CASE record \notin DOMAIN ln.pending -> ln
       [] record \in DOMAIN ln.pending /\ proof.old \in live ->
            [ln EXCEPT !.of = Put(@, record, proof.fresh), !.holders = Put(@, proof.fresh, record),
                       !.inherited = Without(@, {record})]
       [] OTHER -> [freed EXCEPT !.of = Put(@, record, proof.lineage), !.holders = Put(@, proof.lineage, record)]

\* unbind_dead: only the record that still bears the identity gives up the holder
UnbindDead(ln, record) ==
  LET lineage == ln.of[record]
      bound == record \in DOMAIN ln.of
      journaled == IF bound THEN DropHolder([ln EXCEPT !.died = Put(@, record, lineage)], lineage, record) ELSE ln
      anchored == IF record \in DOMAIN ln.anchorOf
                  THEN [journaled EXCEPT !.diedAnchor = Put(@, record, ln.anchorOf[record])] ELSE journaled
  IN AnchorUnregister([anchored EXCEPT !.of = Without(@, {record}), !.pending = Without(@, {record})], record)

SettleWindow(ln, live, dead) ==
  LET committed == FoldLeft(LAMBDA l, r : CommitTransfer(l, live, r), ln, ln.created)
      failed == {r \in ToSet(ln.created) : r \notin live}
      unbound == FoldLeft(UnbindDead, committed, Ascending(dead \cup failed))
  IN [unbound EXCEPT !.pending = <<>>, !.claimed = {}, !.fresh = <<>>]

Settle(ln, arena, parent, live, newlyLive, newlyDead) ==
  LET dormant == SelectSeq(Ascending(newlyLive), LAMBDA r : r \notin DOMAIN ln.of)
      revived == FoldLeft(LAMBDA l, r : Revive(l, arena, r), ln, dormant)
  IN SettleWindow(ResolveContexts(revived, arena, parent), live, newlyDead)

-----------------------------------------------------------------------------
(* Allocating a node *)

Green(gen, symbol, children) == [gen |-> gen, symbol |-> symbol, children |-> children]

AllocToken(c, term, occ) ==
  [c EXCEPT !.arena = Append(@, [kind |-> "token", production |-> 0, children |-> <<>>,
                                 extent |-> TokenSpan(occ), green |-> Green(c.gen, term, <<>>)])]

\* alloc_node: the record, its identity, its children's parent, its product
AllocNode(c, production, symbol, children, boundary) ==
  LET extent == Cover([i \in DOMAIN children |-> c.arena[children[i]].extent], boundary)
      record == Len(c.arena) + 1
      product == [kind |-> "node", production |-> production, children |-> children, extent |-> extent,
                  green |-> Green(c.gen, symbol, [i \in DOMAIN children |-> c.arena[children[i]].green])]
      owned == {children[i] : i \in {k \in DOMAIN children : c.arena[children[k]].kind = "node"}}
  IN [c EXCEPT !.arena = Append(@, product), !.ln = AssignNew(@, production, extent, record),
               !.parent = [r \in owned |-> record] @@ @]
=============================================================================
