------------------------------- MODULE Tries -------------------------------
(***************************************************************************)
(* The two persistent maps of src/src/reactive/store.rs: RadixMap, a trie  *)
(* over the bytes of a u64, most significant first, and Hamt, a trie over  *)
(* the fragments of a key's hash, least significant first, that ends in    *)
(* buckets decided by key equality.  A branch keeps a bitmap of the slots  *)
(* in use and the children packed in slot order, so the position of a      *)
(* child is the rank of its bit.  Widths are parameters: 256 slots and 8   *)
(* levels, 32 slots and 13 levels in the code.                             *)
(***************************************************************************)
EXTENDS Naturals, Sequences, FiniteSets, SequencesExt

CONSTANTS RadixFan, RadixDepth, HamtFan, HamtMaxDepth, Hash

ASSUME TrieWidths ==
  /\ RadixFan \in Nat \ {0, 1} /\ RadixDepth \in Nat \ {0}
  /\ HamtFan \in Nat \ {0, 1} /\ HamtMaxDepth \in Nat \ {0}

NoNode == [kind |-> "none"]
Leaf(k, v) == [kind |-> "leaf", key |-> k, value |-> v]
Bucket(es) == [kind |-> "bucket", entries |-> es]
Branch(bitmap, children) == [kind |-> "branch", bitmap |-> bitmap, children |-> children]
EmptyMap == [root |-> NoNode, len |-> 0]

\* The position of a slot's child: the number of lower bits set.
Rank(bitmap, slot) == Cardinality({b \in bitmap : b < slot}) + 1

\* A copy of a branch with one child replaced or inserted at its rank.
WithChild(node, slot, child) ==
  IF slot \in node.bitmap
    THEN Branch(node.bitmap, [node.children EXCEPT ![Rank(node.bitmap, slot)] = child])
    ELSE Branch(node.bitmap \cup {slot}, InsertAt(node.children, Rank(node.bitmap, slot), child))

\* A copy of a branch with one child pruned.
WithoutChild(node, slot) ==
  Branch(node.bitmap \ {slot}, RemoveAt(node.children, Rank(node.bitmap, slot)))

Child(node, slot) == node.children[Rank(node.bitmap, slot)]

-----------------------------------------------------------------------------
(* RadixMap *)

Nibble(key, depth) == (key \div RadixFan^(RadixDepth - 1 - depth)) % RadixFan

RECURSIVE RadixFind(_, _, _)
RadixFind(node, key, depth) ==
  IF node.kind = "leaf" THEN (IF node.key = key THEN node ELSE NoNode)
  ELSE IF node.kind = "none" \/ depth = RadixDepth \/ Nibble(key, depth) \notin node.bitmap THEN NoNode
  ELSE RadixFind(Child(node, Nibble(key, depth)), key, depth + 1)

RadixGet(map, key) == RadixFind(map.root, key, 0)

\* Two leaves that disagree first at some depth: one branch per shared byte.
RECURSIVE SplitLeaf(_, _, _)
SplitLeaf(old, new, depth) ==
  LET slot == Nibble(new.key, depth) IN
  IF Nibble(old.key, depth) = slot
    THEN Branch({slot}, <<SplitLeaf(old, new, depth + 1)>>)
    ELSE WithChild(Branch({Nibble(old.key, depth)}, <<old>>), slot, new)

RECURSIVE RadixInsertAt(_, _, _)
RadixInsertAt(node, leaf, depth) ==
  LET slot == Nibble(leaf.key, depth) IN
  CASE node.kind = "leaf" /\ (depth = RadixDepth \/ node.key = leaf.key) -> leaf
    [] node.kind = "leaf" /\ depth < RadixDepth /\ node.key # leaf.key -> SplitLeaf(node, leaf, depth)
    [] node.kind = "branch" ->
         WithChild(node, slot,
                   IF slot \in node.bitmap THEN RadixInsertAt(Child(node, slot), leaf, depth + 1) ELSE leaf)

RadixInsert(map, key, value) ==
  [root |-> IF map.root = NoNode THEN Leaf(key, value) ELSE RadixInsertAt(map.root, Leaf(key, value), 0),
   len |-> map.len + IF RadixGet(map, key) = NoNode THEN 1 ELSE 0]

\* What removing leaves of a branch: nothing, its only leaf (below the root), or the branch.
RadixCollapse(node, depth) ==
  CASE node.children = <<>> -> NoNode
    [] Len(node.children) = 1 /\ node.children[1].kind = "leaf" /\ depth > 0 -> node.children[1]
    [] OTHER -> node

\* Only called for a key that is in the map: remove_at's Missing changes nothing.
RECURSIVE RadixRemoveAt(_, _, _)
RadixRemoveAt(node, key, depth) ==
  IF node.kind = "leaf" THEN NoNode
  ELSE LET slot == Nibble(key, depth)
           rest == RadixRemoveAt(Child(node, slot), key, depth + 1)
       IN RadixCollapse(IF rest = NoNode THEN WithoutChild(node, slot) ELSE WithChild(node, slot, rest), depth)

RadixRemove(map, key) ==
  IF RadixGet(map, key) = NoNode THEN map
  ELSE [root |-> RadixRemoveAt(map.root, key, 0), len |-> map.len - 1]

\* The leaves in the order iter visits them.
RECURSIVE RadixLeaves(_)
RadixLeaves(node) ==
  CASE node.kind = "none" -> <<>>
    [] node.kind = "leaf" -> <<node>>
    [] node.kind = "branch" -> FlattenSeq([i \in DOMAIN node.children |-> RadixLeaves(node.children[i])])

RadixIter(map) == RadixLeaves(map.root)

-----------------------------------------------------------------------------
(* Hamt *)

Fragment(hash, depth) == (hash \div HamtFan^depth) % HamtFan

Entry(k, v) == [hash |-> Hash[k], key |-> k, value |-> v]
Same(e, k) == e.hash = Hash[k] /\ e.key = k

RECURSIVE HamtFind(_, _, _)
HamtFind(node, key, depth) ==
  LET slot == Fragment(Hash[key], depth) IN
  CASE node.kind = "bucket" ->
         IF \E i \in DOMAIN node.entries : Same(node.entries[i], key)
           THEN SelectSeq(node.entries, LAMBDA e : Same(e, key))[1] ELSE NoNode
    [] node.kind = "branch" /\ slot \in node.bitmap -> HamtFind(Child(node, slot), key, depth + 1)
    [] OTHER -> NoNode

HamtGet(map, key) == HamtFind(map.root, key, 0)

\* Mutant: the entry is pushed although the key has one.
ReplaceInBucketNever(es, e) == Append(es, e)

\* replace_in_bucket, or the entry pushed at the end.
ReplaceInBucket(es, e) ==
  IF \E i \in DOMAIN es : Same(es[i], e.key)
    THEN [i \in DOMAIN es |-> IF Same(es[i], e.key) THEN e ELSE es[i]]
    ELSE Append(es, e)

\* A bucket whose hashes differ is split by the fragment of this depth only:
\* entries that agree on it share a bucket again.
SplitBucket(es, depth) ==
  LET slots == {Fragment(es[i].hash, depth) : i \in DOMAIN es}
      Group(s) == Bucket(SelectSeq(es, LAMBDA e : Fragment(e.hash, depth) = s))
      order == SetToSortSeq(slots, <)
  IN Branch(slots, [i \in DOMAIN order |-> Group(order[i])])

RECURSIVE HamtInsertAt(_, _, _)
HamtInsertAt(node, e, depth) ==
  LET slot == Fragment(e.hash, depth) IN
  IF node.kind = "bucket"
    THEN LET es == ReplaceInBucket(node.entries, e) IN
         IF \/ Len(es) = Len(node.entries)
            \/ \A i \in DOMAIN es : es[i].hash = e.hash
            \/ depth + 1 >= HamtMaxDepth
           THEN Bucket(es) ELSE SplitBucket(es, depth)
    ELSE WithChild(node, slot,
                   IF slot \in node.bitmap THEN HamtInsertAt(Child(node, slot), e, depth + 1)
                   ELSE Bucket(<<e>>))

HamtInsert(map, key, value) ==
  [root |-> IF map.root = NoNode THEN Bucket(<<Entry(key, value)>>)
            ELSE HamtInsertAt(map.root, Entry(key, value), 0),
   len |-> map.len + IF HamtGet(map, key) = NoNode THEN 1 ELSE 0]

\* What removing leaves of a branch: nothing, its only bucket, or the branch.
HamtCollapse(node) ==
  CASE node.children = <<>> -> NoNode
    [] Len(node.children) = 1 /\ node.children[1].kind = "bucket" -> node.children[1]
    [] OTHER -> node

RECURSIVE HamtRemoveAt(_, _, _)
HamtRemoveAt(node, key, depth) ==
  IF node.kind = "bucket"
    THEN LET es == SelectSeq(node.entries, LAMBDA e : ~Same(e, key)) IN
         IF es = <<>> THEN NoNode ELSE Bucket(es)
    ELSE LET slot == Fragment(Hash[key], depth)
             rest == HamtRemoveAt(Child(node, slot), key, depth + 1)
         IN HamtCollapse(IF rest = NoNode THEN WithoutChild(node, slot) ELSE WithChild(node, slot, rest))

HamtRemove(map, key) ==
  IF HamtGet(map, key) = NoNode THEN map
  ELSE [root |-> HamtRemoveAt(map.root, key, 0), len |-> map.len - 1]

RECURSIVE HamtEntries(_)
HamtEntries(node) ==
  CASE node.kind = "none" -> <<>>
    [] node.kind = "bucket" -> node.entries
    [] node.kind = "branch" -> FlattenSeq([i \in DOMAIN node.children |-> HamtEntries(node.children[i])])

HamtIter(map) == HamtEntries(map.root)
=============================================================================
