-------------------------------- MODULE Tape --------------------------------
(***************************************************************************)
(* StableTape of src/src/framework/tape.rs: the persistent sequence under  *)
(* the lexer's and the parser's documents.  A tape is a rope of leaves of  *)
(* at most LeafMax entries; every leaf has an order label, a binary        *)
(* fraction, that an edit elsewhere does not change, and an occurrence     *)
(* index finds an entry by leaf label and slot.  Operations take the next  *)
(* node identity of the allocator and return it with their result.         *)
(***************************************************************************)
EXTENDS Integers, Sequences, FiniteSets, SequencesExt, TLC

CONSTANTS LeafMax

ASSUME LeafMaxPositive == LeafMax \in Nat \ {0}

NoTape == [kind |-> "none"]

-----------------------------------------------------------------------------
(* LeafOrderKey: the bits of a fraction in (0,1), without trailing zeros *)

Bit(key, i) == IF i \in DOMAIN key THEN key[i] ELSE 0

KeyLess(a, b) ==
  \E i \in 1 .. (Len(a) + Len(b)) : Bit(a, i) < Bit(b, i) /\ \A j \in 1 .. i - 1 : Bit(a, j) = Bit(b, j)

Canonical(bits) == SubSeq(bits, 1, Max({0} \cup {i \in DOMAIN bits : bits[i] = 1}))

\* The (ordinal+1)-th of total evenly spaced labels of the least sufficient width.
InitialKey(ordinal, total) ==
  LET width == CHOOSE w \in 0 .. total : 2^w > total /\ (w = 0 \/ 2^(w - 1) <= total)
  IN Canonical([i \in 1 .. width |-> ((ordinal + 1) \div 2^(width - i)) % 2])

WithIncrementAt(key, precision) ==
  key \o [i \in 1 .. precision - 1 - Len(key) |-> 0] \o <<1>>

\* LeafOrderKey::between; <<>> is no neighbour.  The loop tries the precisions in turn.
Between(left, right) ==
  CASE left = <<>> /\ right = <<>> -> <<1>>
    [] left = <<>> /\ right # <<>> -> <<0>> \o right
    [] left # <<>> /\ right = <<>> -> WithIncrementAt(left, Len(left) + 1)
    [] OTHER ->
         LET fits == {p \in Len(left) + 1 .. Len(left) + Len(right) + 1 :
                        KeyLess(WithIncrementAt(left, p), right)}
         IN WithIncrementAt(left, Min(fits))

-----------------------------------------------------------------------------
(* Nodes *)

\* An entry is [id, bytes, semantic]; the structural hash of a metric is left
\* out: it only rejects in exact_eq, which no caller outside the tests uses.
ZeroMetric == [lexical |-> 0, semantic |-> 0, bytes |-> 0]
EntryMetric(e) == [lexical |-> 1, semantic |-> IF e.semantic THEN 1 ELSE 0, bytes |-> e.bytes]
AddMetric(a, b) ==
  [lexical |-> a.lexical + b.lexical, semantic |-> a.semantic + b.semantic, bytes |-> a.bytes + b.bytes]
MetricOf(entries) == FoldLeft(LAMBDA m, e : AddMetric(m, EntryMetric(e)), ZeroMetric, entries)

MakeLeaf(entries, order, id) ==
  [kind |-> "leaf", id |-> id, entries |-> entries, metric |-> MetricOf(entries),
   len |-> Len(entries), height |-> 1, first |-> order, last |-> order]

MakeBranch(left, right, id) ==
  [kind |-> "branch", id |-> id, left |-> left, right |-> right,
   metric |-> AddMetric(left.metric, right.metric), len |-> left.len + right.len,
   height |-> 1 + (IF left.height > right.height THEN left.height ELSE right.height),
   first |-> left.first, last |-> right.last]

Result(node, next) == [node |-> node, next |-> next]

\* build_balanced: neighbours are paired level by level, an odd one goes up alone.
RECURSIVE BuildBalanced(_, _)
BuildBalanced(nodes, next) ==
  LET n == Len(nodes) IN
  IF n = 1 THEN Result(nodes[1], next)
  ELSE BuildBalanced([i \in 1 .. (n + 1) \div 2 |->
                        IF 2 * i <= n THEN MakeBranch(nodes[2 * i - 1], nodes[2 * i], next + i - 1) ELSE nodes[n]],
                     next + n \div 2)

Chunks(entries) ==
  [i \in 1 .. (Len(entries) + LeafMax - 1) \div LeafMax |->
     SubSeq(entries, (i - 1) * LeafMax + 1, Min({i * LeafMax, Len(entries)}))]

FromEntries(entries, next) ==
  LET chunks == Chunks(entries)
      n == Len(chunks)
  IN IF n = 0 THEN Result(NoTape, next)
     ELSE BuildBalanced([i \in 1 .. n |-> MakeLeaf(chunks[i], InitialKey(i - 1, n), next + i - 1)], next + n)

\* Mutant: the identity of a new branch is handed out again.
Join2Stale(left, right, next) == Result(MakeBranch(left, right, next), next)

\* make_branch, and the allocator after it.
Join2(left, right, next) == Result(MakeBranch(left, right, next), next + 1)

\* Mutant: the double rotation swaps the halves of the pivot.
RebalanceSwapped(left, right, next) ==
  CASE left.height > right.height + 1 ->
         Join2(MakeBranch(left.left, left.right.right, next), MakeBranch(left.right.left, right, next + 1), next + 2)
    [] right.height > left.height + 1 ->
         Join2(MakeBranch(left, right.left, next), right.right, next + 1)
    [] OTHER -> Join2(left, right, next)

\* rebalance: single and double rotations, each branch made anew.
Rebalance(left, right, next) ==
  CASE left.height > right.height + 1 ->
         IF left.left.height >= left.right.height
           THEN Join2(left.left, MakeBranch(left.right, right, next), next + 1)
           ELSE Join2(MakeBranch(left.left, left.right.left, next),
                      MakeBranch(left.right.right, right, next + 1), next + 2)
    [] right.height > left.height + 1 ->
         IF right.right.height >= right.left.height
           THEN Join2(MakeBranch(left, right.left, next), right.right, next + 1)
           ELSE Join2(MakeBranch(left, right.left.left, next),
                      MakeBranch(right.left.right, right.right, next + 1), next + 2)
    [] OTHER -> Join2(left, right, next)

\* concat_nodes: small leaves are merged under the left one's label, otherwise
\* the taller side is entered along its boundary.
RECURSIVE ConcatNodes(_, _, _)
ConcatNodes(left, right, next) ==
  CASE left.kind = "none" -> Result(right, next)
    [] left.kind # "none" /\ right.kind = "none" -> Result(left, next)
    [] left.kind = "leaf" /\ right.kind = "leaf" /\ left.len + right.len <= LeafMax ->
         Result(MakeLeaf(left.entries \o right.entries, left.first, next), next + 1)
    [] OTHER ->
         IF left.height > right.height + 1
           THEN LET joined == ConcatNodes(left.right, right, next) IN Rebalance(left.left, joined.node, joined.next)
         ELSE IF right.height > left.height + 1
           THEN LET joined == ConcatNodes(left, right.left, next) IN Rebalance(joined.node, right.right, joined.next)
         ELSE Join2(left, right, next)

\* split_node: the right part of a leaf gets a label below the next leaf's.
RECURSIVE SplitNode(_, _, _, _)
SplitNode(node, rank, upper, next) ==
  CASE rank = 0 \/ node.kind = "none" -> [left |-> NoTape, right |-> node, next |-> next]
    [] rank > 0 /\ node.kind # "none" /\ rank >= node.len -> [left |-> node, right |-> NoTape, next |-> next]
    [] rank > 0 /\ node.kind = "leaf" /\ rank < node.len ->
         [left |-> MakeLeaf(SubSeq(node.entries, 1, rank), node.first, next),
          right |-> MakeLeaf(SubSeq(node.entries, rank + 1, node.len), Between(node.first, upper), next + 1),
          next |-> next + 2]
    [] OTHER ->
         IF rank < node.left.len
           THEN LET split == SplitNode(node.left, rank, node.right.first, next)
                    suffix == ConcatNodes(split.right, node.right, split.next)
                IN [left |-> split.left, right |-> suffix.node, next |-> suffix.next]
           ELSE LET split == SplitNode(node.right, rank - node.left.len, upper, next)
                    prefix == ConcatNodes(node.left, split.left, split.next)
                IN [left |-> prefix.node, right |-> split.right, next |-> prefix.next]

RECURSIVE Leaves(_)
Leaves(node) ==
  CASE node.kind = "none" -> <<>>
    [] node.kind = "leaf" -> <<node>>
    [] node.kind = "branch" -> Leaves(node.left) \o Leaves(node.right)

\* TapeIter
Iterate(node) == FlattenSeq([i \in DOMAIN Leaves(node) |-> Leaves(node)[i].entries])

\* TapeRangeIter: the leaf slices a range of ranks meets, left before right.
RECURSIVE IterRange(_, _, _, _)
IterRange(node, base, start, end) ==
  IF node.kind = "none" \/ start >= base + node.len \/ end <= base \/ start >= end THEN <<>>
  ELSE IF node.kind = "branch"
    THEN IterRange(node.left, base, start, end) \o IterRange(node.right, base + node.left.len, start, end)
  ELSE SubSeq(node.entries, (IF start > base THEN start - base ELSE 0) + 1, Min({end - base, node.len}))

FirstKey(node) == IF node.kind = "none" THEN <<>> ELSE node.first
LastKey(node) == IF node.kind = "none" THEN <<>> ELSE node.last
TapeLen(node) == IF node.kind = "none" THEN 0 ELSE node.len

\* rekey_between: new leaves when the labels do not fit between the neighbours.
RekeyBetween(node, lower, upper, next) ==
  IF \/ node.kind = "none"
     \/ (lower = <<>> \/ KeyLess(lower, node.first)) /\ (upper = <<>> \/ KeyLess(node.last, upper))
    THEN Result(node, next)
    ELSE LET chunks == Chunks(Iterate(node))
             orders == FoldLeft(LAMBDA ks, c : Append(ks, Between(IF ks = <<>> THEN lower ELSE Last(ks), upper)),
                                <<>>, chunks)
         IN BuildBalanced([i \in DOMAIN chunks |-> MakeLeaf(chunks[i], orders[i], next + i - 1)],
                          next + Len(chunks))

Concat(left, right, next) ==
  LET fitted == RekeyBetween(right, LastKey(left), <<>>, next)
  IN ConcatNodes(left, fitted.node, fitted.next)

\* splice of ranks [start, end) by another tape.
Splice(tape, start, end, replacement, next) ==
  LET head == SplitNode(tape, start, <<>>, next)
      tail == SplitNode(head.right, end - start, <<>>, head.next)
      fitted == RekeyBetween(replacement, LastKey(head.left), FirstKey(tail.right), tail.next)
      joined == Concat(head.left, fitted.node, fitted.next)
  IN Concat(joined.node, tail.right, joined.next)

-----------------------------------------------------------------------------
(* Lookups *)

RECURSIVE LookupRank(_, _)
LookupRank(node, rank) ==
  IF node.kind = "leaf" THEN node.entries[rank + 1]
  ELSE IF rank < node.left.len THEN LookupRank(node.left, rank)
  ELSE LookupRank(node.right, rank - node.left.len)

RECURSIVE Prefix(_, _)
Prefix(node, rank) ==
  IF node.kind = "leaf" THEN MetricOf(SubSeq(node.entries, 1, Min({rank, node.len})))
  ELSE IF rank <= node.left.len THEN Prefix(node.left, rank)
  ELSE AddMetric(node.left.metric, Prefix(node.right, rank - node.left.len))

MetricBefore(tape, rank) ==
  IF tape.kind = "none" THEN ZeroMetric ELSE Prefix(tape, Min({rank, tape.len}))

\* Entries of a leaf that end at or before an offset.
RECURSIVE EntriesPassed(_, _)
EntriesPassed(entries, remaining) ==
  IF entries = <<>> \/ remaining < Head(entries).bytes THEN 0
  ELSE 1 + EntriesPassed(Tail(entries), remaining - Head(entries).bytes)

\* lexical_rank_at_byte: the first entry that ends after the offset.
RECURSIVE RankAtByte(_, _)
RankAtByte(node, offset) ==
  CASE node.kind = "none" -> 0
    [] node.kind = "leaf" -> EntriesPassed(node.entries, offset)
    [] OTHER -> IF offset < node.left.metric.bytes THEN RankAtByte(node.left, offset)
                ELSE node.left.len + RankAtByte(node.right, offset - node.left.metric.bytes)

\* locations_in_range: <<entry id, [leaf, slot, order]>> of the ranks in [from, to).
RECURSIVE Locations(_, _, _, _)
Locations(node, base, from, to) ==
  IF node.kind = "none" \/ from >= base + node.len \/ to <= base THEN <<>>
  ELSE IF node.kind = "branch"
    THEN Locations(node.left, base, from, to) \o Locations(node.right, base + node.left.len, from, to)
  ELSE LET start == IF from > base THEN from - base ELSE 0
           end == Min({to - base, node.len})
       IN [i \in 1 .. end - start |->
             <<node.entries[start + i].id,
               [leaf |-> node.id, slot |-> start + i - 1, order |-> node.first]>>]

\* leaf_at_order and rank_of_order descend together: [leaf, base] or nothing.
RECURSIVE LeafAtOrder(_, _, _)
LeafAtOrder(node, order, base) ==
  CASE node.kind = "none" -> <<>>
    [] node.kind = "leaf" -> IF node.first = order THEN <<[leaf |-> node, base |-> base]>> ELSE <<>>
    [] OTHER -> IF ~KeyLess(node.left.last, order) THEN LeafAtOrder(node.left, order, base)
                ELSE LeafAtOrder(node.right, order, base + node.left.len)

Missing == -1

RankOfId(tape, index, id) ==
  IF id \notin DOMAIN index THEN Missing
  ELSE LET at == index[id]
           found == LeafAtOrder(tape, at.order, 0)
       IN IF found # <<>> /\ found[1].leaf.id = at.leaf /\ at.slot < found[1].leaf.len
            THEN found[1].base + at.slot ELSE Missing

\* predecessor_id (-1) and successor_id (+1) of an occurrence.
NeighbourId(tape, index, id, side) ==
  LET rank == RankOfId(tape, index, id) + side IN
  IF RankOfId(tape, index, id) = Missing \/ rank < 0 \/ rank >= TapeLen(tape) THEN Missing
  ELSE LookupRank(tape, rank).id

EntryIds(node) == {e.id : e \in ToSet(Iterate(node))}
IndexOver(locations, index) ==
  [id \in {l[1] : l \in ToSet(locations)} \cup DOMAIN index |->
     IF \E l \in ToSet(locations) : l[1] = id THEN (CHOOSE l \in ToSet(locations) : l[1] = id)[2] ELSE index[id]]

OccurrenceIndex(tape) == IndexOver(Locations(tape, 0, 0, TapeLen(tape)), <<>>)

\* Mutant: only the replaced ranks are indexed again.
ReindexedReplacedOnly(tape, index, start, end, replacement, spliced) ==
  LET gone == {l[1] : l \in ToSet(Locations(tape, 0, start, end))}
      kept == [id \in DOMAIN index \ gone |-> index[id]]
  IN IndexOver(Locations(spliced, 0, start, start + TapeLen(replacement)), kept)

\* splice_with_index: the changed ranks and one leaf on each side are indexed again.
Reindexed(tape, index, start, end, replacement, spliced) ==
  LET low == IF start > LeafMax THEN start - LeafMax ELSE 0
      gone == {l[1] : l \in ToSet(Locations(tape, 0, low, Min({end + LeafMax, TapeLen(tape)})))}
      kept == [id \in DOMAIN index \ gone |-> index[id]]
  IN IndexOver(Locations(spliced, 0, low, Min({start + TapeLen(replacement) + LeafMax, TapeLen(spliced)})), kept)

-----------------------------------------------------------------------------
(* TapeCursor: the leaf, the slot in it, and the branches above with the side taken *)

RECURSIVE DescendToRank(_, _, _)
DescendToRank(node, rank, path) ==
  IF node.kind = "leaf" THEN [leaf |-> node, slot |-> rank, path |-> path]
  ELSE IF rank < node.left.len
    THEN DescendToRank(node.left, rank, Append(path, [node |-> node, right |-> FALSE]))
    ELSE DescendToRank(node.right, rank - node.left.len, Append(path, [node |-> node, right |-> TRUE]))

\* descend_left and descend_right: to the first or the last entry of a subtree.
RECURSIVE DescendEdge(_, _, _)
DescendEdge(node, path, right) ==
  IF node.kind = "leaf" THEN [leaf |-> node, slot |-> IF right THEN node.len - 1 ELSE 0, path |-> path]
  ELSE DescendEdge(IF right THEN node.right ELSE node.left, Append(path, [node |-> node, right |-> right]), right)

\* advance (retreat): in the leaf, or into the right (left) sibling of the
\* lowest ancestor entered on the other side; <<>> at the end.
Step(cursor, right) ==
  LET up == {i \in DOMAIN cursor.path : cursor.path[i].right # right}
      at == cursor.path[Max(up)]
  IN CASE right /\ cursor.slot + 1 < cursor.leaf.len -> <<[cursor EXCEPT !.slot = @ + 1]>>
       [] ~right /\ cursor.slot > 0 -> <<[cursor EXCEPT !.slot = @ - 1]>>
       [] OTHER ->
            IF up = {} THEN <<>>
            ELSE <<DescendEdge(IF right THEN at.node.right ELSE at.node.left,
                               Append(SubSeq(cursor.path, 1, Max(up) - 1), [at EXCEPT !.right = right]), ~right)>>

\* What a reader that keeps stepping sees, the current entry first.
RECURSIVE Walk(_, _)
Walk(cursor, right) ==
  LET next == Step(cursor, right)
      here == cursor.leaf.entries[cursor.slot + 1]
  IN <<here>> \o IF next = <<>> THEN <<>> ELSE Walk(next[1], right)

-----------------------------------------------------------------------------
(* A document's tape edited by splices, as the lexer does *)

CONSTANTS MaxLen, MaxNew, MaxEdits

VARIABLES
  tape,    \* root
  index,   \* PersistentOccurrenceIndex
  nextId,  \* TapeIdAllocator::next
  entries, \* the sequence the tape stands for
  edits

tapeVars == <<tape, index, nextId, entries, edits>>

\* Fresh occurrences: widths 1 and 2, every third one lexical only.
FreshEntries(n) ==
  LET first == edits * MaxLen IN
  [i \in 1 .. n |-> [id |-> first + i, bytes |-> 1 + (i % 2), semantic |-> (i % 3) # 0]]

TapeInit ==
  \E n \in 0 .. MaxLen :
    /\ edits = 1
    /\ entries = [i \in 1 .. n |-> [id |-> i, bytes |-> 1 + (i % 2), semantic |-> (i % 3) # 0]]
    /\ tape = FromEntries(entries, 1).node
    /\ nextId = FromEntries(entries, 1).next
    /\ index = OccurrenceIndex(tape)

\* splice_with_index of a replacement built by from_entries.
Edit(start, end, n) ==
  /\ edits <= MaxEdits /\ start <= end /\ end <= Len(entries) /\ Len(entries) - (end - start) + n <= MaxLen
  /\ start < end \/ n > 0
  /\ \E new \in {FromEntries(FreshEntries(n), nextId)} :
     \E spliced \in {Splice(tape, start, end, new.node, new.next)} :
       /\ tape' = spliced.node
       /\ nextId' = spliced.next
       /\ index' = Reindexed(tape, index, start, end, new.node, spliced.node)
  /\ entries' = SubSeq(entries, 1, start) \o FreshEntries(n) \o SubSeq(entries, end + 1, Len(entries))
  /\ edits' = edits + 1

TapeNext == \E start, end \in 0 .. MaxLen, n \in 0 .. MaxNew : Edit(start, end, n)

TapeSpec == TapeInit /\ [][TapeNext]_tapeVars

-----------------------------------------------------------------------------
(* Properties *)

RECURSIVE NodesOf(_)
NodesOf(node) ==
  CASE node.kind = "none" -> {}
    [] node.kind = "leaf" -> {node}
    [] node.kind = "branch" -> {node} \cup NodesOf(node.left) \cup NodesOf(node.right)

\* However the rope was cut and joined, it reads as the edited sequence: by
\* iteration, by range, by rank, by byte offset, by prefix metric and by a
\* cursor moving either way across leaves.
ReadsAsSequence ==
  LET n == Len(entries) IN
  /\ Iterate(tape) = entries
  /\ \A r \in 0 .. n - 1 :
       /\ LookupRank(tape, r) = entries[r + 1]
       /\ Walk(DescendToRank(tape, r, <<>>), TRUE) = SubSeq(entries, r + 1, n)
       /\ Walk(DescendToRank(tape, r, <<>>), FALSE) = Reverse(SubSeq(entries, 1, r + 1))
  /\ \A s, e \in 0 .. n : s <= e => IterRange(tape, 0, s, e) = SubSeq(entries, s + 1, e)
  /\ \A r \in 0 .. n : MetricBefore(tape, r) = MetricOf(SubSeq(entries, 1, r))
  /\ \A b \in 0 .. MetricOf(entries).bytes :
       RankAtByte(tape, b) = Cardinality({r \in 1 .. n : MetricOf(SubSeq(entries, 1, r)).bytes <= b})

\* After any sequence of edits the occurrence index finds every entry of the
\* tape at its current rank, with its neighbours, and no entry that left it,
\* although an edit renews only the locations near it ("Re-indexing is bounded
\* to the changed range"), and the labels of its leaves still increase.
IndexExact ==
  /\ LET ls == Leaves(tape) IN \A i \in 1 .. Len(ls) - 1 : KeyLess(ls[i].first, ls[i + 1].first)
  /\ DOMAIN index = EntryIds(tape)
  /\ \A r \in 1 .. Len(entries) :
       /\ RankOfId(tape, index, entries[r].id) = r - 1
       /\ NeighbourId(tape, index, entries[r].id, 1) = IF r = Len(entries) THEN Missing ELSE entries[r + 1].id
       /\ NeighbourId(tape, index, entries[r].id, -1) = IF r = 1 THEN Missing ELSE entries[r - 1].id

\* An edit never gives the identity of a node of the old tape to another
\* node, so a reader of the old revision can compare by identity ("every node
\* created on a changed path receives a fresh checked ID").
IdsNeverReused ==
  [][\A old \in NodesOf(tape), new \in NodesOf(tape') : old.id = new.id => old = new]_tapeVars
=============================================================================
