--------------------------- MODULE SnapshotIndex ---------------------------
(***************************************************************************)
(* One committed view of the store (SnapshotView): a Hamt from keys to     *)
(* ordinals and a RadixMap from ordinals to entries, changed together by   *)
(* the deltas of a commit.  FactArena models the same index as two         *)
(* functions; this module puts the tries under it.                         *)
(***************************************************************************)
EXTENDS Tries

CONSTANTS Key, Ordinal, Val

ASSUME IndexInputs ==
  /\ Ordinal \subseteq 0 .. RadixFan^RadixDepth - 1
  /\ Hash \in [Key -> 0 .. HamtFan^HamtMaxDepth - 1]

VARIABLES
  byKey,      \* by_key: Hamt of ordinals
  byOrdinal,  \* by_ordinal: RadixMap of entries
  facts       \* what the deltas applied so far say: a partial function from keys

indexVars == <<byKey, byOrdinal, facts>>

IndexInit == byKey = EmptyMap /\ byOrdinal = EmptyMap /\ facts = <<>>

Lookup(key) ==
  LET ordinal == HamtGet(byKey, key)
      entry == IF ordinal = NoNode THEN NoNode ELSE RadixGet(byOrdinal, ordinal.value)
  IN IF entry = NoNode THEN NoNode ELSE entry.value

Entries == [i \in DOMAIN RadixIter(byOrdinal) |-> RadixIter(byOrdinal)[i].value]

\* SnapshotView::insert: a key that migrates leaves its old ordinal first.
Insert(key, ordinal, value) ==
  LET old == HamtGet(byKey, key)
      cleaned == IF old # NoNode /\ old.value # ordinal THEN RadixRemove(byOrdinal, old.value) ELSE byOrdinal
  IN /\ byOrdinal' = RadixInsert(cleaned, ordinal, [key |-> key, value |-> value])
     /\ byKey' = HamtInsert(byKey, key, ordinal)
     /\ facts' = [k \in DOMAIN facts \cup {key} |->
                    IF k = key THEN [ordinal |-> ordinal, value |-> value] ELSE facts[k]]

\* SnapshotView::remove
RemoveKey(key) ==
  /\ HamtGet(byKey, key) # NoNode
  /\ byKey' = HamtRemove(byKey, key)
  /\ byOrdinal' = RadixRemove(byOrdinal, HamtGet(byKey, key).value)
  /\ facts' = [k \in DOMAIN facts \ {key} |-> facts[k]]

\* An ordinal belongs to one fact: the store never gives it to a second.
Free(key, ordinal) == \A k \in DOMAIN facts : facts[k].ordinal = ordinal => k = key

IndexNext ==
  \/ \E k \in Key, o \in Ordinal, v \in Val : Free(k, o) /\ Insert(k, o, v)
  \/ \E k \in Key : RemoveKey(k)

IndexSpec == IndexInit /\ [][IndexNext]_indexVars

-----------------------------------------------------------------------------
(* Properties *)

\* After insertions, replacements and removals in any order, lookups never
\* confuse keys whose hashes agree, in part or entirely ("every equality
\* decision resolves through KeyValue::eq_value"), enumeration yields every
\* present fact once, in ascending ordinals, and both maps count what they hold.
SnapshotReads ==
  LET leaves == RadixIter(byOrdinal) IN
  /\ \A k \in Key : Lookup(k) = IF k \in DOMAIN facts THEN [key |-> k, value |-> facts[k].value] ELSE NoNode
  /\ \A i, j \in DOMAIN leaves : i < j => leaves[i].key < leaves[j].key
  /\ {leaves[i].key : i \in DOMAIN leaves} = {facts[k].ordinal : k \in DOMAIN facts}
  /\ ToSet(Entries) = {[key |-> k, value |-> facts[k].value] : k \in DOMAIN facts}
  /\ byOrdinal.len = Len(leaves) /\ byKey.len = Len(leaves)
  /\ {e.key : e \in ToSet(HamtIter(byKey))} = DOMAIN facts
=============================================================================
