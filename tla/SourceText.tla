----------------------------- MODULE SourceText -----------------------------
(***************************************************************************)
(* Editor batches and source deltas (framework/source.rs).  Text is a       *)
(* sequence of bytes; an edit is an insertion (start = end) or a deletion   *)
(* of [start, end), at character boundaries; a splice replaces the old      *)
(* range [os, oe) by the new range [ns, ne).                                *)
(***************************************************************************)
EXTENDS Integers, FiniteSets, SequencesExt

CONSTANT Continuation  \* the bytes that continue a character

\* Where the characters of a text start, and where the text ends.
AddOffset(offsets, c) == IF c.byte \in Continuation THEN offsets ELSE Append(offsets, c.at)
Offsets == INSTANCE Iteration WITH Step <- AddOffset
CharOffsets(text) ==
  Append(Offsets!After(<<>>, [k \in DOMAIN text |-> [byte |-> text[k], at |-> k - 1]]), Len(text))

InBounds(base, edit) == edit.end \in 0..Len(base) /\ edit.start \in 0..edit.end

(* By position, insertions first, otherwise in the caller's order. *)
SortEdits(edits) ==
  LET Precedes(j, k) ==
        \/ edits[j].start < edits[k].start
        \/ /\ edits[j].start = edits[k].start
           /\ \/ edits[j].kind = "insert" /\ edits[k].kind = "delete"
              \/ edits[j].kind = edits[k].kind /\ j < k
      Place(k) == Cardinality({j \in DOMAIN edits : Precedes(j, k)}) + 1
  IN [i \in DOMAIN edits |-> edits[CHOOSE k \in DOMAIN edits : Place(k) = i]]

\* Mutant: the text inserted last replaces what was inserted there before.
JoinLastText(repls, edit) ==
  IF repls # <<>> /\ Last(repls).open /\ Last(repls).os = edit.start
  THEN Append(Front(repls), [os |-> Last(repls).os, oe |-> edit.end, text |-> edit.text,
                             open |-> edit.kind = "insert"])
  ELSE Append(repls, [os |-> edit.start, oe |-> edit.end, text |-> edit.text,
                      open |-> edit.kind = "insert"])

(* Insertions at one position are joined with each other and with the first  *)
(* deletion that starts there; every other deletion is a replacement.        *)
Join(repls, edit) ==
  IF repls # <<>> /\ Last(repls).open /\ Last(repls).os = edit.start
  THEN Append(Front(repls), [os |-> Last(repls).os, oe |-> edit.end, text |-> Last(repls).text \o edit.text,
                             open |-> edit.kind = "insert"])
  ELSE Append(repls, [os |-> edit.start, oe |-> edit.end, text |-> edit.text,
                      open |-> edit.kind = "insert"])
Joins == INSTANCE Iteration WITH Step <- Join
Replacements(edits) == Joins!After(<<>>, SortEdits(edits))

Overlap(repls) == \E k \in 1..(Len(repls) - 1) : repls[k].oe > repls[k + 1].os

\* The text inserted has the length of the text it replaces.
SameSize(r) == Len(r.text) = r.oe - r.os

(* Rope::slice counts characters and is given the byte range: it reads the   *)
(* characters of these numbers, and panics if there are none.                *)
SlicePanics(base, r) == SameSize(r) /\ r.oe >= Len(CharOffsets(base))
ReplacesByEqual(base, r) ==
  /\ SameSize(r)
  /\ LET from == CharOffsets(base)[r.os + 1] IN r.text = SubSeq(base, from + 1, from + Len(r.text))

(* The replacements that change something, with their new ranges; those that *)
(* touch in both coordinates become one.                                     *)
AddReplacement(d, e) ==
  LET r == e.repl
      ns == r.os + d.shift
      ne == ns + Len(r.text)
      last == Last(d.splices)
  IN IF ReplacesByEqual(e.base, r) THEN d
     ELSE [shift |-> d.shift + Len(r.text) - (r.oe - r.os),
           splices |->
             IF d.splices # <<>> /\ last.oe = r.os /\ last.ne = ns
             THEN Append(Front(d.splices), [os |-> last.os, oe |-> r.oe, ns |-> last.ns, ne |-> ne,
                                            text |-> last.text \o r.text])
             ELSE Append(d.splices, [os |-> r.os, oe |-> r.oe, ns |-> ns, ne |-> ne, text |-> r.text])]
Changes == INSTANCE Iteration WITH Step <- AddReplacement
Splices(base, repls) ==
  Changes!After([shift |-> 0, splices |-> <<>>],
                [k \in DOMAIN repls |-> [base |-> base, repl |-> repls[k]]]).splices

(* normalize_edits: the splices of a batch, or its rejection, or a panic that *)
(* ends the call as early.                                                    *)
NormalizeEdits(base, edits) ==
  LET repls == Replacements(edits)
  IN IF /\ \A k \in DOMAIN edits : InBounds(base, edits[k])
        /\ ~Overlap(repls)
        /\ \A k \in DOMAIN repls : ~SlicePanics(base, repls[k])
     THEN [ok |-> TRUE, splices |-> Splices(base, repls)]
     ELSE [ok |-> FALSE]

(* The last splice first, so that the offsets of the others stay valid. *)
ApplySplice(text, s) == SubSeq(text, 1, s.os) \o s.text \o SubSeq(text, s.oe + 1, Len(text))
Application == INSTANCE Iteration WITH Step <- ApplySplice
ApplySplices(base, splices) == Application!After(base, Reverse(splices))

(* A gap between splices that is not empty is an island. *)
AddIsland(islands, gap) == IF gap.len > 0 THEN Append(islands, gap) ELSE islands
Gaps == INSTANCE Iteration WITH Step <- AddIsland

\* Mutant: the shift of the splices before an island is forgotten.
IslandsUnshifted(oldLen, splices) ==
  LET n == Len(splices)
      Island(k) == LET old == IF k = 0 THEN 0 ELSE splices[k].oe
                   IN [old |-> old, new |-> old,
                       len |-> (IF k = n THEN oldLen ELSE splices[k + 1].os) - old]
  IN Gaps!After(<<>>, [k \in 1..(n + 1) |-> Island(k - 1)])

(* The unchanged regions between splices, and the place of an old offset in  *)
(* the new text: an island of equal text in both.                            *)
Islands(oldLen, splices) ==
  LET n == Len(splices)
      Island(k) == LET old == IF k = 0 THEN 0 ELSE splices[k].oe
                   IN [old |-> old, new |-> IF k = 0 THEN 0 ELSE splices[k].ne,
                       len |-> (IF k = n THEN oldLen ELSE splices[k + 1].os) - old]
  IN Gaps!After(<<>>, [k \in 1..(n + 1) |-> Island(k - 1)])

(* -1 stands for None: the offset lies in a replaced range. *)
MapOldToNew(islands, at) ==
  LET k == Cardinality({j \in DOMAIN islands : islands[j].old <= at})
      i == IF k > 0 THEN k ELSE 1
  IN IF i \in DOMAIN islands /\ at \in islands[i].old..(islands[i].old + islands[i].len - 1)
     THEN islands[i].new + at - islands[i].old
     ELSE -1
=============================================================================
