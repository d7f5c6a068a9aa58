---------------------------- MODULE ParseSegment ----------------------------
(***************************************************************************)
(* Parse columns and the persistent segments that keep them between        *)
(* commands: parsing/mod.rs and the column bookkeeping of parsing/state.rs *)
(* under src/src/framework/parse.                                          *)
(*                                                                         *)
(* A column is the frontier at one token gap:                              *)
(*   token     the occurrence shifted to enter it, NoToken for none        *)
(*   boundary  the gap it stands for                                       *)
(*   base, active, accepted, products   GSS nodes and products, in order   *)
(*   err       whether recovery made it                                    *)
(* A segment is a sequence of parts, each a range of an immutable column   *)
(* array (data), with its length, the accepted products stored in it (raw) *)
(* and the ones a seam maps them to (accepted).                            *)
(* Columns count from 1 here and from 0 in the code.  An index built when  *)
(* a segment is (boundary, token, product) is a lookup in its data.        *)
(***************************************************************************)
EXTENDS Integers, Sequences, FiniteSets, SequencesExt, FiniteSetsExt, Functions

EofOcc == 0     \* the occurrence of the end of input
NoToken == -1
NoColumn == 0

Before(occ) == <<"source", occ>>
NoBoundary == <<"none">>
RecoveryBoundary(left, right, ordinal) == <<"recovery", left, right, ordinal>>

\* ParseColumn::new
NewColumn(token, active) ==
  [token |-> token, boundary |-> NoBoundary, base |-> active, active |-> active,
   accepted |-> <<>>, products |-> <<>>, err |-> FALSE]

\* push_product, push_accepted, insert_active
Include(s, x) == IF x \in ToSet(s) THEN s ELSE Append(s, x)

\* reset_for_replay: the frontier as it was when the column was entered
ResetForReplay(column) ==
  [column EXCEPT !.active = column.base, !.accepted = <<>>, !.products = <<>>, !.err = FALSE]

LastIndex(s, Test(_)) == Max({0} \cup {i \in DOMAIN s : Test(s[i])})

-----------------------------------------------------------------------------
(* Building a segment *)

IsReal(column) == column.token \notin {NoToken, EofOcc}
RealFrom(columns, i) == {k \in i .. Len(columns) : IsReal(columns[k])}
RealBefore(columns, i) == {k \in 1 .. i - 1 : IsReal(columns[k])}

\* The boundary from_columns infers for a column that has none: the next real
\* token at or after it, its own token included.
InferredBoundary(columns, i) ==
  LET next == RealFrom(columns, i)
      previous == RealBefore(columns, i)
      left == IF previous = {} THEN NoToken ELSE columns[Max(previous)].token
      right == IF next = {} THEN NoToken ELSE columns[Min(next)].token
      token == columns[i].token
  IN CASE token = EofOcc -> NoBoundary
       [] token # EofOcc /\ right # NoToken /\ (i = 1 \/ token # NoToken) -> Before(right)
       [] token # EofOcc /\ right = NoToken /\ (token # NoToken \/ (i = 1 /\ left = NoToken)) -> Before(EofOcc)
       [] OTHER -> RecoveryBoundary(left, right, i)

EmptySegment == [parts |-> <<>>, length |-> 0, raw |-> <<>>, accepted |-> <<>>]

FromColumns(columns) ==
  LET data == [i \in DOMAIN columns |->
                 IF columns[i].boundary = NoBoundary
                   THEN [columns[i] EXCEPT !.boundary = InferredBoundary(columns, i)] ELSE columns[i]]
      roots == IF columns = <<>> THEN <<>> ELSE Last(columns).accepted
  IN [parts |-> <<[data |-> data, start |-> 0, end |-> Len(data)]>>,
      length |-> Len(data), raw |-> roots, accepted |-> roots]

-----------------------------------------------------------------------------
(* Reading a segment *)

PartLen(part) == part.end - part.start
PartsLen(parts) == FoldLeft(LAMBDA n, part : n + PartLen(part), 0, parts)

\* weighted_get: the part column i falls in, as an index (0 for none)
PartOf(parts, i) ==
  LET holds == {k \in DOMAIN parts : i <= PartsLen(SubSeq(parts, 1, k))} IN IF holds = {} THEN 0 ELSE Min(holds)

HasColumn(seg, i) == i >= 1 /\ i <= PartsLen(seg.parts)
ColumnIn(parts, i, k) == parts[k].data[parts[k].start + i - PartsLen(SubSeq(parts, 1, k - 1))]
Column(seg, i) == ColumnIn(seg.parts, i, PartOf(seg.parts, i))

\* boundary_column: the first part whose index places the boundary in its range
BoundaryIn(part, boundary) == LastIndex(part.data, LAMBDA column : column.boundary = boundary)
FirstHolding(parts, at) ==
  LET holds == {k \in DOMAIN parts : at[k] > parts[k].start /\ at[k] <= parts[k].end}
  IN IF holds = {} THEN 0 ELSE Min(holds)
ColumnOf(parts, at, k) == IF k = 0 THEN NoColumn ELSE PartsLen(SubSeq(parts, 1, k - 1)) + at[k] - parts[k].start
FirstColumn(parts, at) == ColumnOf(parts, at, FirstHolding(parts, at))
BoundaryColumn(seg, boundary) ==
  FirstColumn(seg.parts, [k \in DOMAIN seg.parts |-> BoundaryIn(seg.parts[k], boundary)])

\* token_products of a segment's data: the first product of a column its token shifted into
HoldsTokenProduct(column) == column.token # NoToken /\ ~column.err /\ column.products # <<>>

\* product_occurrence knows the product: any column of a part's data, not only of its range
IsTokenProduct(seg, product) ==
  \E k \in DOMAIN seg.parts : \E i \in DOMAIN seg.parts[k].data :
    HoldsTokenProduct(seg.parts[k].data[i]) /\ Head(seg.parts[k].data[i].products) = product

Materialize(seg) == [i \in 1 .. seg.length |-> Column(seg, i)]

-----------------------------------------------------------------------------
(* Cutting and joining segments *)

\* Part k cut after `local` of its columns.
LeftOf(part, local) == [part EXCEPT !.end = part.start + local]
RightOf(part, local) == [part EXCEPT !.start = part.start + local]

\* The suffix keeps the part that was cut, behind its right half.
CutInside(parts, k, local) ==
  <<Append(SubSeq(parts, 1, k - 1), LeftOf(parts[k], local)),
    <<RightOf(parts[k], local)>> \o SubSeq(parts, k, Len(parts))>>

CutAt(parts, k, local) ==
  IF local = 0 THEN <<SubSeq(parts, 1, k - 1), SubSeq(parts, k, Len(parts))>> ELSE CutInside(parts, k, local)
CutPart(parts, offset, k) == CutAt(parts, k, offset - PartsLen(SubSeq(parts, 1, k - 1)))

\* split_parts_at: the parts before and after the first `offset` columns
SplitPartsAt(parts, total, offset) ==
  CASE offset = 0 -> <<<<>>, parts>>
    [] offset = total /\ offset # 0 -> <<parts, <<>>>>
    [] OTHER -> CutPart(parts, offset, PartOf(parts, offset + 1))

\* slice of the columns start + 1 .. end
Slice(seg, start, end) ==
  LET tail == SplitPartsAt(seg.parts, seg.length, start)[2]
      accepts == end = seg.length
  IN [parts |-> SplitPartsAt(tail, seg.length - start, end - start)[1],
      length |-> end - start,
      raw |-> IF accepts THEN seg.raw ELSE <<>>,
      accepted |-> IF accepts THEN seg.accepted ELSE <<>>]

Concat(left, right) ==
  CASE left.length = 0 -> right
    [] left.length # 0 /\ right.length = 0 -> left
    [] OTHER -> [parts |-> left.parts \o right.parts, length |-> left.length + right.length,
                 raw |-> right.raw, accepted |-> right.accepted]

\* Mutant: the retained tail keeps accepting the old roots.
AttachSeamUnbound(tail, accepted) == tail

\* attach_seam.  The product map it also stores is read only through
\* token_product of a segment, which no replay calls.
AttachSeam(tail, accepted) == [tail EXCEPT !.accepted = accepted]
=============================================================================
