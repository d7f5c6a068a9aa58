----------------------------- MODULE BatchLemmas -----------------------------
(***************************************************************************)
(* What normalize_edits makes of a batch: splices that are in order, lie    *)
(* apart and have the effect the edits describe, and the coordinate map.    *)
(***************************************************************************)
EXTENDS LexPipeline, LexLemmas

-----------------------------------------------------------------------------
(* Sequences and parts of them *)

Associates(a, b, c) == (a \o b) \o c = a \o (b \o c)

\* Concatenation is associative.
LEMMA SeqAssoc ==
  ASSUME NEW a, NEW b, NEW c, IsSeq(a), IsSeq(b), IsSeq(c)
  PROVE  Associates(a, b, c)
<1> DEFINE T == Range(a) \cup Range(b) \cup Range(c)
<1>1. a \in Seq(T) /\ b \in Seq(T) /\ c \in Seq(T)
  BY DEF IsSeq, Range
<1> HIDE DEF T
<1> QED
  BY <1>1 DEF Associates

\* A sequence without elements.
LEMMA SeqNothing ==
  ASSUME NEW a, IsSeq(a), Len(a) = 0
  PROVE  a = <<>>
BY SeqEmpty, SeqSame

\* Two parts of a sequence that touch.
LEMMA SeqGlue ==
  ASSUME NEW a, IsSeq(a), NEW m \in 0..Len(a), NEW n \in m..Len(a), NEW k \in n..Len(a)
  PROVE  SubSeq(a, m + 1, n) \o SubSeq(a, n + 1, k) = SubSeq(a, m + 1, k)
<1> DEFINE p == SubSeq(a, m + 1, n)
           q == SubSeq(a, n + 1, k)
           r == SubSeq(a, m + 1, k)
<1>1. Len(a) \in Nat /\ m \in Nat /\ n \in Nat /\ k \in Nat /\ n \in 0..Len(a) /\ k \in m..Len(a)
      /\ m <= n /\ n <= k
  BY SeqParts
<1>2. IsSeq(p) /\ Len(p) = n - m /\ \A j \in 1..(n - m) : p[j] = a[m + j]
  BY <1>1, SeqSub
<1>3. IsSeq(q) /\ Len(q) = k - n /\ \A j \in 1..(k - n) : q[j] = a[n + j]
  BY <1>1, SeqSub
<1>4. IsSeq(r) /\ Len(r) = k - m /\ \A j \in 1..(k - m) : r[j] = a[m + j]
  BY <1>1, SeqSub
<1> HIDE DEF p, q, r
<1>5. /\ IsSeq(p \o q) /\ Len(p \o q) = (n - m) + (k - n)
      /\ \A j \in 1..(n - m) : (p \o q)[j] = p[j]
      /\ \A j \in 1..(k - n) : (p \o q)[(n - m) + j] = q[j]
  <2>1. /\ IsSeq(p \o q) /\ Len(p \o q) = Len(p) + Len(q)
        /\ \A j \in 1..Len(p) : (p \o q)[j] = p[j]
        /\ \A j \in 1..Len(q) : (p \o q)[Len(p) + j] = q[j]
    <3>1. IsSeq(p) /\ IsSeq(q)
      BY <1>2, <1>3
    <3> QED
      BY <3>1, SeqConcat
  <2>2. Len(p) = n - m /\ Len(q) = k - n
    BY <1>2, <1>3
  <2> QED
    BY <2>1, <2>2
<1>6. (n - m) + (k - n) = k - m
  BY <1>1
<1>7. ASSUME NEW j \in 1..(k - m) PROVE (p \o q)[j] = r[j]
  <2>1. CASE j <= n - m
    <3>1. j \in 1..(n - m)
      BY <1>1, <2>1
    <3> QED
      BY <1>2, <1>4, <1>5, <3>1
  <2>2. CASE j > n - m
    <3>1. PICK i \in 1..(k - n) : i = j - (n - m)
      BY <1>1, <2>2
    <3>2. j = (n - m) + i /\ n + i = m + j
      BY <1>1, <3>1
    <3>3. (p \o q)[j] = q[i] /\ q[i] = a[n + i] /\ r[j] = a[m + j]
      BY <1>3, <1>4, <1>5, <3>1, <3>2
    <3> QED
      BY <3>2, <3>3
  <2>3. j <= n - m \/ j > n - m
    BY <1>1
  <2> QED
    BY <2>1, <2>2, <2>3
<1>8. p \o q = r
  BY <1>4, <1>5, <1>6, <1>7, SeqSame
<1> QED
  BY <1>8 DEF p, q, r

-----------------------------------------------------------------------------
(* Batches of edits. *)

\* In a finite total order every place is taken: R holds the pairs in order.
InOrder(n, R) ==
  /\ \A j \in 1..n : <<j, j>> \notin R
  /\ \A i, j, k \in 1..n : <<i, j>> \in R /\ <<j, k>> \in R => <<i, k>> \in R
  /\ \A j, k \in 1..n : j # k => <<j, k>> \in R \/ <<k, j>> \in R

\* The parts of an edit.
LEMMA EditParts ==
  ASSUME NEW e, e \in EditOp
  PROVE  /\ e.start \in Nat /\ e.end \in Nat /\ e.kind \in {"insert", "delete"} /\ IsSeq(e.text)
         /\ e.kind = "delete" => e.text = <<>>
         /\ e.kind = "insert" => e.start = e.end
<1>1. CASE e \in {x \in [kind : {"insert"}, start : Nat, end : Nat, text : Seq(Byte)] : x.end = x.start}
  <2>1. /\ e.start \in Nat /\ e.end \in Nat /\ e.kind = "insert" /\ e.text \in Seq(Byte)
        /\ e.start = e.end
    BY <1>1
  <2> QED
    BY <2>1, SeqOver
<1>2. CASE e \in [kind : {"delete"}, start : Nat, end : Nat, text : {<<>>}]
  <2>1. e.start \in Nat /\ e.end \in Nat /\ e.kind = "delete" /\ e.text = <<>>
    BY <1>2
  <2> QED
    BY <2>1, SeqEmpty
<1> QED
  BY <1>1, <1>2 DEF EditOp

\* Every place of the order is taken, and what precedes takes the smaller one.
LEMMA Ranking ==
  ASSUME NEW n \in Nat, NEW R, InOrder(n, R)
  PROVE  LET place == [k \in 1..n |-> Cardinality({j \in 1..n : <<j, k>> \in R}) + 1]
         IN /\ place \in [1..n -> 1..n]
            /\ \A i \in 1..n : \E k \in 1..n : place[k] = i
            /\ \A j, k \in 1..n : <<j, k>> \in R => place[j] < place[k]
<1> DEFINE B(k) == {j \in 1..n : <<j, k>> \in R}
           f == [k \in 1..n |-> Cardinality(B(k)) + 1]
<1>1. IsFiniteSet(1..n) /\ Cardinality(1..n) = n
  BY FS_Interval
<1>2. ASSUME NEW k \in 1..n
      PROVE  IsFiniteSet(B(k)) /\ Cardinality(B(k)) \in Nat /\ Cardinality(B(k)) < n
  <2>1. B(k) \in SUBSET (1..n) /\ B(k) # 1..n
    BY DEF InOrder
  <2> HIDE DEF B
  <2>2. /\ IsFiniteSet(B(k)) /\ Cardinality(B(k)) <= Cardinality(1..n)
        /\ Cardinality(1..n) = Cardinality(B(k)) => 1..n = B(k)
    BY <1>1, <2>1, FS_Subset
  <2>3. Cardinality(B(k)) \in Nat
    BY <2>2, FS_CardinalityType
  <2> QED
    BY <1>1, <2>1, <2>2, <2>3
<1>3. ASSUME NEW j \in 1..n, NEW k \in 1..n, <<j, k>> \in R
      PROVE  Cardinality(B(j)) < Cardinality(B(k))
  <2>1. B(j) \cup {j} \in SUBSET B(k) /\ j \notin B(j)
    BY <1>3 DEF InOrder
  <2> HIDE DEF B
  <2>2. Cardinality(B(j) \cup {j}) = Cardinality(B(j)) + 1
    BY <1>2, <2>1, FS_AddElement
  <2>3. Cardinality(B(j) \cup {j}) <= Cardinality(B(k))
    BY <1>2, <2>1, FS_Subset
  <2> QED
    BY <1>2, <2>2, <2>3
<1> HIDE DEF B
<1>4. f \in [1..n -> 1..n]
  BY <1>2
<1>5. ASSUME NEW j \in 1..n, NEW k \in 1..n, f[j] = f[k] PROVE j = k
  <2>1. Cardinality(B(j)) = Cardinality(B(k)) /\ Cardinality(B(j)) \in Nat
    BY <1>2, <1>5
  <2>2. ~(Cardinality(B(j)) < Cardinality(B(k))) /\ ~(Cardinality(B(k)) < Cardinality(B(j)))
    BY <2>1
  <2>3. <<j, k>> \notin R /\ <<k, j>> \notin R
    BY <1>3, <2>2, Zenon
  <2> QED
    BY <2>3 DEF InOrder
<1>6. f \in Injection(1..n, 1..n)
  BY <1>4, <1>5 DEF Injection, IsInjective
<1>7. f \in Surjection(1..n, 1..n)
  <2> HIDE DEF f
  <2> QED
    BY <1>1, <1>6, FS_Injection
<1>8. \A i \in 1..n : \E k \in 1..n : f[k] = i
  <2> HIDE DEF f
  <2> QED
    BY <1>7 DEF Surjection
<1>9. \A j, k \in 1..n : <<j, k>> \in R => f[j] < f[k]
  BY <1>2, <1>3
<1> QED
  BY <1>4, <1>8, <1>9 DEF B

\* The edits in another order: place says where each of them is.
Rearranged(edits, sorted, place) ==
  /\ IsSeq(sorted) /\ Len(sorted) = Len(edits)
  /\ place \in [1..Len(edits) -> 1..Len(edits)]
  /\ \A i \in 1..Len(edits) : \E k \in 1..Len(edits) : place[k] = i
  /\ \A k \in 1..Len(edits) : sorted[place[k]] = edits[k]

\* By position, insertions first, and edits of a kind in the order they had.
ByPosition(edits, place) ==
  \A j, k \in 1..Len(edits) :
    /\ place[j] < place[k] => /\ edits[j].start <= edits[k].start
                              /\ edits[j].start = edits[k].start /\ edits[k].kind = "insert" =>
                                   edits[j].kind = "insert"
    /\ j < k /\ edits[j].start = edits[k].start /\ edits[j].kind = edits[k].kind => place[j] < place[k]

\* Sorting loses no edit and makes none up.
LEMMA SortingPlaces ==
  ASSUME NEW edits, edits \in Seq(EditOp)
  PROVE  \E place : Rearranged(edits, SortEdits(edits), place) /\ ByPosition(edits, place)
<1> DEFINE n == Len(edits)
           Precedes(j, k) ==
             \/ edits[j].start < edits[k].start
             \/ /\ edits[j].start = edits[k].start
                /\ \/ edits[j].kind = "insert" /\ edits[k].kind = "delete"
                   \/ edits[j].kind = edits[k].kind /\ j < k
           Place(k) == Cardinality({j \in DOMAIN edits : Precedes(j, k)}) + 1
           R == {r \in (1..n) \X (1..n) : Precedes(r[1], r[2])}
           place == [k \in 1..n |-> Cardinality({j \in 1..n : <<j, k>> \in R}) + 1]
<1>1. n \in Nat /\ DOMAIN edits = 1..n
  OBVIOUS
<1>2. \A k \in 1..n : edits[k].start \in Nat /\ edits[k].kind \in {"insert", "delete"}
  <2>1. \A k \in 1..n : edits[k] \in EditOp
    OBVIOUS
  <2> QED
    BY <2>1, EditParts
<1>3. SortEdits(edits) = [i \in DOMAIN edits |-> edits[CHOOSE k \in DOMAIN edits : Place(k) = i]]
  BY Zenon DEF SortEdits
<1>4. IsSeq(SortEdits(edits)) /\ Len(SortEdits(edits)) = n
  BY <1>1, <1>3, SeqOfFunction
<1>5. \A j, k \in 1..n : Precedes(j, k) <=> <<j, k>> \in R
  OBVIOUS
<1>6. \A j \in 1..n : ~Precedes(j, j)
  BY <1>2
<1>7. ASSUME NEW i \in 1..n, NEW j \in 1..n, NEW k \in 1..n, Precedes(i, j), Precedes(j, k)
      PROVE  Precedes(i, k)
  BY <1>2, <1>7
<1>8. ASSUME NEW j \in 1..n, NEW k \in 1..n, j # k
      PROVE  Precedes(j, k) \/ Precedes(k, j)
  BY <1>2, <1>8
<1>9. ASSUME NEW j \in 1..n, NEW k \in 1..n, Precedes(j, k)
      PROVE  /\ edits[j].start <= edits[k].start
             /\ edits[j].start = edits[k].start /\ edits[k].kind = "insert" => edits[j].kind = "insert"
  BY <1>2, <1>9
<1>10. ASSUME NEW j \in 1..n, NEW k \in 1..n, j < k, edits[j].start = edits[k].start,
              edits[j].kind = edits[k].kind
       PROVE  Precedes(j, k)
  BY <1>10
<1> HIDE DEF Precedes, R
<1>11. /\ place \in [1..n -> 1..n]
       /\ \A i \in 1..n : \E k \in 1..n : place[k] = i
       /\ \A j, k \in 1..n : <<j, k>> \in R => place[j] < place[k]
  <2>1. \A j \in 1..n : <<j, j>> \notin R
    BY <1>5, <1>6
  <2>2. \A l, j, k \in 1..n : <<l, j>> \in R /\ <<j, k>> \in R => <<l, k>> \in R
    BY <1>5, <1>7
  <2>3. \A j, k \in 1..n : j # k => <<j, k>> \in R \/ <<k, j>> \in R
    BY <1>5, <1>8
  <2>4. InOrder(n, R)
    BY <2>1, <2>2, <2>3 DEF InOrder
  <2> HIDE DEF n
  <2> QED
    BY <1>1, <2>4, Ranking
<1>12. \A k \in 1..n : Place(k) = place[k]
  BY <1>1, <1>5
<1> HIDE DEF Place, place
<1>13. ASSUME NEW j \in 1..n, NEW k \in 1..n, place[j] = place[k] PROVE j = k
  <2>1. place[j] \in Int
    <3>1. place[j] \in 1..n
      BY <1>11
    <3> QED
      BY <1>1, <3>1
  <2>2. ~(place[j] < place[k]) /\ ~(place[k] < place[j])
    BY <1>13, <2>1
  <2>3. ~Precedes(j, k) /\ ~Precedes(k, j)
    BY <1>5, <1>11, <2>2
  <2> QED
    BY <1>8, <2>3
<1>14. ASSUME NEW k \in 1..n PROVE SortEdits(edits)[place[k]] = edits[k]
  <2>1. place[k] \in 1..n
    BY <1>11
  <2>2. SortEdits(edits)[place[k]] = edits[CHOOSE j \in DOMAIN edits : Place(j) = place[k]]
    BY <1>1, <1>3, <2>1
  <2>3. \A j \in DOMAIN edits : Place(j) = place[k] <=> j = k
    BY <1>1, <1>12, <1>13
  <2>4. (CHOOSE j \in DOMAIN edits : Place(j) = place[k]) = k
    BY <1>1, <2>3
  <2> QED
    BY <2>2, <2>4
<1>15. Rearranged(edits, SortEdits(edits), place)
  BY <1>4, <1>11, <1>14 DEF Rearranged
<1>16. ASSUME NEW j \in 1..n, NEW k \in 1..n, place[j] < place[k] PROVE Precedes(j, k)
  <2>1. place[j] \in Int /\ place[k] \in Int
    <3>1. place[j] \in 1..n /\ place[k] \in 1..n
      BY <1>11
    <3> QED
      BY <1>1, <3>1
  <2>2. j # k /\ ~(place[k] < place[j])
    BY <1>16, <2>1
  <2> QED
    BY <1>5, <1>8, <1>11, <2>2
<1>17. ByPosition(edits, place)
  <2>1. \A j, k \in 1..n : Precedes(j, k) => place[j] < place[k]
    BY <1>5, <1>11
  <2> QED
    BY <1>9, <1>10, <1>16, <2>1 DEF ByPosition
<1> QED
  BY <1>15, <1>17

\* The sorted edits are edits of the batch.
LEMMA Sorting ==
  ASSUME NEW edits, edits \in Seq(EditOp)
  PROVE  /\ IsSeq(SortEdits(edits)) /\ Len(SortEdits(edits)) = Len(edits)
         /\ \A i \in 1..Len(edits) : \E k \in 1..Len(edits) : SortEdits(edits)[i] = edits[k]
<1>1. PICK place : Rearranged(edits, SortEdits(edits), place)
  BY SortingPlaces
<1>2. ASSUME NEW i \in 1..Len(edits)
      PROVE  \E k \in 1..Len(edits) : SortEdits(edits)[i] = edits[k]
  <2>1. PICK k \in 1..Len(edits) : place[k] = i
    BY <1>1 DEF Rearranged
  <2> QED
    BY <1>1, <2>1 DEF Rearranged
<1> QED
  BY <1>1, <1>2 DEF Rearranged

\* A replacement of a range of the text.
ReplOK(base, r) ==
  /\ r.os \in Nat /\ r.oe \in Nat /\ r.os <= r.oe /\ r.oe <= Len(base)
  /\ IsSeq(r.text)

\* The sequence with its last element replaced.
Relasted(s, x, r) ==
  /\ Len(s) \in Nat /\ Len(s) >= 1 /\ IsSeq(r) /\ Len(r) = Len(s) /\ r[Len(s)] = x
  /\ \A k \in 1..(Len(s) - 1) : r[k] = s[k]

\* Appending to the front of a sequence replaces its last element.
LEMMA Relasting ==
  ASSUME NEW s, IsSeq(s), s # <<>>, NEW x
  PROVE  Relasted(s, x, Append(Front(s), x))
<1>1. Len(s) \in Nat /\ Len(s) >= 1
  <2>1. Len(s) # 0
    BY EmptySeq DEF IsSeq
  <2> QED
    BY <2>1, SeqParts
<1>2. Front(s) = SubSeq(s, 1, Len(s) - 1)
  BY DEF Front
<1>3. /\ IsSeq(Front(s)) /\ Len(Front(s)) = Len(s) - 1
      /\ \A k \in 1..(Len(s) - 1) : Front(s)[k] = s[k]
  <2> DEFINE m == Len(s) - 1
  <2>1. 0 \in 0..Len(s) /\ m \in 0..Len(s) /\ m - 0 = m /\ 0 + 1 = 1
    BY <1>1
  <2> HIDE DEF m
  <2>2. /\ IsSeq(SubSeq(s, 0 + 1, m)) /\ Len(SubSeq(s, 0 + 1, m)) = m - 0
        /\ \A k \in 1..(m - 0) : SubSeq(s, 0 + 1, m)[k] = s[0 + k]
    BY <2>1, SeqSub
  <2>3. SubSeq(s, 0 + 1, m) = Front(s)
    BY <1>2, <2>1 DEF m
  <2>4. \A k \in 1..m : 0 + k = k
    BY <2>1
  <2> QED
    BY <2>1, <2>2, <2>3, <2>4 DEF m
<1>4. /\ IsSeq(Append(Front(s), x)) /\ Len(Append(Front(s), x)) = Len(Front(s)) + 1
      /\ \A k \in 1..Len(Front(s)) : Append(Front(s), x)[k] = Front(s)[k]
      /\ Append(Front(s), x)[Len(Front(s)) + 1] = x
  BY <1>3, SeqAppend
<1>5. Len(s) - 1 + 1 = Len(s)
  BY <1>1
<1> QED
  BY <1>1, <1>3, <1>4, <1>5 DEF Relasted

\* The replacements of a batch.
ReplsOK(base, repls) == IsSeq(repls) /\ \A k \in 1..Len(repls) : ReplOK(base, repls[k])

\* Joining an edit keeps the replacements in the text.
LEMMA JoinStep ==
  ASSUME NEW base, NEW repls, ReplsOK(base, repls),
         NEW edit \in EditOp, InBounds(base, edit), Len(base) \in Nat
  PROVE  ReplsOK(base, Join(repls, edit))
<1>1. /\ edit.start \in Nat /\ edit.end \in Nat /\ edit.start <= edit.end /\ edit.end <= Len(base)
  BY EditParts DEF InBounds
<1>2. IsSeq(edit.text)
  BY EditParts
<1>3. CASE repls # <<>> /\ Last(repls).open /\ Last(repls).os = edit.start
  <2> DEFINE x == [os |-> Last(repls).os, oe |-> edit.end, text |-> Last(repls).text \o edit.text,
                   open |-> edit.kind = "insert"]
             r == Append(Front(repls), x)
  <2>1. Join(repls, edit) = r
    BY <1>3, Zenon DEF Join
  <2>2. /\ Len(repls) \in Nat /\ Len(repls) >= 1 /\ IsSeq(r) /\ Len(r) = Len(repls) /\ r[Len(repls)] = x
        /\ \A k \in 1..(Len(repls) - 1) : r[k] = repls[k]
    <3>1. IsSeq(repls) /\ repls # <<>>
      BY <1>3 DEF ReplsOK
    <3> HIDE DEF x
    <3>2. Relasted(repls, x, r)
      BY <3>1, Relasting
    <3> QED
      BY <3>2 DEF Relasted
  <2>3. Last(repls) = repls[Len(repls)] /\ Len(repls) \in 1..Len(repls)
    BY <2>2 DEF Last
  <2>4. IsSeq(Last(repls).text)
    BY <2>3 DEF ReplsOK, ReplOK
  <2>5. IsSeq(Last(repls).text \o edit.text)
    BY <1>2, <2>4, SeqConcat
  <2>6. x.os = edit.start /\ x.oe = edit.end /\ x.text = Last(repls).text \o edit.text
    BY <1>3
  <2>7. ReplOK(base, x)
    <3> HIDE DEF x
    <3> QED
      BY <1>1, <2>5, <2>6 DEF ReplOK
  <2> HIDE DEF x, r
  <2>8. ASSUME NEW k \in 1..Len(r) PROVE ReplOK(base, r[k])
    <3>1. CASE k = Len(repls)
      BY <2>2, <2>7, <3>1
    <3>2. CASE k # Len(repls)
      <4>1. k \in 1..(Len(repls) - 1) /\ k \in 1..Len(repls)
        BY <2>2, <3>2
      <4> QED
        BY <2>2, <4>1 DEF ReplsOK
    <3> QED
      BY <3>1, <3>2
  <2> QED
    BY <2>1, <2>2, <2>8 DEF ReplsOK
<1>4. CASE ~(repls # <<>> /\ Last(repls).open /\ Last(repls).os = edit.start)
  <2> DEFINE x == [os |-> edit.start, oe |-> edit.end, text |-> edit.text,
                   open |-> edit.kind = "insert"]
             r == Append(repls, x)
  <2>1. Join(repls, edit) = r
    BY <1>4, Zenon DEF Join
  <2>2. x.os = edit.start /\ x.oe = edit.end /\ x.text = edit.text
    OBVIOUS
  <2> HIDE DEF x
  <2>3. ReplOK(base, x)
    BY <1>1, <1>2, <2>2 DEF ReplOK
  <2>4. /\ IsSeq(r) /\ Len(r) = Len(repls) + 1 /\ r[Len(repls) + 1] = x
        /\ \A k \in 1..Len(repls) : r[k] = repls[k]
    BY SeqAppend DEF ReplsOK
  <2>5. Len(repls) \in Nat
    BY SeqParts DEF ReplsOK
  <2> HIDE DEF r
  <2>6. ASSUME NEW k \in 1..Len(r) PROVE ReplOK(base, r[k])
    <3>1. CASE k = Len(repls) + 1
      BY <2>3, <2>4, <3>1
    <3>2. CASE k # Len(repls) + 1
      <4>1. k \in 1..Len(repls)
        BY <2>4, <2>5, <3>2
      <4> QED
        BY <2>4, <4>1 DEF ReplsOK
    <3> QED
      BY <3>1, <3>2
  <2> QED
    BY <2>1, <2>4, <2>6 DEF ReplsOK
<1> QED
  BY <1>3, <1>4

\* The replacements of a batch whose edits are in bounds lie in the text.
LEMMA Joining ==
  ASSUME NEW base, Len(base) \in Nat, NEW edits, edits \in Seq(EditOp),
         \A k \in DOMAIN edits : InBounds(base, edits[k])
  PROVE  ReplsOK(base, Replacements(edits))
<1> DEFINE es == SortEdits(edits)
           P(n) == Joins!States(<<>>, es)[n]
           S == {n \in Nat : n <= Len(es) => ReplsOK(base, P(n))}
<1>1. IsSeq(es) /\ Len(es) = Len(edits) /\ Len(edits) \in Nat /\ DOMAIN edits = 1..Len(edits)
  BY Sorting
<1>2. \A i \in 1..Len(es) : es[i] \in EditOp /\ InBounds(base, es[i])
  <2>1. ASSUME NEW i \in 1..Len(es) PROVE es[i] \in EditOp /\ InBounds(base, es[i])
    <3>1. PICK k \in 1..Len(edits) : es[i] = edits[k]
      BY <1>1, Sorting
    <3>2. edits[k] \in EditOp
      OBVIOUS
    <3> QED
      BY <1>1, <3>1, <3>2
  <2> QED
    BY <2>1
<1> HIDE DEF es
<1>3. P(0) = <<>> /\ \A n \in 1..Len(es) : P(n) = Join(P(n - 1), es[n])
  BY <1>1, Joins!Iterates
<1> HIDE DEF P
<1>4. 0 \in S
  <2>1. ReplsOK(base, <<>>)
    BY SeqEmpty DEF ReplsOK
  <2> QED
    BY <1>3, <2>1
<1>5. ASSUME NEW n \in Nat, n \in S PROVE n + 1 \in S
  <2> SUFFICES ASSUME n + 1 <= Len(es) PROVE ReplsOK(base, P(n + 1))
    OBVIOUS
  <2> DEFINE m == n + 1
  <2>1. m \in 1..Len(es) /\ m - 1 = n /\ n <= Len(es)
    BY <1>1
  <2>2. ReplsOK(base, P(n))
    BY <1>5, <2>1
  <2> HIDE DEF m
  <2>3. P(m) = Join(P(m - 1), es[m])
    BY <1>3, <2>1, Zenon
  <2>4. P(m) = Join(P(n), es[m])
    BY <2>1, <2>3, Zenon
  <2>5. es[m] \in EditOp /\ InBounds(base, es[m])
    BY <1>2, <2>1
  <2>6. ReplsOK(base, Join(P(n), es[m]))
    BY <2>2, <2>5, JoinStep
  <2> QED
    BY <2>4, <2>6, Zenon DEF m
<1>6. \A n \in Nat : n \in S
  <2> HIDE DEF S
  <2> QED
    BY <1>4, <1>5, Refs!SetInduction
<1>7. ReplsOK(base, P(Len(es)))
  BY <1>1, <1>6
<1> QED
  BY <1>7, Zenon DEF P, es, Replacements, Joins!After

\* A splice of a normalised batch; the one before it ends at OE and at NE.
SpliceOK(base, s, OE, NE) ==
  /\ s.os \in Nat /\ s.oe \in Nat /\ s.ns \in Nat /\ s.ne \in Nat
  /\ s.os <= s.oe /\ s.oe <= Len(base)
  /\ IsSeq(s.text) /\ s.ne = s.ns + Len(s.text)
  /\ OE <= s.os /\ s.ns - NE = s.os - OE

\* Splices in order, with texts of the length their ranges say.
Normal(base, splices) ==
  /\ IsSeq(splices)
  /\ \A k \in 1..Len(splices) :
       SpliceOK(base, splices[k], OldEnd(splices, k - 1), NewEnd(splices, k - 1))

\* The splices made of the replacements that end at bound.
Added(base, d, bound) ==
  /\ Normal(base, d.splices)
  /\ d.shift = NewEnd(d.splices, Len(d.splices)) - OldEnd(d.splices, Len(d.splices))
  /\ OldEnd(d.splices, Len(d.splices)) <= bound

\* The splices of a revision end at offsets.
LEMMA NormalEnds ==
  ASSUME NEW base, NEW splices, Normal(base, splices)
  PROVE  /\ Len(splices) \in Nat
         /\ \A k \in 0..Len(splices) : OldEnd(splices, k) \in Nat /\ NewEnd(splices, k) \in Nat
<1>1. Len(splices) \in Nat
  BY SeqParts DEF Normal
<1>2. ASSUME NEW k \in 0..Len(splices)
      PROVE  OldEnd(splices, k) \in Nat /\ NewEnd(splices, k) \in Nat
  <2>1. CASE k = 0
    BY <2>1 DEF OldEnd, NewEnd
  <2>2. CASE k # 0
    <3>1. k \in 1..Len(splices)
      BY <1>1, <2>2
    <3>2. splices[k].oe \in Nat /\ splices[k].ne \in Nat
      BY <3>1 DEF Normal, SpliceOK
    <3> QED
      BY <2>2, <3>2 DEF OldEnd, NewEnd
  <2> QED
    BY <2>1, <2>2
<1> QED
  BY <1>1, <1>2

\* One more splice.
LEMMA NormalAppend ==
  ASSUME NEW base, NEW splices, Normal(base, splices), NEW x,
         SpliceOK(base, x, OldEnd(splices, Len(splices)), NewEnd(splices, Len(splices)))
  PROVE  LET r == Append(splices, x)
         IN /\ Normal(base, r) /\ OldEnd(r, Len(r)) = x.oe /\ NewEnd(r, Len(r)) = x.ne
<1> DEFINE r == Append(splices, x)
           n == Len(splices)
<1>1. n \in Nat /\ IsSeq(splices)
  BY SeqParts DEF Normal
<1>2. /\ IsSeq(r) /\ Len(r) = n + 1 /\ r[n + 1] = x
      /\ \A k \in 1..n : r[k] = splices[k]
  BY <1>1, SeqAppend
<1> HIDE DEF r
<1>3. \A k \in 0..n : OldEnd(r, k) = OldEnd(splices, k) /\ NewEnd(r, k) = NewEnd(splices, k)
  BY <1>1, <1>2 DEF OldEnd, NewEnd
<1>4. ASSUME NEW k \in 1..Len(r)
      PROVE  SpliceOK(base, r[k], OldEnd(r, k - 1), NewEnd(r, k - 1))
  <2>1. k - 1 \in 0..n
    BY <1>1, <1>2
  <2>2. CASE k = n + 1
    <3>1. k - 1 = n
      BY <1>1, <2>2
    <3> HIDE DEF n
    <3> QED
      BY <1>2, <1>3, <2>1, <2>2, <3>1 DEF n
  <2>3. CASE k # n + 1
    <3>1. k \in 1..n
      BY <1>1, <1>2, <2>3
    <3>2. SpliceOK(base, splices[k], OldEnd(splices, k - 1), NewEnd(splices, k - 1))
      BY <3>1 DEF Normal
    <3> QED
      BY <1>2, <1>3, <2>1, <3>1, <3>2
  <2> QED
    BY <2>2, <2>3
<1>5. OldEnd(r, Len(r)) = x.oe /\ NewEnd(r, Len(r)) = x.ne
  BY <1>1, <1>2 DEF OldEnd, NewEnd
<1> QED
  BY <1>2, <1>4, <1>5 DEF Normal, r

\* Another last splice.
LEMMA NormalRelast ==
  ASSUME NEW base, NEW splices, Normal(base, splices), splices # <<>>, NEW x,
         SpliceOK(base, x, OldEnd(splices, Len(splices) - 1), NewEnd(splices, Len(splices) - 1))
  PROVE  LET r == Append(Front(splices), x)
         IN /\ Normal(base, r) /\ OldEnd(r, Len(r)) = x.oe /\ NewEnd(r, Len(r)) = x.ne
<1> DEFINE r == Append(Front(splices), x)
           n == Len(splices)
<1>1. IsSeq(splices)
  BY DEF Normal
<1>2. Relasted(splices, x, r)
  BY <1>1, Relasting
<1>3. /\ n \in Nat /\ n >= 1 /\ IsSeq(r) /\ Len(r) = n /\ r[n] = x
      /\ \A k \in 1..(n - 1) : r[k] = splices[k]
  BY <1>2 DEF Relasted
<1> HIDE DEF r
<1>4. \A k \in 0..(n - 1) : OldEnd(r, k) = OldEnd(splices, k) /\ NewEnd(r, k) = NewEnd(splices, k)
  BY <1>3 DEF OldEnd, NewEnd
<1>5. ASSUME NEW k \in 1..Len(r)
      PROVE  SpliceOK(base, r[k], OldEnd(r, k - 1), NewEnd(r, k - 1))
  <2>1. k - 1 \in 0..(n - 1)
    BY <1>3
  <2>2. CASE k = n
    BY <1>3, <1>4, <2>1, <2>2
  <2>3. CASE k # n
    <3>1. k \in 1..(n - 1) /\ k \in 1..n
      BY <1>3, <2>3
    <3>2. SpliceOK(base, splices[k], OldEnd(splices, k - 1), NewEnd(splices, k - 1))
      BY <3>1 DEF Normal
    <3> QED
      BY <1>3, <1>4, <2>1, <3>1, <3>2
  <2> QED
    BY <2>2, <2>3
<1>6. OldEnd(r, Len(r)) = x.oe /\ NewEnd(r, Len(r)) = x.ne
  BY <1>3 DEF OldEnd, NewEnd
<1> QED
  BY <1>3, <1>5, <1>6 DEF Normal, r

\* One more replacement keeps the splices in order, also when it joins the last.
LEMMA AddStep ==
  ASSUME NEW base, NEW d, NEW bound \in Nat, Added(base, d, bound),
         NEW e, ReplOK(base, e.repl), bound <= e.repl.os
  PROVE  Added(base, AddReplacement(d, e), e.repl.oe)
<1> DEFINE r == e.repl
           n == Len(d.splices)
           last == Last(d.splices)
           ns == r.os + d.shift
           ne == ns + Len(r.text)
           shift == d.shift + Len(r.text) - (r.oe - r.os)
<1>1. n \in Nat /\ Normal(base, d.splices)
  BY NormalEnds DEF Added
<1>2. PICK OE \in Nat : OE = OldEnd(d.splices, n)
  BY <1>1, NormalEnds
<1>3. PICK NE \in Nat : NE = NewEnd(d.splices, n)
  BY <1>1, NormalEnds
<1>4. PICK a \in Nat : a = r.os
  BY DEF ReplOK
<1>5. PICK b \in Nat : b = r.oe
  BY DEF ReplOK
<1>6. PICK l \in Nat : l = Len(r.text)
  BY SeqParts DEF ReplOK
<1>7. IsSeq(r.text) /\ a <= b /\ b <= Len(base) /\ bound <= a
  BY <1>4, <1>5 DEF ReplOK
<1>8. d.shift = NE - OE /\ OE <= bound
  BY <1>2, <1>3 DEF Added
<1>9. PICK c \in Int : c = d.shift
  BY <1>8
<1>10. c = NE - OE
  BY <1>8, <1>9, Zenon
<1>11. CASE ReplacesByEqual(e.base, r)
  <2>1. AddReplacement(d, e) = d
    BY <1>11, Zenon DEF AddReplacement
  <2>2. OE <= b
    BY <1>7, <1>8
  <2>3. OldEnd(d.splices, n) <= r.oe
    BY <1>2, <1>5, <2>2, Zenon
  <2> QED
    BY <2>1, <2>3 DEF Added
<1>12. CASE ~ReplacesByEqual(e.base, r) /\ d.splices # <<>> /\ last.oe = r.os /\ last.ne = ns
  <2> DEFINE x == [os |-> last.os, oe |-> r.oe, ns |-> last.ns, ne |-> ne, text |-> last.text \o r.text]
             q == Append(Front(d.splices), x)
  <2>1. AddReplacement(d, e) = [shift |-> shift, splices |-> q]
    BY <1>12, Zenon DEF AddReplacement
  <2>2. n >= 1 /\ last = d.splices[n] /\ n # 0
    BY <1>1, <1>12, EmptySeq DEF Last, Normal, IsSeq
  <2>3. OE = last.oe /\ NE = last.ne
    BY <1>2, <1>3, <2>2 DEF OldEnd, NewEnd
  <2>4. PICK O \in Nat : O = OldEnd(d.splices, n - 1)
    <3>1. n - 1 \in 0..n
      BY <1>1, <2>2
    <3> QED
      BY <1>1, <3>1, NormalEnds
  <2>5. PICK N \in Nat : N = NewEnd(d.splices, n - 1)
    <3>1. n - 1 \in 0..n
      BY <1>1, <2>2
    <3> QED
      BY <1>1, <3>1, NormalEnds
  <2>6. SpliceOK(base, last, O, N)
    <3>1. n \in 1..n
      BY <1>1, <2>2
    <3>2. SpliceOK(base, d.splices[n], OldEnd(d.splices, n - 1), NewEnd(d.splices, n - 1))
      BY <1>1, <3>1 DEF Normal
    <3> QED
      BY <2>2, <2>4, <2>5, <3>2, Zenon
  <2> HIDE DEF last
  <2>7. PICK p \in Nat : p = last.os
    BY <2>6 DEF SpliceOK
  <2>8. PICK m \in Nat : m = last.ns
    BY <2>6 DEF SpliceOK
  <2>9. PICK k \in Nat : k = Len(last.text)
    BY <2>6, SeqParts DEF SpliceOK
  <2>10. p <= OE /\ NE = m + k /\ O <= p /\ m - N = p - O /\ IsSeq(last.text)
    BY <2>3, <2>6, <2>7, <2>8, <2>9, Zenon DEF SpliceOK
  <2>11. OE = a /\ NE = a + c
    BY <1>4, <1>9, <1>12, <2>3
  <2>12. IsSeq(last.text \o r.text) /\ Len(last.text \o r.text) = k + l
    BY <1>6, <1>7, <2>9, <2>10, SeqConcat
  <2>13. x.os = p /\ x.oe = b /\ x.ns = m /\ x.ne = (a + c) + l /\ x.text = last.text \o r.text
    BY <1>4, <1>5, <1>6, <1>9, <2>7, <2>8, Zenon
  <2>14. (a + c) + l = m + (k + l) /\ (a + c) + l \in Nat /\ p <= b
    BY <1>7, <2>10, <2>11
  <2> HIDE DEF x
  <2>15. SpliceOK(base, x, O, N)
    <3>1. x.os = p /\ x.oe = b /\ x.ns = m /\ x.ne = m + (k + l) /\ m + (k + l) \in Nat
      BY <2>13, <2>14
    <3>2. IsSeq(x.text) /\ Len(x.text) = k + l
      BY <2>12, <2>13
    <3>3. /\ x.os \in Nat /\ x.oe \in Nat /\ x.ns \in Nat /\ x.ne \in Nat
          /\ x.os <= x.oe /\ x.oe <= Len(base) /\ O <= x.os /\ x.ns - N = x.os - O
      BY <1>7, <2>10, <2>14, <3>1
    <3>4. x.ne = x.ns + Len(x.text)
      BY <3>1, <3>2
    <3> QED
      BY <3>2, <3>3, <3>4 DEF SpliceOK
  <2>16. Normal(base, q) /\ OldEnd(q, Len(q)) = x.oe /\ NewEnd(q, Len(q)) = x.ne
    <3>1. SpliceOK(base, x, OldEnd(d.splices, n - 1), NewEnd(d.splices, n - 1))
      BY <2>4, <2>5, <2>15, Zenon
    <3> QED
      BY <1>1, <1>12, <3>1, NormalRelast
  <2>17. shift = (c + l) - (b - a)
    BY <1>4, <1>5, <1>6, <1>9
  <2> HIDE DEF q, shift
  <2>18. (c + l) - (b - a) = ((a + c) + l) - b
    OBVIOUS
  <2>19. OldEnd(q, Len(q)) = b /\ NewEnd(q, Len(q)) = (a + c) + l
    BY <2>13, <2>16, Zenon
  <2>20. shift = NewEnd(q, Len(q)) - OldEnd(q, Len(q)) /\ OldEnd(q, Len(q)) <= r.oe
    <3>1. b <= b
      OBVIOUS
    <3> QED
      BY <1>5, <2>17, <2>18, <2>19, <3>1, Zenon
  <2>21. AddReplacement(d, e).splices = q /\ AddReplacement(d, e).shift = shift
    BY <2>1
  <2> QED
    BY <2>16, <2>20, <2>21, Zenon DEF Added
<1>13. CASE ~ReplacesByEqual(e.base, r) /\ ~(d.splices # <<>> /\ last.oe = r.os /\ last.ne = ns)
  <2> DEFINE x == [os |-> r.os, oe |-> r.oe, ns |-> ns, ne |-> ne, text |-> r.text]
             q == Append(d.splices, x)
  <2>1. AddReplacement(d, e) = [shift |-> shift, splices |-> q]
    BY <1>13, Zenon DEF AddReplacement
  <2>2. x.os = a /\ x.oe = b /\ x.ns = a + c /\ x.ne = (a + c) + l /\ x.text = r.text
    BY <1>4, <1>5, <1>6, <1>9, Zenon
  <2>3. a + c \in Nat /\ (a + c) + l \in Nat /\ (a + c) - NE = a - OE /\ OE <= a
    BY <1>7, <1>8, <1>10
  <2>4. shift = (c + l) - (b - a)
    <3>1. shift = c + (l - (b - a))
      BY <1>4, <1>5, <1>6, <1>9, Zenon
    <3>2. c + (l - (b - a)) = (c + l) - (b - a)
      OBVIOUS
    <3> QED
      BY <3>1, <3>2, Zenon
  <2> HIDE DEF x, shift
  <2>5. SpliceOK(base, x, OE, NE)
    <3>1. /\ x.os \in Nat /\ x.oe \in Nat /\ x.ns \in Nat /\ x.ne \in Nat
          /\ x.os <= x.oe /\ x.oe <= Len(base) /\ OE <= x.os /\ x.ns - NE = x.os - OE
      BY <1>7, <2>2, <2>3
    <3>2. x.ne = x.ns + Len(x.text) /\ IsSeq(x.text)
      BY <1>6, <1>7, <2>2, Zenon
    <3> QED
      BY <3>1, <3>2 DEF SpliceOK
  <2>6. Normal(base, q) /\ OldEnd(q, Len(q)) = x.oe /\ NewEnd(q, Len(q)) = x.ne
    <3>1. SpliceOK(base, x, OldEnd(d.splices, n), NewEnd(d.splices, n))
      BY <1>2, <1>3, <2>5, Zenon
    <3> QED
      BY <1>1, <3>1, NormalAppend
  <2> HIDE DEF q
  <2>7. (c + l) - (b - a) = ((a + c) + l) - b
    OBVIOUS
  <2>8. OldEnd(q, Len(q)) = b /\ NewEnd(q, Len(q)) = (a + c) + l
    BY <2>2, <2>6, Zenon
  <2>9. shift = NewEnd(q, Len(q)) - OldEnd(q, Len(q)) /\ OldEnd(q, Len(q)) <= r.oe
    <3>1. b <= b
      OBVIOUS
    <3> QED
      BY <1>5, <2>4, <2>7, <2>8, <3>1, Zenon
  <2>10. AddReplacement(d, e).splices = q /\ AddReplacement(d, e).shift = shift
    BY <2>1
  <2> QED
    BY <2>6, <2>9, <2>10, Zenon DEF Added
<1> QED
  BY <1>11, <1>12, <1>13

\* Replacements that do not overlap give splices in order.
LEMMA Adding ==
  ASSUME NEW base, NEW repls, ReplsOK(base, repls), ~Overlap(repls)
  PROVE  Normal(base, Splices(base, repls))
<1> DEFINE es == [k \in DOMAIN repls |-> [base |-> base, repl |-> repls[k]]]
           d0 == [shift |-> 0, splices |-> <<>>]
           P(n) == Changes!States(d0, es)[n]
           Bound(n) == IF n = 0 THEN 0 ELSE repls[n].oe
           S == {n \in Nat : n <= Len(repls) => Added(base, P(n), Bound(n))}
<1>1. Len(repls) \in Nat /\ DOMAIN repls = 1..Len(repls)
  BY SeqParts DEF ReplsOK
<1>2. IsSeq(es) /\ Len(es) = Len(repls)
  BY <1>1, SeqOfFunction
<1>3. \A k \in 1..Len(repls) : es[k].repl = repls[k]
  BY <1>1
<1> HIDE DEF es
<1>4. P(0) = d0 /\ \A n \in 1..Len(repls) : P(n) = AddReplacement(P(n - 1), es[n])
  BY <1>1, <1>2, Changes!Iterates
<1> HIDE DEF P
<1>5. \A n \in 0..Len(repls) : Bound(n) \in Nat
  BY <1>1 DEF ReplsOK, ReplOK
<1>6. \A n \in 1..Len(repls) : Bound(n - 1) <= repls[n].os
  <2>1. ASSUME NEW n \in 1..Len(repls) PROVE Bound(n - 1) <= repls[n].os
    <3>1. CASE n = 1
      <4>1. repls[n].os \in Nat
        BY DEF ReplsOK, ReplOK
      <4> QED
        BY <3>1, <4>1
    <3>2. CASE n # 1
      <4> DEFINE m == n - 1
      <4>1. m \in 1..(Len(repls) - 1) /\ m + 1 = n /\ m # 0 /\ m \in 1..Len(repls)
        BY <1>1, <3>2
      <4> HIDE DEF m
      <4>2. ~(repls[m].oe > repls[m + 1].os)
        BY <4>1 DEF Overlap
      <4>3. repls[m].oe \in Nat /\ repls[n].os \in Nat
        BY <4>1 DEF ReplsOK, ReplOK
      <4>4. repls[m].oe <= repls[n].os
        BY <4>1, <4>2, <4>3
      <4> QED
        BY <4>1, <4>4 DEF m
    <3> QED
      BY <3>1, <3>2
  <2> QED
    BY <2>1
<1>7. 0 \in S
  <2>1. d0.splices = <<>> /\ d0.shift = 0
    OBVIOUS
  <2>2. Normal(base, <<>>) /\ Len(<<>>) = 0
    BY SeqEmpty DEF Normal
  <2>3. OldEnd(<<>>, 0) = 0 /\ NewEnd(<<>>, 0) = 0
    BY DEF OldEnd, NewEnd
  <2> HIDE DEF d0
  <2>4. Added(base, d0, 0)
    BY <2>1, <2>2, <2>3 DEF Added
  <2> QED
    BY <1>4, <2>4
<1>8. ASSUME NEW n \in Nat, n \in S PROVE n + 1 \in S
  <2> SUFFICES ASSUME n + 1 <= Len(repls) PROVE Added(base, P(n + 1), Bound(n + 1))
    OBVIOUS
  <2> DEFINE m == n + 1
  <2>1. m \in 1..Len(repls) /\ m - 1 = n /\ n <= Len(repls) /\ n \in 0..Len(repls) /\ m # 0
    BY <1>1
  <2>2. Added(base, P(n), Bound(n))
    BY <1>8, <2>1
  <2> HIDE DEF m
  <2>3. P(m) = AddReplacement(P(m - 1), es[m])
    BY <1>4, <2>1, Zenon
  <2>4. P(m) = AddReplacement(P(n), es[m])
    BY <2>1, <2>3, Zenon
  <2>5. ReplOK(base, es[m].repl)
    BY <1>3, <2>1 DEF ReplsOK
  <2>6. Bound(n) \in Nat /\ Bound(n) <= es[m].repl.os
    BY <1>3, <1>5, <1>6, <2>1
  <2>7. Bound(m) = es[m].repl.oe
    BY <1>3, <2>1
  <2> HIDE DEF Bound
  <2>8. Added(base, AddReplacement(P(n), es[m]), es[m].repl.oe)
    BY <2>2, <2>5, <2>6, AddStep
  <2> QED
    BY <2>4, <2>7, <2>8, Zenon DEF m
<1>9. \A n \in Nat : n \in S
  <2> HIDE DEF S
  <2> QED
    BY <1>7, <1>8, Refs!SetInduction
<1>10. Normal(base, P(Len(repls)).splices)
  BY <1>1, <1>9 DEF Added
<1>11. Splices(base, repls) = P(Len(repls)).splices
  BY <1>2 DEF P, es, Splices, Changes!After
<1> QED
  BY <1>10, <1>11

\* The text between two splices: where it is when the splices behind the k-th have
\* been applied, and that it is that of base.
Spread(base, splices, k, text, g) ==
  LET at  == NewEnd(splices, g) - (NewEnd(splices, k) - OldEnd(splices, k))
      gap == OldStart(splices, g + 1, base) - OldEnd(splices, g)
  IN /\ NewEnd(splices, g) >= NewEnd(splices, k)
     /\ at + gap <= Len(text)
     /\ \A j \in 1..gap : text[at + j] = base[OldEnd(splices, g) + j]

\* The splices behind the k-th are applied, the others are not.
HalfApplied(base, splices, k, text) ==
  /\ IsSeq(text)
  /\ Len(text) = Len(base) + (NewEnd(splices, Len(splices)) - OldEnd(splices, Len(splices)))
                   - (NewEnd(splices, k) - OldEnd(splices, k))
  /\ \A j \in 1..OldStart(splices, k + 1, base) : text[j] = base[j]
  /\ \A g \in k..Len(splices) : Spread(base, splices, k, text, g)

\* Replacing [os, oe) moves what lies behind it.
Fits(text, ins, os, oe, ns, E, gap) ==
  /\ os <= oe /\ oe <= Len(text) /\ Len(ins) \in Nat
  /\ E >= ns + Len(ins) /\ (E - ((ns + Len(ins)) - oe)) + gap <= Len(text)

Moves(text, ins, r, os, oe, ns, E, gap) ==
  /\ (E - (ns - os)) + gap <= Len(r)
  /\ \A j \in 1..gap : r[(E - (ns - os)) + j] = text[(E - ((ns + Len(ins)) - oe)) + j]

\* A replacement moves the text behind it by the difference of the lengths.
LEMMA Moving ==
  ASSUME NEW text, IsSeq(text), NEW ins, NEW r, NEW os \in Nat, NEW oe \in Nat,
         Replaced(text, os, oe, ins, r), NEW ns \in Nat, NEW E \in Nat, NEW gap \in Int,
         Fits(text, ins, os, oe, ns, E, gap)
  PROVE  Moves(text, ins, r, os, oe, ns, E, gap)
<1>1. PICK m \in Nat : m = Len(text)
  BY SeqParts
<1>2. PICK l \in Nat : l = Len(ins)
  BY DEF Fits
<1>3. Len(r) = m - (oe - os) + l /\ \A k \in 1..(m - oe) : r[os + l + k] = text[oe + k]
  BY <1>1, <1>2, Zenon DEF Replaced
<1>4. E >= ns + l /\ (E - ((ns + l) - oe)) + gap <= m /\ os <= oe /\ oe <= m
  BY <1>1, <1>2, Zenon DEF Fits
<1>5. (E - (ns - os)) + gap <= Len(r)
  <2>1. (E - (ns - os)) + gap <= m - (oe - os) + l
    BY <1>4
  <2> QED
    BY <1>3, <2>1, Zenon
<1>6. ASSUME NEW j \in 1..gap
      PROVE  r[(E - (ns - os)) + j] = text[(E - ((ns + l) - oe)) + j]
  <2> DEFINE k == E - (ns + l) + j
  <2>1. k \in 1..(m - oe) /\ os + l + k = (E - (ns - os)) + j /\ oe + k = (E - ((ns + l) - oe)) + j
    BY <1>4
  <2> HIDE DEF k
  <2>2. r[os + l + k] = text[oe + k]
    BY <1>3, <2>1, Zenon
  <2> QED
    BY <2>1, <2>2, Zenon
<1> QED
  BY <1>2, <1>5, <1>6, Zenon DEF Moves

\* Applying the splice k leaves the text before it alone and puts its own text and
\* what follows in place.
LEMMA ApplyStep ==
  ASSUME NEW base, IsSeq(base), NEW splices, Normal(base, splices), NEW k \in 1..Len(splices),
         NEW text, HalfApplied(base, splices, k, text)
  PROVE  HalfApplied(base, splices, k - 1, ApplySplice(text, splices[k]))
<1> DEFINE s == splices[k]
           n == Len(splices)
           ins == s.text
           r == ApplySplice(text, s)
<1>1. n \in Nat /\ \A g \in 0..n : OldEnd(splices, g) \in Nat /\ NewEnd(splices, g) \in Nat
  BY NormalEnds
<1>2. k \in 0..n /\ k - 1 \in 0..n /\ n \in 0..n /\ (k - 1) + 1 = k /\ k # 0 /\ ~(k > n)
  BY <1>1
<1>3. PICK O \in Nat : O = OldEnd(splices, k - 1)
  BY <1>1, <1>2
<1>4. PICK M \in Nat : M = NewEnd(splices, k - 1)
  BY <1>1, <1>2
<1>5. SpliceOK(base, s, O, M)
  <2>1. SpliceOK(base, splices[k], OldEnd(splices, k - 1), NewEnd(splices, k - 1))
    BY DEF Normal
  <2> QED
    BY <1>3, <1>4, <2>1, Zenon
<1>6. OldEnd(splices, k) = s.oe /\ NewEnd(splices, k) = s.ne /\ OldStart(splices, k, base) = s.os
  BY <1>2 DEF OldEnd, NewEnd, OldStart
<1> HIDE DEF s
<1>7. PICK os \in Nat : os = s.os
  BY <1>5 DEF SpliceOK
<1>8. PICK oe \in Nat : oe = s.oe
  BY <1>5 DEF SpliceOK
<1>9. PICK ns \in Nat : ns = s.ns
  BY <1>5 DEF SpliceOK
<1>10. PICK l \in Nat : l = Len(ins)
  BY <1>5, SeqParts DEF SpliceOK
<1>11. IsSeq(ins) /\ os <= oe /\ oe <= Len(base) /\ O <= os /\ ns - M = os - O
  BY <1>5, <1>7, <1>8, <1>9, Zenon DEF SpliceOK
<1>12. NewEnd(splices, k) = ns + l
  BY <1>5, <1>6, <1>9, <1>10, Zenon DEF SpliceOK
<1>13. PICK b \in Nat : b = Len(base)
  BY SeqParts
<1>14. PICK m \in Nat : m = Len(text)
  BY SeqParts DEF HalfApplied
<1>15. PICK OE \in Nat : OE = OldEnd(splices, n)
  BY <1>1, <1>2
<1>16. PICK NE \in Nat : NE = NewEnd(splices, n)
  BY <1>1, <1>2
<1>17. m = b + (NE - OE) - ((ns + l) - oe)
  BY <1>6, <1>8, <1>12, <1>13, <1>14, <1>15, <1>16, Zenon DEF HalfApplied
<1>18. OE <= b
  <2>1. n \in 1..n /\ n # 0
    BY <1>1
  <2>2. splices[n].oe <= Len(base)
    BY <2>1 DEF Normal, SpliceOK
  <2> QED
    BY <1>13, <1>15, <2>1, <2>2 DEF OldEnd
<1>19. NE >= ns + l
  <2>1. n \in k..n
    BY <1>1
  <2>2. Spread(base, splices, k, text, n)
    BY <2>1 DEF HalfApplied
  <2> QED
    BY <1>12, <1>16, <2>2, Zenon DEF Spread
<1>20. oe <= m
  BY <1>17, <1>18, <1>19
<1>21. IsSeq(text) /\ IsSeq(ins) /\ os \in 0..Len(text) /\ oe \in os..Len(text)
  BY <1>11, <1>14, <1>20 DEF HalfApplied
<1>22. r = ReplaceRange(text, os, oe, ins)
  BY <1>7, <1>8, Zenon DEF ApplySplice, ReplaceRange
<1>23. Replaced(text, os, oe, ins, r)
  BY <1>21, <1>22, Replacing
<1> HIDE DEF r, ins
<1>24. IsSeq(r) /\ Len(r) = m - (oe - os) + l /\ \A j \in 1..os : r[j] = text[j]
  BY <1>10, <1>14, <1>23, Zenon DEF Replaced
<1>25. Len(r) = Len(base) + (NewEnd(splices, n) - OldEnd(splices, n))
                  - (NewEnd(splices, k - 1) - OldEnd(splices, k - 1))
  <2>1. m - (oe - os) + l = b + (NE - OE) - (M - O)
    BY <1>11, <1>17
  <2> QED
    BY <1>3, <1>4, <1>13, <1>15, <1>16, <1>24, <2>1, Zenon
<1>26. oe <= OldStart(splices, k + 1, base)
  <2>1. CASE k = n
    <3>1. k + 1 > n
      BY <1>1, <2>1
    <3> QED
      BY <1>11, <3>1 DEF OldStart
  <2>2. CASE k # n
    <3> DEFINE h == k + 1
    <3>1. h \in 1..n /\ h - 1 = k /\ ~(h > n)
      BY <1>1, <2>2
    <3> HIDE DEF h
    <3>2. SpliceOK(base, splices[h], OldEnd(splices, h - 1), NewEnd(splices, h - 1))
      BY <3>1 DEF Normal
    <3>3. OldEnd(splices, h - 1) <= splices[h].os
      BY <3>2 DEF SpliceOK
    <3>4. OldStart(splices, h, base) = splices[h].os
      BY <3>1 DEF OldStart
    <3>5. oe <= OldStart(splices, h, base)
      BY <1>6, <1>8, <3>1, <3>3, <3>4, Zenon
    <3> QED
      BY <3>5, Zenon DEF h
  <2> QED
    BY <2>1, <2>2
<1>27. \A j \in 1..os : r[j] = base[j]
  <2>1. OldStart(splices, k + 1, base) \in Nat
    <3>1. k + 1 > n \/ (k + 1 \in 1..n /\ ~(k + 1 > n))
      BY <1>1
    <3>2. k + 1 \in 1..n => splices[k + 1].os \in Nat
      BY DEF Normal, SpliceOK
    <3> QED
      BY <1>13, <3>1, <3>2 DEF OldStart
  <2>2. ASSUME NEW j \in 1..os PROVE j \in 1..OldStart(splices, k + 1, base)
    BY <1>11, <1>26, <2>1
  <2> QED
    BY <1>24, <2>2 DEF HalfApplied
<1>28. ASSUME NEW g \in (k - 1)..n PROVE Spread(base, splices, k - 1, r, g)
  <2>1. CASE g = k - 1
    <3>1. OldStart(splices, g + 1, base) = os /\ OldEnd(splices, g) = O /\ NewEnd(splices, g) = M
      BY <1>2, <1>3, <1>4, <1>6, <1>7, <2>1
    <3>2. (M - (M - O)) + (os - O) <= Len(r) /\ M >= M
      BY <1>11, <1>20, <1>24
    <3>3. ASSUME NEW j \in 1..(os - O) PROVE r[(M - (M - O)) + j] = base[O + j]
      <4>1. O + j \in 1..os /\ (M - (M - O)) + j = O + j
        BY <1>11
      <4>2. r[O + j] = base[O + j]
        BY <1>27, <4>1, Zenon
      <4> QED
        BY <4>1, <4>2, Zenon
    <3> QED
      BY <1>3, <1>4, <3>1, <3>2, <3>3, Zenon DEF Spread
  <2>2. CASE g # k - 1
    <3>1. g \in k..n /\ g \in 0..n
      BY <1>1, <2>2
    <3>2. PICK E \in Nat : E = NewEnd(splices, g)
      BY <1>1, <3>1
    <3>3. PICK G \in Nat : G = OldEnd(splices, g)
      BY <1>1, <3>1
    <3>4. OldStart(splices, g + 1, base) \in Nat
      <4>1. g + 1 > n \/ (g + 1 \in 1..n /\ ~(g + 1 > n))
        BY <1>1, <3>1
      <4>2. g + 1 \in 1..n => splices[g + 1].os \in Nat
        BY DEF Normal, SpliceOK
      <4> QED
        BY <1>13, <4>1, <4>2 DEF OldStart
    <3>5. PICK gap \in Int : gap = OldStart(splices, g + 1, base) - G
      BY <3>4
    <3>6. Spread(base, splices, k, text, g)
      BY <3>1 DEF HalfApplied
    <3>7. /\ E >= ns + l
          /\ (E - ((ns + l) - oe)) + gap <= Len(text)
          /\ \A j \in 1..gap : text[(E - ((ns + l) - oe)) + j] = base[G + j]
      BY <1>6, <1>8, <1>12, <3>2, <3>3, <3>5, <3>6, Zenon DEF Spread
    <3>8. /\ (E - (ns - os)) + gap <= Len(r)
          /\ \A j \in 1..gap : r[(E - (ns - os)) + j] = text[(E - ((ns + l) - oe)) + j]
      <4>1. Fits(text, ins, os, oe, ns, E, gap)
        BY <1>10, <1>11, <1>14, <1>20, <3>7, Zenon DEF Fits
      <4>2. Moves(text, ins, r, os, oe, ns, E, gap)
        BY <1>21, <1>23, <4>1, Moving
      <4> QED
        BY <1>10, <4>2, Zenon DEF Moves
    <3>9. ns - os = M - O /\ E >= M
      <4>1. O <= os /\ ns - M = os - O /\ E >= ns + l
        BY <1>11, <3>7
      <4> QED
        BY <4>1
    <3>10. /\ (E - (M - O)) + gap <= Len(r)
           /\ \A j \in 1..gap : r[(E - (M - O)) + j] = base[G + j]
      BY <3>7, <3>8, <3>9, Zenon
    <3> QED
      BY <1>3, <1>4, <3>2, <3>3, <3>5, <3>9, <3>10, Zenon DEF Spread
  <2> QED
    BY <2>1, <2>2
<1>29. \A j \in 1..OldStart(splices, (k - 1) + 1, base) : r[j] = base[j]
  BY <1>2, <1>6, <1>7, <1>27, Zenon
<1> QED
  BY <1>24, <1>25, <1>28, <1>29, Zenon DEF HalfApplied, r, s

\* Splices in order, each in the old text, with the same text between them on
\* both sides.
Laid(old, new, splices) ==
  /\ IsSeq(splices)
  /\ \A k \in 1..Len(splices) :
       /\ splices[k].os \in Nat /\ splices[k].oe \in Nat /\ splices[k].ne \in Nat
       /\ OldEnd(splices, k - 1) <= splices[k].os /\ splices[k].os <= splices[k].oe
       /\ splices[k].oe <= Len(old)
  /\ \A g \in 0..Len(splices) :
       NewEnd(splices, g) + (OldStart(splices, g + 1, old) - OldEnd(splices, g)) <= Len(new)
  /\ Delta(old, new, splices)

\* Applying the splices changes exactly what lies in their ranges.
LEMMA Applying ==
  ASSUME NEW base, IsSeq(base), NEW splices, Normal(base, splices)
  PROVE  IsSeq(ApplySplices(base, splices)) /\ Laid(base, ApplySplices(base, splices), splices)
<1> DEFINE es == Reverse(splices)
           N == Len(splices)
           P(n) == Application!States(base, es)[n]
           S == {n \in Nat : n <= N => HalfApplied(base, splices, N - n, P(n))}
           new == ApplySplices(base, splices)
<1>1. N \in Nat /\ \A g \in 0..N : OldEnd(splices, g) \in Nat /\ NewEnd(splices, g) \in Nat
  BY NormalEnds
<1>2. IsSeq(es) /\ Len(es) = N /\ \A n \in 1..N : es[n] = splices[(N - n) + 1]
  <2>1. es = [i \in 1..N |-> splices[(N - i) + 1]]
    BY Zenon DEF Reverse
  <2> HIDE DEF es
  <2>2. DOMAIN es = 1..N /\ es = [i \in 1..N |-> es[i]]
    BY <2>1
  <2>3. IsSeq(es) /\ Len(es) = N
    BY <1>1, <2>2, SeqOfFunction
  <2> QED
    BY <2>1, <2>3
<1>3. PICK b \in Nat : b = Len(base)
  BY SeqParts
<1> HIDE DEF es
<1>4. P(0) = base /\ \A n \in 1..N : P(n) = ApplySplice(P(n - 1), es[n])
  <2>1. Len(es) \in Nat /\ Len(es) = N
    BY <1>1, <1>2
  <2> HIDE DEF N
  <2> QED
    BY <2>1, Application!Iterates
<1> HIDE DEF P
<1>5. 0 \in S
  <2>1. PICK OE \in Nat : OE = OldEnd(splices, N)
    BY <1>1
  <2>2. PICK NE \in Nat : NE = NewEnd(splices, N)
    BY <1>1
  <2>3. OldStart(splices, N + 1, base) = b
    <3>1. N + 1 > N
      BY <1>1
    <3> QED
      BY <1>3, <3>1 DEF OldStart
  <2>4. Len(base) = Len(base) + (NewEnd(splices, N) - OldEnd(splices, N))
                      - (NewEnd(splices, N) - OldEnd(splices, N))
    <3>1. b = b + (NE - OE) - (NE - OE)
      OBVIOUS
    <3> QED
      BY <1>3, <2>1, <2>2, <3>1, Zenon
  <2>5. Spread(base, splices, N, base, N)
    <3>1. NE >= NE /\ (NE - (NE - OE)) + (b - OE) <= b
      OBVIOUS
    <3>2. ASSUME NEW j \in 1..(b - OE) PROVE base[(NE - (NE - OE)) + j] = base[OE + j]
      <4>1. (NE - (NE - OE)) + j = OE + j
        OBVIOUS
      <4> QED
        BY <4>1, Zenon
    <3> QED
      BY <1>3, <2>1, <2>2, <2>3, <3>1, <3>2, Zenon DEF Spread
  <2>6. \A g \in N..N : g = N
    BY <1>1
  <2>7. HalfApplied(base, splices, N, base)
    BY <2>4, <2>5, <2>6, Zenon DEF HalfApplied
  <2>8. N - 0 = N
    BY <1>1
  <2> QED
    BY <1>4, <2>7, <2>8
<1>6. ASSUME NEW n \in Nat, n \in S PROVE n + 1 \in S
  <2> SUFFICES ASSUME n + 1 <= N PROVE HalfApplied(base, splices, N - (n + 1), P(n + 1))
    OBVIOUS
  <2> DEFINE m == n + 1
             k == N - n
  <2>1. /\ m \in 1..N /\ m - 1 = n /\ n <= N /\ k \in 1..N
        /\ (N - m) + 1 = k /\ k - 1 = N - m
    BY <1>1
  <2>2. HalfApplied(base, splices, k, P(n))
    BY <1>6, <2>1
  <2> HIDE DEF m, k
  <2>3. P(m) = ApplySplice(P(m - 1), es[m])
    BY <1>4, <2>1, Zenon
  <2>4. P(m) = ApplySplice(P(n), splices[k])
    BY <1>2, <2>1, <2>3, Zenon
  <2>5. HalfApplied(base, splices, k - 1, ApplySplice(P(n), splices[k]))
    BY <2>1, <2>2, ApplyStep
  <2>6. HalfApplied(base, splices, N - m, P(m))
    BY <2>1, <2>4, <2>5, Zenon
  <2> QED
    BY <2>6, Zenon DEF m
<1>7. \A n \in Nat : n \in S
  <2> HIDE DEF S
  <2> QED
    BY <1>5, <1>6, Refs!SetInduction
<1>8. HalfApplied(base, splices, 0, P(N))
  <2>1. N - N = 0 /\ N <= N
    BY <1>1
  <2> QED
    BY <1>1, <1>7, <2>1
<1>9. new = P(N)
  BY <1>2, Zenon DEF P, es, ApplySplices, Application!After
<1> HIDE DEF new
<1>10. HalfApplied(base, splices, 0, new)
  BY <1>8, <1>9
<1>11. OldEnd(splices, 0) = 0 /\ NewEnd(splices, 0) = 0
  BY DEF OldEnd, NewEnd
<1>12. ASSUME NEW g \in 0..N
       PROVE  /\ NewStart(splices, g + 1, new) - NewEnd(splices, g)
                   = OldStart(splices, g + 1, base) - OldEnd(splices, g)
              /\ \A j \in 1..(OldStart(splices, g + 1, base) - OldEnd(splices, g)) :
                   new[NewEnd(splices, g) + j] = base[OldEnd(splices, g) + j]
              /\ NewEnd(splices, g) + (OldStart(splices, g + 1, base) - OldEnd(splices, g)) <= Len(new)
  <2>1. PICK E \in Nat : E = NewEnd(splices, g)
    BY <1>1
  <2>2. PICK G \in Nat : G = OldEnd(splices, g)
    BY <1>1
  <2>3. /\ \A j \in 1..(OldStart(splices, g + 1, base) - OldEnd(splices, g)) :
             new[NewEnd(splices, g) + j] = base[OldEnd(splices, g) + j]
        /\ NewEnd(splices, g) + (OldStart(splices, g + 1, base) - OldEnd(splices, g)) <= Len(new)
    <3>1. Spread(base, splices, 0, new, g)
      BY <1>10 DEF HalfApplied
    <3>2. E - (0 - 0) = E
      OBVIOUS
    <3>3. NewEnd(splices, g) - (NewEnd(splices, 0) - OldEnd(splices, 0)) = NewEnd(splices, g)
      BY <1>11, <2>1, <3>2, Zenon
    <3> QED
      BY <3>1, <3>3, Zenon DEF Spread
  <2>4. NewStart(splices, g + 1, new) - NewEnd(splices, g)
          = OldStart(splices, g + 1, base) - OldEnd(splices, g)
    <3>1. CASE g = N
      <4>1. g + 1 > N
        BY <1>1, <3>1
      <4>2. NewStart(splices, g + 1, new) = Len(new) /\ OldStart(splices, g + 1, base) = b
        BY <1>3, <4>1 DEF NewStart, OldStart
      <4>3. Len(new) = b + (E - G) - (0 - 0)
        BY <1>3, <1>10, <1>11, <2>1, <2>2, <3>1, Zenon DEF HalfApplied
      <4>4. (b + (E - G) - (0 - 0)) - E = b - G
        OBVIOUS
      <4> QED
        BY <2>1, <2>2, <4>2, <4>3, <4>4, Zenon
    <3>2. CASE g # N
      <4> DEFINE h == g + 1
      <4>1. h \in 1..N /\ ~(h > N) /\ h - 1 = g
        BY <1>1, <3>2
      <4> HIDE DEF h
      <4>2. SpliceOK(base, splices[h], OldEnd(splices, h - 1), NewEnd(splices, h - 1))
        BY <4>1 DEF Normal
      <4>3. NewStart(splices, h, new) = splices[h].ns /\ OldStart(splices, h, base) = splices[h].os
        BY <4>1 DEF NewStart, OldStart
      <4>4. splices[h].ns - NewEnd(splices, g) = splices[h].os - OldEnd(splices, g)
        BY <4>1, <4>2, Zenon DEF SpliceOK
      <4> QED
        BY <4>3, <4>4, Zenon DEF h
    <3> QED
      BY <3>1, <3>2
  <2> QED
    BY <2>3, <2>4
<1>13. Delta(base, new, splices)
  BY <1>12, Zenon DEF Delta
<1>14. IsSeq(new)
  BY <1>10 DEF HalfApplied
<1>15. ASSUME NEW k \in 1..N
       PROVE  /\ splices[k].os \in Nat /\ splices[k].oe \in Nat /\ splices[k].ne \in Nat
              /\ OldEnd(splices, k - 1) <= splices[k].os /\ splices[k].os <= splices[k].oe
              /\ splices[k].oe <= Len(base)
  BY DEF Normal, SpliceOK
<1>16. IsSeq(splices)
  BY DEF Normal
<1> QED
  BY <1>12, <1>13, <1>14, <1>15, <1>16, Zenon DEF new, Laid

\* A batch that is not rejected gives the splices of the step between the texts.
LEMMA Editing ==
  ASSUME NEW base, IsSeq(base), NEW edits, edits \in Seq(EditOp), NormalizeEdits(base, edits).ok
  PROVE  LET splices == NormalizeEdits(base, edits).splices
             new == ApplySplices(base, splices)
         IN IsSeq(new) /\ Laid(base, new, splices)
<1> DEFINE repls == Replacements(edits)
           splices == NormalizeEdits(base, edits).splices
<1>1. /\ \A k \in DOMAIN edits : InBounds(base, edits[k])
      /\ ~Overlap(repls) /\ splices = Splices(base, repls)
  BY DEF NormalizeEdits
<1>2. ReplsOK(base, repls)
  BY <1>1, SeqParts, Joining
<1> HIDE DEF repls
<1>3. Normal(base, splices)
  BY <1>1, <1>2, Adding
<1> HIDE DEF splices
<1>4. IsSeq(ApplySplices(base, splices)) /\ Laid(base, ApplySplices(base, splices), splices)
  BY <1>3, Applying
<1> QED
  BY <1>4, Zenon DEF splices

\* Replacing the whole text.
LEMMA WholeLaid ==
  ASSUME NEW old, NEW new, IsSeq(old), IsSeq(new), NEW m, m = Len(old)
  PROVE  Laid(old, new, <<[os |-> 0, oe |-> m, ns |-> 0, ne |-> Len(new)]>>)
<1> DEFINE s == [os |-> 0, oe |-> m, ns |-> 0, ne |-> Len(new)]
           splices == <<s>>
<1>1. m \in Nat /\ Len(new) \in Nat
  BY SeqParts
<1>2. s.os = 0 /\ s.oe = m /\ s.ne = Len(new)
  OBVIOUS
<1>3. Delta(old, new, splices)
  BY WholeDelta
<1> HIDE DEF s
<1>4. splices \in Seq({s}) /\ Len(splices) = 1 /\ splices[1] = s
  OBVIOUS
<1>5. IsSeq(splices)
  BY <1>4, SeqOver
<1> HIDE DEF splices
<1>6. ASSUME NEW k \in 1..Len(splices)
      PROVE  /\ splices[k].os \in Nat /\ splices[k].oe \in Nat /\ splices[k].ne \in Nat
             /\ OldEnd(splices, k - 1) <= splices[k].os /\ splices[k].os <= splices[k].oe
             /\ splices[k].oe <= Len(old)
  <2>1. k = 1 /\ splices[k] = s /\ OldEnd(splices, k - 1) = 0
    BY <1>4 DEF OldEnd
  <2> QED
    BY <1>1, <1>2, <2>1
<1>7. ASSUME NEW g \in 0..Len(splices)
      PROVE  NewEnd(splices, g) + (OldStart(splices, g + 1, old) - OldEnd(splices, g)) <= Len(new)
  <2>1. CASE g = 0
    <3>1. NewEnd(splices, g) = 0 /\ OldStart(splices, g + 1, old) = 0 /\ OldEnd(splices, g) = 0
      BY <1>2, <1>4, <2>1 DEF NewEnd, OldStart, OldEnd
    <3> QED
      BY <1>1, <3>1
  <2>2. CASE g # 0
    <3>1. g = 1 /\ g + 1 > Len(splices)
      BY <1>4, <2>2
    <3>2. NewEnd(splices, g) = Len(new) /\ OldStart(splices, g + 1, old) = m /\ OldEnd(splices, g) = m
      BY <1>2, <1>4, <3>1 DEF NewEnd, OldStart, OldEnd
    <3> QED
      BY <1>1, <3>2
  <2> QED
    BY <2>1, <2>2
<1> QED
  BY <1>3, <1>5, <1>6, <1>7, Zenon DEF Laid, splices, s

-----------------------------------------------------------------------------
(* The coordinate map of a revision. *)

\* The text between the splices k - 1 and k.
Gap(old, splices, k) ==
  [old |-> OldEnd(splices, k - 1), new |-> NewEnd(splices, k - 1),
   len |-> OldStart(splices, k, old) - OldEnd(splices, k - 1)]

\* The gaps follow each other.
LEMMA GapOrder ==
  ASSUME NEW old, IsSeq(old), NEW new, NEW splices, Laid(old, new, splices)
  PROVE  /\ Len(old) \in Nat /\ Len(splices) \in Nat
         /\ \A k \in 1..(Len(splices) + 1) :
              /\ OldEnd(splices, k - 1) \in Nat /\ OldStart(splices, k, old) \in Nat
              /\ NewEnd(splices, k - 1) \in Nat
              /\ OldEnd(splices, k - 1) <= OldStart(splices, k, old)
         /\ \A k \in 1..Len(splices) : OldStart(splices, k, old) <= OldEnd(splices, k)
<1>1. Len(old) \in Nat /\ Len(splices) \in Nat
  BY SeqParts DEF Laid
<1>2. \A k \in 1..Len(splices) :
       /\ splices[k].os \in Nat /\ splices[k].oe \in Nat /\ splices[k].ne \in Nat
       /\ OldEnd(splices, k - 1) <= splices[k].os /\ splices[k].os <= splices[k].oe
       /\ splices[k].oe <= Len(old)
  BY DEF Laid
<1>3. ASSUME NEW k \in 1..(Len(splices) + 1)
      PROVE  /\ OldEnd(splices, k - 1) \in Nat /\ OldEnd(splices, k - 1) <= Len(old)
             /\ NewEnd(splices, k - 1) \in Nat
  <2>1. CASE k = 1
    BY <1>1, <2>1 DEF OldEnd, NewEnd
  <2>2. CASE k # 1
    <3>1. k - 1 \in 1..Len(splices) /\ k - 1 # 0
      BY <1>1, <2>2
    <3> QED
      BY <1>2, <3>1 DEF OldEnd, NewEnd
  <2> QED
    BY <2>1, <2>2
<1>4. ASSUME NEW k \in 1..(Len(splices) + 1)
      PROVE  /\ OldStart(splices, k, old) \in Nat
             /\ OldEnd(splices, k - 1) <= OldStart(splices, k, old)
  <2>1. CASE k > Len(splices)
    BY <1>1, <1>3, <2>1 DEF OldStart
  <2>2. CASE ~(k > Len(splices))
    <3>1. k \in 1..Len(splices)
      BY <1>1, <2>2
    <3> QED
      BY <1>2, <2>2, <3>1 DEF OldStart
  <2> QED
    BY <2>1, <2>2
<1>5. ASSUME NEW k \in 1..Len(splices) PROVE OldStart(splices, k, old) <= OldEnd(splices, k)
  <2>1. k # 0 /\ ~(k > Len(splices))
    BY <1>1
  <2> QED
    BY <1>2, <2>1 DEF OldStart, OldEnd
<1> QED
  BY <1>1, <1>3, <1>4, <1>5

\* The gaps that are not empty among the first m, in order.
Picks(islands, old, splices, m) ==
  /\ IsSeq(islands)
  /\ \A i \in 1..Len(islands) : \E k \in 1..m :
       islands[i] = Gap(old, splices, k) /\ Gap(old, splices, k).len > 0
  /\ \A k \in 1..m : Gap(old, splices, k).len > 0 =>
       \E i \in 1..Len(islands) : islands[i] = Gap(old, splices, k)
  /\ \A i \in 1..Len(islands) : islands[i].old + islands[i].len <= OldStart(splices, m, old)
  /\ \A i, j \in 1..Len(islands) : i < j => islands[i].old + islands[i].len <= islands[j].old

\* One more gap.
LEMMA PickStep ==
  ASSUME NEW old, IsSeq(old), NEW new, NEW splices, Laid(old, new, splices),
         NEW m \in 0..Len(splices), NEW islands, Picks(islands, old, splices, m)
  PROVE  Picks(AddIsland(islands, Gap(old, splices, m + 1)), old, splices, m + 1)
<1> DEFINE gap == Gap(old, splices, m + 1)
           r == AddIsland(islands, gap)
           a == OldEnd(splices, m)
           b == OldStart(splices, m + 1, old)
<1>1. m \in Nat /\ m + 1 \in 1..(Len(splices) + 1) /\ (m + 1) - 1 = m
  BY GapOrder
<1>2. gap.old = a /\ gap.len = b - a
  BY <1>1 DEF Gap
<1>3. a \in Nat /\ b \in Nat /\ a <= b
  BY <1>1, GapOrder
<1>4. ASSUME NEW i \in 1..Len(islands) PROVE islands[i].old + islands[i].len <= a
  <2>1. \E k \in 1..m : islands[i] = Gap(old, splices, k)
    BY DEF Picks
  <2>2. m \in 1..Len(splices)
    BY <1>1, <2>1
  <2>3. OldStart(splices, m, old) <= a
    BY <2>2, GapOrder
  <2>4. islands[i].old + islands[i].len <= OldStart(splices, m, old)
    BY DEF Picks
  <2>5. islands[i].old \in Int /\ islands[i].len \in Int /\ OldStart(splices, m, old) \in Int
    <3>1. PICK k \in 1..m : islands[i] = Gap(old, splices, k)
      BY <2>1
    <3>2. k \in 1..(Len(splices) + 1) /\ m \in 1..(Len(splices) + 1)
      BY <2>2, GapOrder
    <3>3. /\ islands[i].old = OldEnd(splices, k - 1)
          /\ islands[i].len = OldStart(splices, k, old) - OldEnd(splices, k - 1)
      BY <3>1 DEF Gap
    <3>4. OldEnd(splices, k - 1) \in Nat /\ OldStart(splices, k, old) \in Nat
      BY <3>2, GapOrder
    <3>5. OldStart(splices, m, old) \in Nat
      BY <3>2, GapOrder
    <3> QED
      BY <3>3, <3>4, <3>5
  <2> QED
    BY <1>3, <2>3, <2>4, <2>5
<1>5. \A i \in 1..Len(islands) : islands[i].old + islands[i].len \in Int
  <2> SUFFICES ASSUME NEW i \in 1..Len(islands) PROVE islands[i].old + islands[i].len \in Int
    OBVIOUS
  <2>1. PICK k \in 1..m : islands[i] = Gap(old, splices, k)
    BY DEF Picks
  <2>2. k \in 1..(Len(splices) + 1)
    BY <1>1, GapOrder
  <2>3. OldEnd(splices, k - 1) \in Nat /\ OldStart(splices, k, old) \in Nat
    BY <2>2, GapOrder
  <2> QED
    BY <2>1, <2>3 DEF Gap
<1>6. /\ IsSeq(islands)
      /\ \A i \in 1..Len(islands) : \E k \in 1..m :
           islands[i] = Gap(old, splices, k) /\ Gap(old, splices, k).len > 0
      /\ \A k \in 1..m : Gap(old, splices, k).len > 0 =>
           \E i \in 1..Len(islands) : islands[i] = Gap(old, splices, k)
      /\ \A i, j \in 1..Len(islands) : i < j => islands[i].old + islands[i].len <= islands[j].old
  BY DEF Picks
<1>7. \A k \in 1..(m + 1) : k \in 1..m \/ k = m + 1
  BY <1>1
<1>8. \A k \in 1..m : k \in 1..(m + 1)
  BY <1>1
<1> HIDE DEF a, b
<1>9. CASE ~(gap.len > 0)
  <2>1. r = islands
    BY <1>9 DEF AddIsland
  <2>2. \A i \in 1..Len(islands) : islands[i].old + islands[i].len <= b
    BY <1>3, <1>4, <1>5
  <2>3. \A k \in 1..(m + 1) : Gap(old, splices, k).len > 0 =>
           \E i \in 1..Len(islands) : islands[i] = Gap(old, splices, k)
    BY <1>6, <1>7, <1>9
  <2>4. \A i \in 1..Len(islands) : \E k \in 1..(m + 1) :
           islands[i] = Gap(old, splices, k) /\ Gap(old, splices, k).len > 0
    BY <1>6, <1>8
  <2>5. Picks(islands, old, splices, m + 1)
    BY <1>6, <2>2, <2>3, <2>4 DEF Picks, b
  <2> QED
    BY <2>1, <2>5
<1>10. CASE gap.len > 0
  <2>1. r = Append(islands, gap)
    BY <1>10 DEF AddIsland
  <2> HIDE DEF gap, r
  <2>2. /\ IsSeq(r) /\ Len(r) = Len(islands) + 1 /\ r[Len(islands) + 1] = gap
        /\ \A i \in 1..Len(islands) : r[i] = islands[i]
    BY <1>6, <2>1, SeqAppend
  <2>3. Len(islands) \in Nat
    BY <1>6, SeqParts
  <2>4. \A i \in 1..Len(r) : i \in 1..Len(islands) \/ i = Len(islands) + 1
    BY <2>2, <2>3
  <2>5. Len(islands) + 1 \in 1..Len(r) /\ \A i \in 1..Len(islands) : i \in 1..Len(r)
    BY <2>2, <2>3
  <2>6. \A i \in 1..Len(r) : \E k \in 1..(m + 1) :
          r[i] = Gap(old, splices, k) /\ Gap(old, splices, k).len > 0
    <3>1. m + 1 \in 1..(m + 1)
      BY <1>1
    <3> QED
      BY <1>6, <1>8, <1>10, <2>2, <2>4, <3>1 DEF gap
  <2>7. \A k \in 1..(m + 1) : Gap(old, splices, k).len > 0 =>
          \E i \in 1..Len(r) : r[i] = Gap(old, splices, k)
    BY <1>6, <1>7, <2>2, <2>5 DEF gap
  <2>8. \A i \in 1..Len(r) : r[i].old + r[i].len <= b
    <3>1. gap.old + gap.len <= b
      BY <1>2, <1>3
    <3>2. \A i \in 1..Len(islands) : islands[i].old + islands[i].len <= b
      BY <1>3, <1>4, <1>5
    <3> QED
      BY <2>2, <2>4, <3>1, <3>2
  <2>9. ASSUME NEW i \in 1..Len(r), NEW j \in 1..Len(r), i < j
        PROVE  r[i].old + r[i].len <= r[j].old
    <3>1. CASE j \in 1..Len(islands)
      <4>1. i \in 1..Len(islands)
        BY <2>3, <2>9, <3>1
      <4> QED
        BY <1>6, <2>2, <2>9, <3>1, <4>1
    <3>2. CASE j = Len(islands) + 1
      <4>1. i \in 1..Len(islands)
        BY <2>3, <2>9, <3>2
      <4> QED
        BY <1>2, <1>4, <2>2, <3>2, <4>1
    <3> QED
      BY <2>4, <3>1, <3>2
  <2>10. Picks(r, old, splices, m + 1)
    BY <2>2, <2>6, <2>7, <2>8, <2>9, Zenon DEF Picks, b
  <2> QED
    BY <2>10 DEF r, gap
<1> QED
  BY <1>9, <1>10

\* The islands of a revision are its gaps.
LEMMA Picking ==
  ASSUME NEW old, IsSeq(old), NEW new, NEW splices, Laid(old, new, splices)
  PROVE  Picks(Islands(Len(old), splices), old, splices, Len(splices) + 1)
<1> DEFINE n == Len(splices)
           gaps == [k \in 1..(n + 1) |-> Gap(old, splices, k)]
           P == Gaps!States(<<>>, gaps)
           S == {m \in Nat : m <= n + 1 => Picks(P[m], old, splices, m)}
<1>1. n \in Nat /\ Len(old) \in Nat
  BY GapOrder
<1>2. Len(gaps) = n + 1 /\ \A k \in 1..(n + 1) : gaps[k] = Gap(old, splices, k)
  BY <1>1, SeqOfFunction
<1>3. Islands(Len(old), splices) = P[n + 1]
  <2>1. ASSUME NEW k \in 1..(n + 1)
        PROVE  [old |-> IF k - 1 = 0 THEN 0 ELSE splices[k - 1].oe,
                new |-> IF k - 1 = 0 THEN 0 ELSE splices[k - 1].ne,
                len |-> (IF k - 1 = n THEN Len(old) ELSE splices[(k - 1) + 1].os)
                          - (IF k - 1 = 0 THEN 0 ELSE splices[k - 1].oe)] = Gap(old, splices, k)
    <3>1. (k - 1) + 1 = k /\ (k - 1 = n <=> k > n)
      BY <1>1
    <3>2. (IF k - 1 = n THEN Len(old) ELSE splices[(k - 1) + 1].os) = OldStart(splices, k, old)
      BY <3>1 DEF OldStart
    <3> QED
      BY <3>2 DEF Gap, OldEnd, NewEnd
  <2>2. Islands(Len(old), splices) = Gaps!After(<<>>, gaps)
    BY <2>1 DEF Islands
  <2> QED
    BY <1>2, <2>2 DEF Gaps!After
<1>4. P[0] = <<>> /\ \A m \in 1..(n + 1) : P[m] = AddIsland(P[m - 1], gaps[m])
  BY <1>1, <1>2, Gaps!Iterates
<1> HIDE DEF P, gaps, n
<1>5. 0 \in S
  <2>1. Picks(<<>>, old, splices, 0)
    BY SeqEmpty DEF Picks
  <2> QED
    BY <1>4, <2>1
<1>6. ASSUME NEW m \in Nat, m \in S PROVE m + 1 \in S
  <2> SUFFICES ASSUME m + 1 <= n + 1 PROVE Picks(P[m + 1], old, splices, m + 1)
    OBVIOUS
  <2>1. m + 1 \in 1..(n + 1) /\ (m + 1) - 1 = m /\ m \in 0..n /\ m <= n + 1
    BY <1>1
  <2>2. Picks(P[m], old, splices, m)
    BY <1>6, <2>1
  <2>3. P[m + 1] = AddIsland(P[m], Gap(old, splices, m + 1))
    BY <1>2, <1>4, <2>1
  <2>4. Picks(AddIsland(P[m], Gap(old, splices, m + 1)), old, splices, m + 1)
    BY <2>1, <2>2, PickStep DEF n
  <2> QED
    BY <2>3, <2>4
<1>7. \A m \in Nat : m \in S
  <2> HIDE DEF S
  <2> QED
    BY <1>5, <1>6, Gaps!SetInduction
<1>8. Picks(P[n + 1], old, splices, n + 1)
  BY <1>1, <1>7
<1> QED
  BY <1>3, <1>8 DEF n

\* An offset in an island is mapped by it, and one in none is not mapped.
LEMMA Mapping ==
  ASSUME NEW islands, IsSeq(islands), NEW at \in Nat,
         \A i \in 1..Len(islands) : islands[i].old \in Nat /\ islands[i].len \in Nat /\ islands[i].len > 0,
         \A i, j \in 1..Len(islands) : i < j => islands[i].old + islands[i].len <= islands[j].old
  PROVE  /\ \A i \in 1..Len(islands) :
              at \in islands[i].old..(islands[i].old + islands[i].len - 1) =>
                MapOldToNew(islands, at) = islands[i].new + at - islands[i].old
         /\ (\A i \in 1..Len(islands) :
              at \notin islands[i].old..(islands[i].old + islands[i].len - 1))
            => MapOldToNew(islands, at) = -1
<1>1. Len(islands) \in Nat /\ DOMAIN islands = 1..Len(islands)
  BY SeqParts
<1> DEFINE c == Cardinality({j \in DOMAIN islands : islands[j].old <= at})
           e == IF c > 0 THEN c ELSE 1
<1>2. MapOldToNew(islands, at) =
        IF e \in DOMAIN islands /\ at \in islands[e].old..(islands[e].old + islands[e].len - 1)
        THEN islands[e].new + at - islands[e].old
        ELSE -1
  BY Zenon DEF MapOldToNew
<1>3. ASSUME NEW i \in 1..Len(islands), at \in islands[i].old..(islands[i].old + islands[i].len - 1)
      PROVE  MapOldToNew(islands, at) = islands[i].new + at - islands[i].old
  <2>1. ASSUME NEW j \in 1..Len(islands) PROVE islands[j].old <= at <=> j \in 1..i
    <3>1. CASE j < i
      BY <1>3, <3>1
    <3>2. CASE j = i
      BY <1>3, <3>2
    <3>3. CASE i < j
      BY <1>3, <3>3
    <3> QED
      BY <3>1, <3>2, <3>3
  <2>2. {j \in DOMAIN islands : islands[j].old <= at} = 1..i
    <3>1. \A j \in 1..i : j \in 1..Len(islands)
      BY <1>1
    <3> QED
      BY <1>1, <2>1, <3>1
  <2>3. Cardinality(1..i) = i
    BY FS_Interval
  <2>4. c = i
    BY <2>2, <2>3
  <2> HIDE DEF c
  <2>5. e = i
    BY <2>4
  <2> HIDE DEF e
  <2> QED
    BY <1>1, <1>2, <1>3, <2>5
<1>4. ASSUME \A i \in 1..Len(islands) :
               at \notin islands[i].old..(islands[i].old + islands[i].len - 1)
      PROVE  MapOldToNew(islands, at) = -1
  <2> HIDE DEF e
  <2> QED
    BY <1>1, <1>2, <1>4, Zenon
<1> QED
  BY <1>3, <1>4

\* Every splice ends before the next gap starts.
LEMMA SpliceOrder ==
  ASSUME NEW old, IsSeq(old), NEW new, NEW splices, Laid(old, new, splices)
  PROVE  \A k \in 1..Len(splices) : \A j \in 1..k : splices[j].oe <= OldEnd(splices, k)
<1> DEFINE S == {k \in Nat : k <= Len(splices) => \A j \in 1..k : splices[j].oe <= OldEnd(splices, k)}
<1>1. Len(splices) \in Nat
  BY GapOrder
<1>2. 0 \in S
  OBVIOUS
<1>3. ASSUME NEW k \in Nat, k \in S PROVE k + 1 \in S
  <2> SUFFICES ASSUME k + 1 <= Len(splices), NEW j \in 1..(k + 1)
               PROVE  splices[j].oe <= OldEnd(splices, k + 1)
    OBVIOUS
  <2> DEFINE m == k + 1
  <2>1. m \in 1..Len(splices) /\ m - 1 = k /\ m # 0 /\ k <= Len(splices)
    BY <1>1
  <2>2. m \in 1..(Len(splices) + 1)
    BY <1>1, <2>1
  <2> HIDE DEF m
  <2>3. OldEnd(splices, m) = splices[m].oe
    BY <2>1, Zenon DEF OldEnd
  <2>4. OldEnd(splices, m - 1) <= splices[m].os /\ splices[m].os <= splices[m].oe
    BY <2>1 DEF Laid
  <2>5. OldEnd(splices, m - 1) \in Nat /\ splices[m].os \in Nat /\ splices[m].oe \in Nat
    BY <2>1, <2>2, GapOrder DEF Laid
  <2>6. CASE j = m
    BY <2>3, <2>5, <2>6 DEF m
  <2>7. CASE j # m
    <3>1. j \in 1..k /\ j \in 1..Len(splices)
      BY <2>1, <2>7 DEF m
    <3>2. splices[j].oe <= OldEnd(splices, m - 1)
      BY <1>3, <2>1, <3>1
    <3>3. splices[j].oe \in Nat
      BY <3>1 DEF Laid
    <3> QED
      BY <2>3, <2>4, <2>5, <3>2, <3>3 DEF m
  <2> QED
    BY <2>6, <2>7
<1>4. \A k \in Nat : k \in S
  <2> HIDE DEF S
  <2> QED
    BY <1>2, <1>3, Gaps!SetInduction
<1> QED
  BY <1>1, <1>4

\* An offset lies in a splice or in a gap, and not in both.
LEMMA SpliceOrGap ==
  ASSUME NEW old, IsSeq(old), NEW new, NEW splices, Laid(old, new, splices), NEW at \in 0..(Len(old) - 1)
  PROVE  (\E k \in 1..Len(splices) : at \in splices[k].os..(splices[k].oe - 1))
         <=> ~\E k \in 1..(Len(splices) + 1) :
                OldEnd(splices, k - 1) <= at /\ at < OldStart(splices, k, old)
<1> DEFINE n == Len(splices)
<1>1. n \in Nat /\ Len(old) \in Nat /\ at \in Nat /\ at < Len(old)
  BY GapOrder
<1>2. \A k \in 1..n : splices[k].os \in Nat /\ splices[k].oe \in Nat /\ splices[k].os <= splices[k].oe
  BY DEF Laid
<1>3. \A k \in 1..(n + 1) : OldEnd(splices, k - 1) \in Nat /\ OldStart(splices, k, old) \in Nat
  BY GapOrder
<1>4. \A k \in 1..n : OldStart(splices, k, old) = splices[k].os /\ OldEnd(splices, k) = splices[k].oe
  BY <1>1 DEF OldStart, OldEnd
<1>5. ASSUME NEW j \in 1..n, at \in splices[j].os..(splices[j].oe - 1),
             NEW k \in 1..(n + 1), OldEnd(splices, k - 1) <= at, at < OldStart(splices, k, old)
      PROVE  FALSE
  <2>1. CASE j < k
    <3>1. k - 1 \in 1..n /\ j \in 1..(k - 1)
      BY <1>1, <2>1
    <3>2. splices[j].oe <= OldEnd(splices, k - 1)
      BY <3>1, SpliceOrder
    <3> QED
      BY <1>1, <1>2, <1>3, <1>5, <3>2
  <2>2. CASE j = k
    BY <1>1, <1>2, <1>4, <1>5, <2>2
  <2>3. CASE k < j
    <3>1. k \in 1..n /\ k \in 1..(j - 1) /\ j - 1 \in 1..n
      BY <1>1, <2>3
    <3>2. splices[k].oe <= OldEnd(splices, j - 1)
      BY <3>1, SpliceOrder
    <3>3. OldEnd(splices, j - 1) <= splices[j].os
      BY DEF Laid
    <3>4. OldEnd(splices, j - 1) \in Nat
      BY <1>1, <1>3
    <3> QED
      <4>1. splices[j].os <= at
        BY <1>2, <1>5
      <4>2. at < splices[k].os
        BY <1>4, <1>5, <3>1
      <4>3. /\ splices[k].os \in Nat /\ splices[k].oe \in Nat /\ splices[k].os <= splices[k].oe
            /\ splices[j].os \in Nat
        BY <1>2, <3>1
      <4>4. at < splices[k].oe
        BY <1>1, <4>2, <4>3
      <4>5. at < OldEnd(splices, j - 1)
        BY <1>1, <3>2, <3>4, <4>3, <4>4
      <4>6. at < splices[j].os
        BY <1>1, <3>3, <3>4, <4>3, <4>5
      <4> QED
        BY <1>1, <4>1, <4>3, <4>6
  <2> QED
    BY <2>1, <2>2, <2>3
<1>6. ASSUME ~\E k \in 1..n : at \in splices[k].os..(splices[k].oe - 1)
      PROVE  \E k \in 1..(n + 1) : OldEnd(splices, k - 1) <= at /\ at < OldStart(splices, k, old)
  <2> DEFINE T == {k \in 1..(n + 1) : at < OldStart(splices, k, old)}
  <2>1. n + 1 \in T
    BY <1>1 DEF OldStart
  <2>2. T \in SUBSET Nat /\ T # {}
    BY <2>1
  <2>3. PICK k \in T : \A y \in T : ~(y < k)
    BY <2>2, Gaps!NatLeast, Zenon
  <2>4. OldEnd(splices, k - 1) <= at
    <3>1. CASE k = 1
      BY <1>1, <3>1 DEF OldEnd
    <3>2. CASE k # 1
      <4> DEFINE j == k - 1
      <4>1. j \in 1..n /\ j \in 1..(n + 1) /\ j < k
        BY <1>1, <3>2
      <4> HIDE DEF j
      <4>2. ~(at < OldStart(splices, j, old))
        BY <2>3, <4>1
      <4>3. splices[j].os <= at
        BY <1>1, <1>2, <1>4, <4>1, <4>2
      <4>4. splices[j].oe <= at
        BY <1>1, <1>2, <1>6, <4>1, <4>3
      <4> QED
        BY <1>4, <4>1, <4>4 DEF j
    <3> QED
      BY <3>1, <3>2
  <2> QED
    BY <2>3, <2>4
<1> QED
  BY <1>5, <1>6

\* Every offset outside the splices goes to the place of its character, and the
\* others nowhere.
LEMMA Coordinates ==
  ASSUME NEW old, IsSeq(old), NEW new, NEW splices, Laid(old, new, splices), NEW at \in 0..(Len(old) - 1)
  PROVE  IF \E k \in 1..Len(splices) : at \in splices[k].os..(splices[k].oe - 1)
         THEN MapOldToNew(Islands(Len(old), splices), at) = -1
         ELSE /\ MapOldToNew(Islands(Len(old), splices), at) \in 0..(Len(new) - 1)
              /\ new[MapOldToNew(Islands(Len(old), splices), at) + 1] = old[at + 1]
<1> DEFINE n == Len(splices)
           islands == Islands(Len(old), splices)
           to == MapOldToNew(islands, at)
<1>1. Picks(islands, old, splices, n + 1)
  BY Picking
<1>2. n \in Nat /\ Len(old) \in Nat /\ at \in Nat
  BY GapOrder
<1>3. \A k \in 1..(n + 1) : /\ OldEnd(splices, k - 1) \in Nat /\ OldStart(splices, k, old) \in Nat
                            /\ NewEnd(splices, k - 1) \in Nat
  BY GapOrder
<1> HIDE DEF islands
<1>4. ASSUME NEW i \in 1..Len(islands)
      PROVE  \E k \in 1..(n + 1) :
               /\ islands[i].old = OldEnd(splices, k - 1) /\ islands[i].len > 0
               /\ islands[i].len = OldStart(splices, k, old) - OldEnd(splices, k - 1)
  <2>1. PICK k \in 1..(n + 1) : islands[i] = Gap(old, splices, k) /\ Gap(old, splices, k).len > 0
    BY <1>1 DEF Picks
  <2> QED
    BY <2>1 DEF Gap
<1>5. ASSUME NEW i \in 1..Len(islands)
      PROVE  islands[i].old \in Nat /\ islands[i].len \in Nat /\ islands[i].len > 0
  <2>1. PICK k \in 1..(n + 1) :
          /\ islands[i].old = OldEnd(splices, k - 1) /\ islands[i].len > 0
          /\ islands[i].len = OldStart(splices, k, old) - OldEnd(splices, k - 1)
    BY <1>4
  <2>2. OldEnd(splices, k - 1) \in Nat /\ OldStart(splices, k, old) \in Nat
    BY <1>3
  <2> QED
    BY <2>1, <2>2
<1>6. IsSeq(islands) /\ \A i, j \in 1..Len(islands) : i < j => islands[i].old + islands[i].len <= islands[j].old
  BY <1>1 DEF Picks
<1>7. /\ \A i \in 1..Len(islands) :
           at \in islands[i].old..(islands[i].old + islands[i].len - 1) =>
             to = islands[i].new + at - islands[i].old
      /\ (\A i \in 1..Len(islands) :
           at \notin islands[i].old..(islands[i].old + islands[i].len - 1)) => to = -1
  BY <1>2, <1>5, <1>6, Mapping
<1> HIDE DEF to
<1>8. ASSUME \E k \in 1..n : at \in splices[k].os..(splices[k].oe - 1) PROVE to = -1
  <2>1. ~\E k \in 1..(n + 1) : OldEnd(splices, k - 1) <= at /\ at < OldStart(splices, k, old)
    BY <1>8, SpliceOrGap
  <2>2. ASSUME NEW i \in 1..Len(islands), at \in islands[i].old..(islands[i].old + islands[i].len - 1)
        PROVE  FALSE
    <3>1. PICK k \in 1..(n + 1) :
            /\ islands[i].old = OldEnd(splices, k - 1) /\ islands[i].len > 0
            /\ islands[i].len = OldStart(splices, k, old) - OldEnd(splices, k - 1)
      BY <1>4
    <3>2. OldEnd(splices, k - 1) \in Nat /\ OldStart(splices, k, old) \in Nat
      BY <1>3
    <3>3. OldEnd(splices, k - 1) <= at /\ at < OldStart(splices, k, old)
      BY <1>2, <2>2, <3>1, <3>2
    <3> QED
      BY <2>1, <3>3
  <2> QED
    BY <1>7, <2>2
<1>9. ASSUME ~\E k \in 1..n : at \in splices[k].os..(splices[k].oe - 1)
      PROVE  to \in 0..(Len(new) - 1) /\ new[to + 1] = old[at + 1]
  <2>1. PICK k \in 1..(n + 1) : OldEnd(splices, k - 1) <= at /\ at < OldStart(splices, k, old)
    BY <1>9, SpliceOrGap
  <2>2. Gap(old, splices, k).len > 0
    BY <1>2, <1>3, <2>1 DEF Gap
  <2>3. PICK i \in 1..Len(islands) : islands[i] = Gap(old, splices, k)
    BY <1>1, <2>2 DEF Picks
  <2> DEFINE a == OldEnd(splices, k - 1)
             b == OldStart(splices, k, old)
             c == NewEnd(splices, k - 1)
  <2>4. islands[i].old = a /\ islands[i].new = c /\ islands[i].len = b - a
    BY <2>3 DEF Gap
  <2>5. a \in Nat /\ b \in Nat /\ c \in Nat /\ a <= at /\ at < b
    BY <1>3, <2>1
  <2>6. /\ c + (b - a) <= Len(new)
        /\ \A j \in 1..(b - a) : new[c + j] = old[a + j]
    <3> DEFINE g == k - 1
    <3>1. g \in 0..n /\ g + 1 = k
      BY <1>2
    <3> HIDE DEF g
    <3>2. NewEnd(splices, g) + (OldStart(splices, g + 1, old) - OldEnd(splices, g)) <= Len(new)
      BY <3>1 DEF Laid
    <3>3. \A j \in 1..(OldStart(splices, g + 1, old) - OldEnd(splices, g)) :
            new[NewEnd(splices, g) + j] = old[OldEnd(splices, g) + j]
      BY <3>1 DEF Laid, Delta
    <3> QED
      BY <3>1, <3>2, <3>3, Zenon DEF g
  <2> HIDE DEF a, b, c
  <2>7. to = c + at - a
    <3>1. at \in islands[i].old..(islands[i].old + islands[i].len - 1)
      BY <1>2, <2>4, <2>5
    <3> QED
      BY <1>7, <2>4, <3>1
  <2>8. (at - a) + 1 \in 1..(b - a) /\ c + ((at - a) + 1) = to + 1 /\ a + ((at - a) + 1) = at + 1
    BY <1>2, <2>5, <2>7
  <2>9. new[to + 1] = old[at + 1]
    BY <2>6, <2>8
  <2>10. to \in 0..(Len(new) - 1)
    BY <1>2, <2>5, <2>6, <2>7
  <2> QED
    BY <2>9, <2>10
<1> QED
  BY <1>8, <1>9 DEF to, islands

\* What the coordinate map of a revision promises.
MapsExactly(old, new, splices) ==
  \A at \in 0..(Len(old) - 1) :
    IF \E k \in DOMAIN splices : at \in splices[k].os..(splices[k].oe - 1)
    THEN MapOldToNew(Islands(Len(old), splices), at) = -1
    ELSE /\ MapOldToNew(Islands(Len(old), splices), at) \in 0..(Len(new) - 1)
         /\ new[MapOldToNew(Islands(Len(old), splices), at) + 1] = old[at + 1]

\* It is exact for splices that are laid out between the texts.
LEMMA MappingExact ==
  ASSUME NEW old, IsSeq(old), NEW new, NEW splices, Laid(old, new, splices)
  PROVE  MapsExactly(old, new, splices)
<1> SUFFICES ASSUME NEW at \in 0..(Len(old) - 1)
             PROVE  IF \E k \in DOMAIN splices : at \in splices[k].os..(splices[k].oe - 1)
                    THEN MapOldToNew(Islands(Len(old), splices), at) = -1
                    ELSE /\ MapOldToNew(Islands(Len(old), splices), at) \in 0..(Len(new) - 1)
                         /\ new[MapOldToNew(Islands(Len(old), splices), at) + 1] = old[at + 1]
  BY DEF MapsExactly
<1>1. DOMAIN splices = 1..Len(splices)
  BY SeqParts DEF Laid
<1>2. IF \E k \in 1..Len(splices) : at \in splices[k].os..(splices[k].oe - 1)
      THEN MapOldToNew(Islands(Len(old), splices), at) = -1
      ELSE /\ MapOldToNew(Islands(Len(old), splices), at) \in 0..(Len(new) - 1)
           /\ new[MapOldToNew(Islands(Len(old), splices), at) + 1] = old[at + 1]
  BY Coordinates
<1> QED
  BY <1>1, <1>2, Zenon

-----------------------------------------------------------------------------
(* What replacements make of a text *)

\* The text up to the end of a replacement: what lies before it, and its text.
Weave(w, r) ==
  [base |-> w.base, out |-> (w.out \o SubSeq(w.base, w.at + 1, r.os)) \o r.text, at |-> r.oe]
Weaving == INSTANCE Iteration WITH Step <- Weave
Woven(base, repls) == Weaving!After([base |-> base, out |-> <<>>, at |-> 0], repls)

\* The text with all replacements made.
Whole(w) == w.out \o SubSeq(w.base, w.at + 1, Len(w.base))

\* Up to a place in the text.
WovenOK(base, w) == w.base = base /\ IsSeq(w.out) /\ w.at \in 0..Len(base)

\* Nothing is replaced at first.
LEMMA WovenNothing ==
  ASSUME NEW base
  PROVE  Woven(base, <<>>) = [base |-> base, out |-> <<>>, at |-> 0]
<1>1. Len(<<>>) = 0 /\ 0 \in Nat
  BY SeqEmpty
<1> DEFINE x == [base |-> base, out |-> <<>>, at |-> 0]
<1> HIDE DEF x
<1>2. Weaving!States(x, <<>>)[0] = x
  BY <1>1, Weaving!Iterates
<1> QED
  BY <1>1, <1>2 DEF Woven, Weaving!After, x

\* One replacement more.
LEMMA WovenAppend ==
  ASSUME NEW base, NEW repls, IsSeq(repls), NEW r
  PROVE  Woven(base, Append(repls, r)) = Weave(Woven(base, repls), r)
<1> DEFINE x == [base |-> base, out |-> <<>>, at |-> 0]
           q == Append(repls, r)
<1>1. /\ Len(repls) \in Nat /\ Len(q) = Len(repls) + 1 /\ q[Len(repls) + 1] = r
      /\ \A k \in 1..Len(repls) : q[k] = repls[k]
  BY SeqAppend, SeqParts
<1> HIDE DEF x, q
<1>2. Weaving!After(x, q) = Weave(Weaving!After(x, repls), r)
  BY <1>1, Weaving!Extends
<1> QED
  BY <1>2 DEF Woven, x, q

\* A sequence is its front and its last element.
LEMMA FrontLast ==
  ASSUME NEW s, IsSeq(s), s # <<>>
  PROVE  IsSeq(Front(s)) /\ s = Append(Front(s), Last(s))
<1> DEFINE n == Len(s)
           r == Append(Front(s), Last(s))
<1>1. Relasted(s, Last(s), r)
  BY Relasting
<1>2. n \in Nat /\ n >= 1 /\ IsSeq(r) /\ Len(r) = n /\ r[n] = Last(s) /\ \A k \in 1..(n - 1) : r[k] = s[k]
  BY <1>1 DEF Relasted
<1>3. Last(s) = s[n]
  BY DEF Last
<1> HIDE DEF r
<1>4. ASSUME NEW k \in 1..n PROVE r[k] = s[k]
  <2>1. CASE k = n
    BY <1>2, <1>3, <2>1
  <2>2. CASE k # n
    <3>1. k \in 1..(n - 1)
      BY <1>2, <2>2
    <3> QED
      BY <1>2, <3>1
  <2> QED
    BY <2>1, <2>2
<1>5. r = s
  BY <1>2, <1>4, SeqSame
<1>6. IsSeq(Front(s))
  <2> DEFINE m == n - 1
  <2>1. 0 \in 0..n /\ m \in 0..n /\ 0 + 1 = 1
    BY <1>2
  <2> HIDE DEF m, n
  <2>2. IsSeq(SubSeq(s, 0 + 1, m))
    BY <2>1, SeqSub DEF n
  <2> QED
    BY <2>1, <2>2 DEF m, n, Front
<1> QED
  BY <1>5, <1>6 DEF r

\* What a replacement adds is a part of the text and its own text.
LEMMA WeaveParts ==
  ASSUME NEW base, IsSeq(base), NEW w, WovenOK(base, w), NEW r, ReplOK(base, r), w.at <= r.os
  PROVE  /\ WovenOK(base, Weave(w, r)) /\ Weave(w, r).at = r.oe
         /\ Weave(w, r).out = (w.out \o SubSeq(base, w.at + 1, r.os)) \o r.text
         /\ IsSeq(SubSeq(base, w.at + 1, r.os))
<1>1. Len(base) \in Nat
  BY SeqParts
<1>2. w.base = base /\ IsSeq(w.out) /\ w.at \in 0..Len(base)
  BY DEF WovenOK
<1>3. r.os \in w.at..Len(base) /\ r.oe \in 0..Len(base) /\ IsSeq(r.text)
  BY <1>1, <1>2 DEF ReplOK
<1>4. IsSeq(SubSeq(base, w.at + 1, r.os))
  BY <1>2, <1>3, SeqSub
<1>5. IsSeq((w.out \o SubSeq(base, w.at + 1, r.os)) \o r.text)
  BY <1>2, <1>3, <1>4, SeqConcat
<1>6. /\ Weave(w, r).base = base /\ Weave(w, r).at = r.oe
      /\ Weave(w, r).out = (w.out \o SubSeq(base, w.at + 1, r.os)) \o r.text
  BY <1>2 DEF Weave
<1> QED
  BY <1>3, <1>4, <1>5, <1>6 DEF WovenOK

\* Where the n-th replacement ends.
EndOf(repls, n) == IF n = 0 THEN 0 ELSE repls[n].oe

\* Replacements that do not overlap start behind the one before.
LEMMA Chaining ==
  ASSUME NEW base, NEW repls, ReplsOK(base, repls), ~Overlap(repls), NEW n \in 1..Len(repls)
  PROVE  EndOf(repls, n - 1) \in Nat /\ EndOf(repls, n - 1) <= repls[n].os
<1>1. Len(repls) \in Nat
  BY SeqParts DEF ReplsOK
<1>2. repls[n].os \in Nat
  BY DEF ReplsOK, ReplOK
<1>3. CASE n = 1
  <2>1. n - 1 = 0
    BY <1>3
  <2> QED
    BY <1>2, <2>1 DEF EndOf
<1>4. CASE n # 1
  <2> DEFINE m == n - 1
  <2>1. m \in 1..(Len(repls) - 1) /\ m + 1 = n /\ m # 0 /\ m \in 1..Len(repls)
    BY <1>1, <1>4
  <2> HIDE DEF m
  <2>2. ~(repls[m].oe > repls[m + 1].os)
    BY <2>1 DEF Overlap
  <2>3. repls[m].oe \in Nat
    BY <2>1 DEF ReplsOK, ReplOK
  <2>4. repls[m].oe <= repls[n].os
    BY <1>2, <2>1, <2>2, <2>3
  <2>5. EndOf(repls, m) = repls[m].oe
    BY <2>1 DEF EndOf
  <2> QED
    BY <2>3, <2>4, <2>5 DEF m
<1> QED
  BY <1>3, <1>4

\* So they can be made one after the other.
LEMMA WovenChain ==
  ASSUME NEW base, IsSeq(base), NEW repls, ReplsOK(base, repls), ~Overlap(repls)
  PROVE  WovenOK(base, Woven(base, repls)) /\ Woven(base, repls).at = EndOf(repls, Len(repls))
<1> DEFINE x == [base |-> base, out |-> <<>>, at |-> 0]
           P(n) == Weaving!States(x, repls)[n]
           S == {n \in Nat : n <= Len(repls) => WovenOK(base, P(n)) /\ P(n).at = EndOf(repls, n)}
<1>1. Len(repls) \in Nat
  BY SeqParts DEF ReplsOK
<1>2. P(0) = x /\ \A n \in 1..Len(repls) : P(n) = Weave(P(n - 1), repls[n])
  BY <1>1, Weaving!Iterates
<1> HIDE DEF P
<1>3. 0 \in S
  <2>1. x.base = base /\ x.out = <<>> /\ x.at = 0 /\ Len(base) \in Nat
    BY SeqParts
  <2> HIDE DEF x
  <2>2. WovenOK(base, x) /\ x.at = EndOf(repls, 0)
    BY <2>1, SeqEmpty DEF WovenOK, EndOf
  <2> QED
    BY <1>2, <2>2
<1>4. ASSUME NEW n \in Nat, n \in S PROVE n + 1 \in S
  <2> SUFFICES ASSUME n + 1 <= Len(repls)
               PROVE  WovenOK(base, P(n + 1)) /\ P(n + 1).at = EndOf(repls, n + 1)
    OBVIOUS
  <2> DEFINE m == n + 1
  <2>1. m \in 1..Len(repls) /\ m - 1 = n /\ n <= Len(repls) /\ m # 0
    BY <1>1
  <2>2. WovenOK(base, P(n)) /\ P(n).at = EndOf(repls, n)
    BY <1>4, <2>1
  <2> HIDE DEF m
  <2>3. P(m) = Weave(P(n), repls[m])
    BY <1>2, <2>1
  <2>4. ReplOK(base, repls[m])
    BY <2>1 DEF ReplsOK
  <2>5. P(n).at <= repls[m].os
    BY <2>1, <2>2, Chaining
  <2>6. WovenOK(base, Weave(P(n), repls[m])) /\ Weave(P(n), repls[m]).at = repls[m].oe
    BY <2>2, <2>4, <2>5, WeaveParts
  <2>7. EndOf(repls, m) = repls[m].oe
    BY <2>1 DEF EndOf
  <2> QED
    BY <2>3, <2>6, <2>7 DEF m
<1>5. \A n \in Nat : n \in S
  <2> HIDE DEF S
  <2> QED
    BY <1>3, <1>4, Refs!SetInduction
<1>6. WovenOK(base, P(Len(repls))) /\ P(Len(repls)).at = EndOf(repls, Len(repls))
  BY <1>1, <1>5
<1> QED
  BY <1>6 DEF Woven, Weaving!After, P, x

\* The front of replacements that do not overlap.
LEMMA FrontChain ==
  ASSUME NEW base, NEW repls, ReplsOK(base, repls), ~Overlap(repls), repls # <<>>
  PROVE  /\ ReplsOK(base, Front(repls)) /\ ~Overlap(Front(repls))
         /\ Len(repls) \in Nat /\ Len(repls) >= 1 /\ Len(Front(repls)) = Len(repls) - 1
         /\ EndOf(Front(repls), Len(Front(repls))) = EndOf(repls, Len(repls) - 1)
         /\ Last(repls) = repls[Len(repls)]
<1> DEFINE n == Len(repls)
           f == Front(repls)
<1>1. IsSeq(repls)
  BY DEF ReplsOK
<1>2. IsSeq(f) /\ repls = Append(f, Last(repls))
  BY <1>1, FrontLast
<1>3. n = Len(f) + 1 /\ \A k \in 1..Len(f) : repls[k] = f[k]
  <2> HIDE DEF f
  <2>1. /\ Len(Append(f, Last(repls))) = Len(f) + 1
        /\ \A k \in 1..Len(f) : Append(f, Last(repls))[k] = f[k]
    BY <1>2, SeqAppend
  <2> QED
    BY <1>2, <2>1
<1>4. Len(f) \in Nat /\ n \in Nat
  BY <1>1, <1>2, SeqParts
<1> HIDE DEF f
<1>5. ReplsOK(base, f)
  <2>1. ASSUME NEW k \in 1..Len(f) PROVE ReplOK(base, f[k])
    <3>1. k \in 1..n
      BY <1>3, <1>4
    <3> QED
      BY <1>3, <3>1 DEF ReplsOK
  <2> QED
    BY <1>2, <2>1 DEF ReplsOK
<1>6. ~Overlap(f)
  <2>1. ASSUME NEW k \in 1..(Len(f) - 1) PROVE ~(f[k].oe > f[k + 1].os)
    <3>1. k \in 1..(n - 1) /\ k \in 1..Len(f) /\ k + 1 \in 1..Len(f)
      BY <1>3, <1>4
    <3>2. ~(repls[k].oe > repls[k + 1].os)
      BY <3>1 DEF Overlap
    <3> QED
      BY <1>3, <3>1, <3>2
  <2> QED
    BY <2>1 DEF Overlap
<1>7. EndOf(f, Len(f)) = EndOf(repls, n - 1)
  <2>1. n - 1 = Len(f)
    BY <1>3, <1>4
  <2>2. Len(f) # 0 => Len(f) \in 1..Len(f)
    BY <1>4
  <2> QED
    BY <1>3, <2>1, <2>2 DEF EndOf
<1> QED
  BY <1>3, <1>4, <1>5, <1>6, <1>7 DEF f, Last

\* What a join does to the last replacement.
LEMMA JoinParts ==
  ASSUME NEW repls, IsSeq(repls), NEW edit
  PROVE  \E r : /\ r.oe = edit.end /\ r.open = (edit.kind = "insert") /\ r.os = edit.start
                /\ \/ /\ repls # <<>> /\ Last(repls).open /\ Last(repls).os = edit.start
                      /\ r.text = Last(repls).text \o edit.text
                      /\ Join(repls, edit) = Append(Front(repls), r)
                   \/ /\ r.text = edit.text
                      /\ Join(repls, edit) = Append(repls, r)
<1>1. CASE repls # <<>> /\ Last(repls).open /\ Last(repls).os = edit.start
  <2> DEFINE r == [os |-> Last(repls).os, oe |-> edit.end, text |-> Last(repls).text \o edit.text,
                   open |-> edit.kind = "insert"]
  <2>1. Join(repls, edit) = Append(Front(repls), r)
    BY <1>1, Zenon DEF Join
  <2>2. r.os = edit.start /\ r.oe = edit.end /\ r.text = Last(repls).text \o edit.text
        /\ r.open = (edit.kind = "insert")
    BY <1>1, Zenon
  <2> HIDE DEF r
  <2> QED
    BY <1>1, <2>1, <2>2
<1>2. CASE ~(repls # <<>> /\ Last(repls).open /\ Last(repls).os = edit.start)
  <2> DEFINE r == [os |-> edit.start, oe |-> edit.end, text |-> edit.text,
                   open |-> edit.kind = "insert"]
  <2>1. Join(repls, edit) = Append(repls, r)
    BY <1>2, Zenon DEF Join
  <2>2. r.os = edit.start /\ r.oe = edit.end /\ r.text = edit.text /\ r.open = (edit.kind = "insert")
    BY Zenon
  <2> HIDE DEF r
  <2> QED
    BY <2>1, <2>2
<1> QED
  BY <1>1, <1>2

\* Joining an edit undoes no overlap.
LEMMA JoinOverlaps ==
  ASSUME NEW base, NEW repls, ReplsOK(base, repls), NEW edit, ~Overlap(Join(repls, edit))
  PROVE  ~Overlap(repls)
<1> DEFINE n == Len(repls)
           q == Join(repls, edit)
<1>1. IsSeq(repls) /\ n \in Nat
  BY SeqParts DEF ReplsOK
<1>2. PICK r : /\ r.oe = edit.end /\ r.open = (edit.kind = "insert") /\ r.os = edit.start
               /\ \/ /\ repls # <<>> /\ Last(repls).open /\ Last(repls).os = edit.start
                     /\ r.text = Last(repls).text \o edit.text
                     /\ q = Append(Front(repls), r)
                  \/ /\ r.text = edit.text
                     /\ q = Append(repls, r)
  BY <1>1, JoinParts
<1> HIDE DEF q
<1>3. /\ Len(q) \in Nat /\ Len(q) >= n
      /\ \A k \in 1..n : q[k].os = repls[k].os /\ (k < n => q[k] = repls[k])
  <2>1. CASE repls # <<>> /\ Last(repls).os = edit.start /\ q = Append(Front(repls), r)
    <3>1. Relasted(repls, r, q)
      BY <1>1, <2>1, Relasting
    <3>2. Len(q) = n /\ n >= 1 /\ q[n] = r /\ \A k \in 1..(n - 1) : q[k] = repls[k]
      BY <3>1 DEF Relasted
    <3>3. q[n].os = repls[n].os
      BY <1>2, <2>1, <3>2 DEF Last
    <3>4. \A k \in 1..n : k = n \/ k \in 1..(n - 1)
      BY <1>1
    <3> QED
      BY <1>1, <3>2, <3>3, <3>4
  <2>2. CASE q = Append(repls, r)
    <3>1. Len(q) = n + 1 /\ \A k \in 1..n : q[k] = repls[k]
      BY <1>1, <2>2, SeqAppend
    <3> QED
      BY <1>1, <3>1
  <2> QED
    BY <1>2, <2>1, <2>2
<1>4. ASSUME NEW k \in 1..(n - 1) PROVE ~(repls[k].oe > repls[k + 1].os)
  <2>1. k \in 1..n /\ k < n /\ k + 1 \in 1..n /\ k \in 1..(Len(q) - 1)
    BY <1>1, <1>3
  <2>2. ~(q[k].oe > q[k + 1].os)
    BY <2>1 DEF Overlap, q
  <2> QED
    BY <1>3, <2>1, <2>2
<1> QED
  BY <1>4 DEF Overlap

\* An edit as a replacement.
Edited(e) == [os |-> e.start, oe |-> e.end, text |-> e.text]

\* The replacements make of the text what the edits joined to them do.
Linked(base, repls, w) ==
  /\ ReplsOK(base, repls) /\ ~Overlap(repls) /\ w = Woven(base, repls)
  /\ repls # <<>> /\ Last(repls).open => Last(repls).os = Last(repls).oe

\* One edit more, which starts behind the others if there is no overlap.
LEMMA LinkStep ==
  ASSUME NEW base, IsSeq(base), NEW repls, NEW w, Linked(base, repls, w),
         NEW edit \in EditOp, InBounds(base, edit), ~Overlap(Join(repls, edit))
  PROVE  w.at <= edit.start /\ Linked(base, Join(repls, edit), Weave(w, Edited(edit)))
<1> DEFINE n == Len(repls)
           q == Join(repls, edit)
           v == Weave(w, Edited(edit))
<1>1. IsSeq(repls) /\ n \in Nat /\ Len(base) \in Nat
  BY SeqParts DEF Linked, ReplsOK
<1>2. ReplsOK(base, repls) /\ ~Overlap(repls) /\ w = Woven(base, repls)
  BY DEF Linked
<1>3. WovenOK(base, w) /\ w.at = EndOf(repls, n)
  BY <1>2, WovenChain
<1>4. ReplsOK(base, q)
  BY <1>1, <1>2, JoinStep
<1>5. PICK r : /\ r.oe = edit.end /\ r.open = (edit.kind = "insert") /\ r.os = edit.start
               /\ \/ /\ repls # <<>> /\ Last(repls).open /\ Last(repls).os = edit.start
                     /\ r.text = Last(repls).text \o edit.text
                     /\ q = Append(Front(repls), r)
                  \/ /\ r.text = edit.text
                     /\ q = Append(repls, r)
  BY <1>1, JoinParts
<1>6. /\ edit.start \in Nat /\ edit.end \in Nat /\ edit.start <= edit.end /\ edit.end <= Len(base)
      /\ IsSeq(edit.text) /\ (edit.kind = "insert" => edit.start = edit.end)
  BY EditParts DEF InBounds
<1>7. /\ Edited(edit).os = edit.start /\ Edited(edit).oe = edit.end /\ Edited(edit).text = edit.text
  BY DEF Edited
<1>8. ReplOK(base, Edited(edit))
  BY <1>6, <1>7 DEF ReplOK
<1>9. ~Overlap(q)
  OBVIOUS
<1> HIDE DEF q
<1>10. CASE /\ repls # <<>> /\ Last(repls).open /\ Last(repls).os = edit.start
            /\ r.text = Last(repls).text \o edit.text
            /\ q = Append(Front(repls), r)
  <2>20. PICK f : f = Front(repls)
    OBVIOUS
  <2>21. PICK l : l = Last(repls)
    OBVIOUS
  <2>22. PICK u : u = Woven(base, f)
    OBVIOUS
  <2>1. /\ ReplsOK(base, f) /\ ~Overlap(f) /\ n >= 1
        /\ EndOf(f, Len(f)) = EndOf(repls, n - 1) /\ l = repls[n]
    BY <1>2, <1>10, <2>20, <2>21, FrontChain
  <2>2. IsSeq(f) /\ repls = Append(f, l)
    BY <1>1, <1>10, <2>20, <2>21, FrontLast
  <2>3. w = Weave(u, l)
    BY <1>2, <2>2, <2>22, WovenAppend
  <2>4. Woven(base, q) = Weave(u, r)
    BY <1>10, <2>2, <2>20, <2>22, WovenAppend
  <2>5. WovenOK(base, u) /\ u.at = EndOf(repls, n - 1)
    BY <2>1, <2>22, WovenChain
  <2>6. n \in 1..n
    BY <1>1, <2>1
  <2>7. u.at <= l.os /\ ReplOK(base, l)
    BY <1>2, <2>1, <2>5, <2>6, Chaining DEF ReplsOK
  <2>8. l.os = edit.start /\ l.oe = edit.start
    BY <1>10, <2>21 DEF Linked
  <2>9. w.at = edit.start /\ w.out = (u.out \o SubSeq(base, u.at + 1, l.os)) \o l.text
        /\ IsSeq(SubSeq(base, u.at + 1, l.os))
    <3>1. /\ Weave(u, l).at = l.oe
          /\ Weave(u, l).out = (u.out \o SubSeq(base, u.at + 1, l.os)) \o l.text
          /\ IsSeq(SubSeq(base, u.at + 1, l.os))
      <4>1. IsSeq(base)
        OBVIOUS
      <4>2. WovenOK(base, u) /\ ReplOK(base, l) /\ u.at <= l.os
        BY <2>5, <2>7
      <4>3. Weave(u, l).at = l.oe
        BY <4>1, <4>2, WeaveParts
      <4>4. Weave(u, l).out = (u.out \o SubSeq(base, u.at + 1, l.os)) \o l.text
        <5>1. u.base = base
          BY <4>2 DEF WovenOK
        <5> QED
          BY <5>1 DEF Weave
      <4>5. IsSeq(SubSeq(base, u.at + 1, l.os))
        BY <4>1, <4>2, WeaveParts
      <4> QED
        BY <4>3, <4>4, <4>5
    <3> QED
      BY <2>3, <2>8, <3>1, Zenon
  <2>10. SubSeq(base, w.at + 1, edit.start) = <<>>
    <3>1. w.at \in 0..Len(base) /\ edit.start \in w.at..Len(base) /\ edit.start - w.at = 0
      BY <1>1, <1>6, <2>9
    <3>2. IsSeq(SubSeq(base, w.at + 1, edit.start)) /\ Len(SubSeq(base, w.at + 1, edit.start)) = 0
      BY <3>1, SeqSub
    <3> QED
      BY <3>2, SeqNothing
  <2>11. w.at <= edit.start
    BY <1>6, <2>9
  <2>12. v.base = base /\ v.at = edit.end /\ v.out = (w.out \o <<>>) \o edit.text
    BY <1>3, <1>7, <2>10 DEF Weave, WovenOK
  <2>13. v.out = (u.out \o SubSeq(base, u.at + 1, l.os)) \o (l.text \o edit.text)
    <3>5. PICK a : a = u.out \o SubSeq(base, u.at + 1, l.os)
      OBVIOUS
    <3>6. PICK b : b = l.text
      OBVIOUS
    <3>7. PICK c : c = edit.text
      OBVIOUS
    <3>1. IsSeq(a) /\ IsSeq(l.text) /\ IsSeq(w.out)
      BY <1>3, <2>5, <2>7, <2>9, <3>5, SeqConcat DEF WovenOK, ReplOK
    <3>2. w.out \o <<>> = w.out /\ w.out = a \o l.text
      BY <2>9, <3>1, <3>5, EmptyConcat
    <3>3. v.out = (a \o l.text) \o edit.text
      BY <2>12, <3>2, Zenon
    <3>4. (a \o l.text) \o edit.text = a \o (l.text \o edit.text)
      <4>1. IsSeq(a) /\ IsSeq(b) /\ IsSeq(c)
        BY <1>6, <3>1, <3>6, <3>7
      <4>2. Associates(a, b, c)
        BY <4>1, SeqAssoc
      <4> QED
        BY <3>6, <3>7, <4>2, Zenon DEF Associates
    <3> QED
      BY <3>3, <3>4, <3>5, Zenon
  <2>14. Weave(u, r) = [base |-> base, out |-> (u.out \o SubSeq(base, u.at + 1, l.os)) \o (l.text \o edit.text),
                        at |-> edit.end]
    BY <1>5, <1>10, <2>5, <2>8, <2>21 DEF Weave, WovenOK
  <2>15. v = [base |-> v.base, out |-> v.out, at |-> v.at]
    BY DEF Weave
  <2>16. v = Woven(base, q)
    <3> HIDE DEF v
    <3> QED
      BY <2>4, <2>12, <2>13, <2>14, <2>15, Zenon
  <2>17. q # <<>> /\ Last(q).open => Last(q).os = Last(q).oe
    <3>1. Relasted(repls, r, q)
      BY <1>1, <1>10, Relasting
    <3>2. Last(q) = r
      BY <3>1 DEF Relasted, Last
    <3> QED
      BY <1>5, <1>6, <3>2
  <2> HIDE DEF v
  <2>18. Linked(base, q, v)
    BY <1>4, <1>9, <2>16, <2>17 DEF Linked
  <2> QED
    BY <2>11, <2>18 DEF q, v
<1>11. CASE r.text = edit.text /\ q = Append(repls, r)
  <2>1. /\ IsSeq(q) /\ Len(q) = n + 1 /\ q[n + 1] = r
        /\ \A k \in 1..n : q[k] = repls[k]
    BY <1>1, <1>11, SeqAppend
  <2>2. w.at <= edit.start
    <3>1. EndOf(q, n) <= q[n + 1].os
      <4>1. n + 1 \in 1..Len(q) /\ (n + 1) - 1 = n
        BY <1>1, <2>1
      <4> HIDE DEF n
      <4> QED
        BY <1>4, <1>9, <4>1, Chaining
    <3>2. EndOf(q, n) = EndOf(repls, n)
      <4>1. n # 0 => n \in 1..n
        BY <1>1
      <4> QED
        BY <2>1, <4>1 DEF EndOf
    <3> QED
      BY <1>3, <1>5, <2>1, <3>1, <3>2
  <2>3. Woven(base, q) = Weave(w, r)
    BY <1>1, <1>2, <1>11, WovenAppend
  <2>4. Weave(w, r) = v
    BY <1>5, <1>7, <1>11 DEF Weave
  <2>5. q # <<>> /\ Last(q).open => Last(q).os = Last(q).oe
    <3>1. Last(q) = r
      BY <2>1 DEF Last
    <3> QED
      BY <1>5, <1>6, <3>1
  <2> HIDE DEF v
  <2>6. Linked(base, q, v)
    BY <1>4, <1>9, <2>3, <2>4, <2>5 DEF Linked
  <2> QED
    BY <2>2, <2>6 DEF q, v
<1> QED
  BY <1>5, <1>10, <1>11 DEF q

\* The sorted edits as replacements.
Spun(es) == [k \in 1..Len(es) |-> Edited(es[k])]

\* The text up to the end of the k-th of the sorted edits.
Spinning(base, es, k) == Weaving!States([base |-> base, out |-> <<>>, at |-> 0], Spun(es))[k]

\* If its replacements do not overlap, the edits of a batch can be made one after the
\* other, and make of the text what the replacements do.
LEMMA Linking ==
  ASSUME NEW base, IsSeq(base), NEW edits, edits \in Seq(EditOp),
         \A k \in DOMAIN edits : InBounds(base, edits[k]), ~Overlap(Replacements(edits)),
         NEW es, es = SortEdits(edits)
  PROVE  /\ Spinning(base, es, 0) = [base |-> base, out |-> <<>>, at |-> 0]
         /\ \A k \in 1..Len(es) :
              /\ Spinning(base, es, k) = Weave(Spinning(base, es, k - 1), Edited(es[k]))
              /\ Spinning(base, es, k - 1).at <= es[k].start
         /\ Spinning(base, es, Len(es)) = Woven(base, Replacements(edits))
<1> DEFINE x == [base |-> base, out |-> <<>>, at |-> 0]
           J(n) == Joins!States(<<>>, es)[n]
           P(n) == Weaving!States(x, Spun(es))[n]
           Before(n) == \A k \in 1..n : P(k - 1).at <= es[k].start
           S == {n \in Nat : n <= Len(es) /\ ~Overlap(J(n)) => Linked(base, J(n), P(n)) /\ Before(n)}
<1>1. IsSeq(es) /\ Len(es) = Len(edits) /\ Len(edits) \in Nat /\ DOMAIN edits = 1..Len(edits)
      /\ Len(base) \in Nat
  BY Sorting, SeqParts
<1>2. \A i \in 1..Len(es) : es[i] \in EditOp /\ InBounds(base, es[i])
  <2>1. ASSUME NEW i \in 1..Len(es) PROVE es[i] \in EditOp /\ InBounds(base, es[i])
    <3>1. PICK k \in 1..Len(edits) : es[i] = edits[k]
      BY <1>1, Sorting
    <3>2. edits[k] \in EditOp
      OBVIOUS
    <3> QED
      BY <1>1, <3>1, <3>2
  <2> QED
    BY <2>1
<1>3. J(0) = <<>> /\ \A n \in 1..Len(es) : J(n) = Join(J(n - 1), es[n])
  BY <1>1, Joins!Iterates
<1>4. Len(Spun(es)) = Len(es) /\ \A k \in 1..Len(es) : Spun(es)[k] = Edited(es[k])
  BY <1>1, SeqOfFunction DEF Spun
<1>5. P(0) = x /\ \A n \in 1..Len(es) : P(n) = Weave(P(n - 1), Edited(es[n]))
  BY <1>1, <1>4, Weaving!Iterates
<1> HIDE DEF J, P
<1>6. 0 \in S
  <2>1. ReplsOK(base, <<>>) /\ ~Overlap(<<>>)
    BY SeqEmpty DEF ReplsOK, Overlap
  <2>2. Linked(base, <<>>, x)
    BY <2>1, WovenNothing DEF Linked
  <2>3. Before(0)
    OBVIOUS
  <2> HIDE DEF x, Before
  <2> QED
    BY <1>3, <1>5, <2>2, <2>3
<1>7. ASSUME NEW n \in Nat, n + 1 <= Len(es)
      PROVE  ReplsOK(base, J(n))
  <2> DEFINE T == {k \in Nat : k <= Len(es) => ReplsOK(base, J(k))}
  <2>1. 0 \in T
    <3>1. ReplsOK(base, <<>>)
      BY SeqEmpty DEF ReplsOK
    <3> QED
      BY <1>3, <3>1
  <2>2. ASSUME NEW k \in Nat, k \in T PROVE k + 1 \in T
    <3> SUFFICES ASSUME k + 1 <= Len(es) PROVE ReplsOK(base, J(k + 1))
      OBVIOUS
    <3>1. k + 1 \in 1..Len(es) /\ (k + 1) - 1 = k /\ k <= Len(es)
      BY <1>1
    <3>2. ReplsOK(base, J(k)) /\ J(k + 1) = Join(J(k), es[k + 1])
      BY <1>3, <2>2, <3>1
    <3>3. es[k + 1] \in EditOp /\ InBounds(base, es[k + 1])
      BY <1>2, <3>1
    <3>4. ReplsOK(base, Join(J(k), es[k + 1]))
      BY <1>1, <3>2, <3>3, JoinStep
    <3> QED
      BY <3>2, <3>4, Zenon
  <2>3. \A k \in Nat : k \in T
    <3> HIDE DEF T
    <3> QED
      BY <2>1, <2>2, Refs!SetInduction
  <2> QED
    BY <1>1, <1>7, <2>3
<1>8. ASSUME NEW n \in Nat, n \in S PROVE n + 1 \in S
  <2> DEFINE m == n + 1
  <2> SUFFICES ASSUME m <= Len(es), ~Overlap(J(m))
               PROVE  Linked(base, J(m), P(m)) /\ Before(m)
    OBVIOUS
  <2>1. m \in 1..Len(es) /\ m - 1 = n /\ n <= Len(es)
    BY <1>1
  <2>2. J(m) = Join(J(n), es[m]) /\ P(m) = Weave(P(n), Edited(es[m]))
    <3> HIDE DEF m
    <3> QED
      BY <1>3, <1>5, <2>1
  <2>3. ReplsOK(base, J(n))
    BY <1>7
  <2> HIDE DEF m
  <2>4. ~Overlap(Join(J(n), es[m]))
    BY <2>2
  <2>5. ~Overlap(J(n))
    BY <2>3, <2>4, JoinOverlaps
  <2>6. Linked(base, J(n), P(n)) /\ Before(n)
    BY <1>8, <2>1, <2>5
  <2>7. es[m] \in EditOp /\ InBounds(base, es[m])
    BY <1>2, <2>1
  <2>8. P(n).at <= es[m].start /\ Linked(base, Join(J(n), es[m]), Weave(P(n), Edited(es[m])))
    BY <2>4, <2>6, <2>7, LinkStep
  <2>9. Before(m)
    <3>1. \A k \in 1..m : k = m \/ k \in 1..n
      BY <2>1
    <3> QED
      BY <2>1, <2>6, <2>8, <3>1
  <2> QED
    BY <2>2, <2>8, <2>9, Zenon
<1>9. \A n \in Nat : n \in S
  <2> HIDE DEF S
  <2> QED
    BY <1>6, <1>8, Refs!SetInduction
<1>10. J(Len(es)) = Replacements(edits)
  BY Zenon DEF J, Replacements, Joins!After
<1>11. Linked(base, J(Len(es)), P(Len(es))) /\ Before(Len(es))
  BY <1>1, <1>9, <1>10
<1>12. \A k : P(k) = Spinning(base, es, k)
  BY DEF P, x, Spinning
<1>13. P(Len(es)) = Woven(base, Replacements(edits))
  BY <1>10, <1>11 DEF Linked
<1> QED
  BY <1>5, <1>11, <1>12, <1>13

-----------------------------------------------------------------------------
(* Comparing a replacement with the text *)

\* As long as every byte starts a character, characters and bytes have the same numbers.
LEMMA OffsetsHere ==
  ASSUME NEW text, IsSeq(text), NEW m \in 0..Len(text),
         \A k \in 1..m : text[k] \notin Continuation
  PROVE  \A k \in 1..m : CharOffsets(text)[k] = k - 1
<1> DEFINE cs == [k \in DOMAIN text |-> [byte |-> text[k], at |-> k - 1]]
           n == Len(text)
           O(j) == Offsets!States(<<>>, cs)[j]
           Counts(s, j) == /\ IsSeq(s) /\ (j <= m => Len(s) = j) /\ (j >= m => Len(s) >= m)
                           /\ \A k \in 1..m : k <= j => s[k] = k - 1
           S == {j \in Nat : j <= n => Counts(O(j), j)}
<1>1. n \in Nat /\ m \in Nat /\ m <= n /\ DOMAIN text = 1..n
  BY SeqParts
<1>2. Len(cs) = n /\ \A k \in 1..n : cs[k].byte = text[k] /\ cs[k].at = k - 1
  BY <1>1, SeqOfFunction
<1> HIDE DEF cs
<1>3. O(0) = <<>> /\ \A j \in 1..n : O(j) = AddOffset(O(j - 1), cs[j])
  BY <1>1, <1>2, Offsets!Iterates
<1> HIDE DEF O
<1>4. 0 \in S
  <2>1. Counts(<<>>, 0)
    BY <1>1, SeqEmpty
  <2> HIDE DEF Counts
  <2> QED
    BY <1>3, <2>1
<1>5. ASSUME NEW j \in Nat, j \in S PROVE j + 1 \in S
  <2> SUFFICES ASSUME j + 1 <= n PROVE Counts(O(j + 1), j + 1)
    OBVIOUS
  <2>1. j + 1 \in 1..n /\ (j + 1) - 1 = j /\ j <= n
    BY <1>1
  <2>2. PICK s : s = O(j)
    OBVIOUS
  <2>3. Counts(s, j)
    <3> HIDE DEF Counts
    <3> QED
      BY <1>5, <2>1, <2>2
  <2>4. O(j + 1) = AddOffset(s, cs[j + 1])
    BY <1>3, <2>1, <2>2
  <2>5. Len(s) \in Nat
    BY <2>3, SeqParts
  <2>6. cs[j + 1].byte = text[j + 1] /\ cs[j + 1].at = j
    BY <1>2, <2>1
  <2>7. CASE text[j + 1] \in Continuation
    <3>1. ~(j + 1 <= m)
      BY <2>1, <2>7
    <3>2. O(j + 1) = s
      BY <2>4, <2>6, <2>7 DEF AddOffset
    <3>3. Len(s) >= m
      BY <1>1, <2>3, <3>1
    <3>4. Counts(s, j + 1)
      BY <1>1, <2>3, <3>1, <3>3
    <3> HIDE DEF Counts
    <3> QED
      BY <3>2, <3>4
  <2>8. CASE text[j + 1] \notin Continuation
    <3>1. PICK t : t = Append(s, j)
      OBVIOUS
    <3>2. O(j + 1) = t
      BY <2>4, <2>6, <2>8, <3>1 DEF AddOffset
    <3>3. IsSeq(t) /\ Len(t) = Len(s) + 1 /\ t[Len(s) + 1] = j /\ \A k \in 1..Len(s) : t[k] = s[k]
      BY <2>3, <3>1, SeqAppend
    <3>4. ASSUME NEW k \in 1..m, k <= j + 1 PROVE t[k] = k - 1
      <4>1. CASE k = j + 1
        <5>1. Len(s) = j
          BY <1>1, <2>3, <4>1
        <5> QED
          BY <3>3, <4>1, <5>1
      <4>2. CASE k # j + 1
        <5>1. k <= j /\ k \in 1..Len(s)
          BY <1>1, <2>3, <2>5, <3>4, <4>2
        <5> QED
          BY <2>3, <3>3, <5>1
      <4> QED
        BY <4>1, <4>2
    <3>5. (j + 1 <= m => Len(t) = j + 1) /\ (j + 1 >= m => Len(t) >= m)
      BY <1>1, <2>3, <2>5, <3>3
    <3>6. Counts(t, j + 1)
      BY <3>3, <3>4, <3>5
    <3> HIDE DEF Counts
    <3> QED
      BY <3>2, <3>6
  <2> QED
    BY <2>7, <2>8
<1>6. \A j \in Nat : j \in S
  <2> HIDE DEF S
  <2> QED
    BY <1>4, <1>5, Refs!SetInduction
<1>7. Counts(O(n), n)
  BY <1>1, <1>6
<1>8. CharOffsets(text) = Append(O(n), n)
  BY <1>2 DEF CharOffsets, O, cs, Offsets!After
<1>9. ASSUME NEW k \in 1..m PROVE CharOffsets(text)[k] = k - 1
  <2>1. PICK s : s = O(n)
    OBVIOUS
  <2>2. IsSeq(s) /\ Len(s) >= m /\ s[k] = k - 1 /\ Len(s) \in Nat
    BY <1>1, <1>7, <2>1, SeqParts
  <2>3. k \in 1..Len(s)
    BY <1>1, <2>2
  <2> QED
    BY <1>8, <2>1, <2>2, <2>3, SeqAppend
<1> QED
  BY <1>9

\* Before the replacement ends, every byte starts a character if the lengths agree.
ComparesHere(base, r) == SameSize(r) => \A k \in 1..r.oe : base[k] \notin Continuation

\* Then a replacement is dropped only if it replaces text by itself.
LEMMA DropsEqual ==
  ASSUME NEW base, IsSeq(base), NEW r, ReplOK(base, r), ComparesHere(base, r),
         ReplacesByEqual(base, r)
  PROVE  r.text = SubSeq(base, r.os + 1, r.oe)
<1>1. PICK a \in Nat : a = r.os
  BY DEF ReplOK
<1>2. PICK b \in Nat : b = r.oe
  BY DEF ReplOK
<1>3. PICK t : t = r.text
  OBVIOUS
<1>4. IsSeq(t) /\ a <= b /\ b <= Len(base) /\ Len(base) \in Nat
  BY <1>1, <1>2, <1>3, SeqParts DEF ReplOK
<1>5. Len(t) = b - a /\ \A k \in 1..b : base[k] \notin Continuation
  BY <1>1, <1>2, <1>3 DEF ReplacesByEqual, SameSize, ComparesHere
<1>6. CASE a = b
  <2>1. t = <<>>
    BY <1>4, <1>5, <1>6, SeqNothing
  <2>2. a \in 0..Len(base) /\ b \in a..Len(base) /\ b - a = 0
    BY <1>4, <1>6
  <2>3. IsSeq(SubSeq(base, a + 1, b)) /\ Len(SubSeq(base, a + 1, b)) = 0
    BY <2>2, SeqSub
  <2>4. SubSeq(base, a + 1, b) = <<>>
    BY <2>3, SeqNothing
  <2> QED
    BY <1>1, <1>2, <1>3, <2>1, <2>4
<1>7. CASE a # b
  <2>1. a + 1 \in 1..b /\ (a + 1) - 1 = a /\ b \in 0..Len(base)
    BY <1>4, <1>7
  <2>2. CharOffsets(base)[a + 1] = a
    <3>1. CharOffsets(base)[a + 1] = (a + 1) - 1
      BY <1>5, <2>1, OffsetsHere
    <3> QED
      BY <2>1, <3>1
  <2>3. t = SubSeq(base, a + 1, a + Len(t))
    BY <1>1, <1>3, <2>2 DEF ReplacesByEqual
  <2>4. a + Len(t) = b
    BY <1>5
  <2> QED
    BY <1>1, <1>2, <1>3, <2>3, <2>4
<1> QED
  BY <1>6, <1>7

\* The part between two places that are the same.
LEMMA NoPart ==
  ASSUME NEW base, IsSeq(base), NEW k \in 0..Len(base)
  PROVE  SubSeq(base, k + 1, k) = <<>>
<1>1. k \in k..Len(base) /\ k - k = 0
  BY SeqParts
<1>2. IsSeq(SubSeq(base, k + 1, k)) /\ Len(SubSeq(base, k + 1, k)) = 0
  BY <1>1, SeqSub
<1> QED
  BY <1>2, SeqNothing

\* x replaces as l does, and its text goes on with t.
Longer(base, u, l, x, t) ==
  Weave(u, x).out = Weave(u, l).out \o t /\ Weave(u, x).base = base /\ Weave(u, x).at = x.oe

\* A replacement whose text goes on.
LEMMA WeaveLonger ==
  ASSUME NEW base, IsSeq(base), NEW u, WovenOK(base, u), NEW l, ReplOK(base, l), u.at <= l.os,
         NEW t, IsSeq(t), NEW x, x.os = l.os, x.text = l.text \o t
  PROVE  Longer(base, u, l, x, t)
<1>1. PICK a : a = u.out \o SubSeq(base, u.at + 1, l.os)
  OBVIOUS
<1>2. PICK b : b = l.text
  OBVIOUS
<1>3. u.base = base /\ IsSeq(u.out) /\ IsSeq(SubSeq(base, u.at + 1, l.os))
  BY WeaveParts DEF WovenOK
<1>4. IsSeq(a) /\ IsSeq(b)
  BY <1>1, <1>2, <1>3, SeqConcat DEF ReplOK
<1>5. Weave(u, x).out = a \o (b \o t) /\ Weave(u, x).base = base /\ Weave(u, x).at = x.oe
  BY <1>1, <1>2, <1>3 DEF Weave
<1>6. Weave(u, l).out = a \o b
  BY <1>1, <1>2, <1>3 DEF Weave
<1>7. Associates(a, b, t)
  BY <1>4, SeqAssoc
<1> QED
  BY <1>5, <1>6, <1>7, Zenon DEF Longer, Associates

\* Splices in order do not overlap.
LEMMA NormalRepls ==
  ASSUME NEW base, NEW splices, Normal(base, splices)
  PROVE  ReplsOK(base, splices) /\ ~Overlap(splices)
<1>1. Len(splices) \in Nat
  BY SeqParts DEF Normal
<1>2. ReplsOK(base, splices)
  BY DEF Normal, SpliceOK, ReplsOK, ReplOK
<1>3. ASSUME NEW k \in 1..(Len(splices) - 1) PROVE ~(splices[k].oe > splices[k + 1].os)
  <2> DEFINE m == k + 1
  <2>1. m \in 1..Len(splices) /\ m - 1 = k /\ k # 0 /\ k \in 1..Len(splices)
    BY <1>1
  <2> HIDE DEF m
  <2>2. OldEnd(splices, m - 1) <= splices[m].os /\ splices[m].os \in Nat
    BY <2>1 DEF Normal, SpliceOK
  <2>3. splices[k].oe \in Nat /\ OldEnd(splices, k) = splices[k].oe
    BY <2>1 DEF Normal, SpliceOK, OldEnd
  <2>4. ~(splices[k].oe > splices[m].os)
    BY <2>1, <2>2, <2>3
  <2> QED
    BY <2>4 DEF m
<1> QED
  BY <1>2, <1>3 DEF Overlap

\* v is at the end of a replacement, w further on in the same text.
SameSoFar(base, v, w) ==
  /\ WovenOK(base, v) /\ WovenOK(base, w) /\ v.at <= w.at
  /\ w.out = v.out \o SubSeq(base, v.at + 1, w.at)

\* Up to the place k they are the same.
SameUpTo(base, v, w, k) ==
  w.out \o SubSeq(base, w.at + 1, k) = v.out \o SubSeq(base, v.at + 1, k)

\* The text between is part of what comes before the next place.
LEMMA SameLater ==
  ASSUME NEW base, IsSeq(base), NEW v, NEW w, SameSoFar(base, v, w), NEW k \in w.at..Len(base)
  PROVE  SameUpTo(base, v, w, k)
<1>1. PICK a : a = v.at
  OBVIOUS
<1>2. PICK b : b = w.at
  OBVIOUS
<1>3. a \in 0..Len(base) /\ b \in a..Len(base) /\ k \in b..Len(base) /\ Len(base) \in Nat
  BY <1>1, <1>2, SeqParts DEF SameSoFar, WovenOK
<1>4. b \in 0..Len(base)
  BY <1>3
<1>5. PICK p : p = SubSeq(base, a + 1, b)
  OBVIOUS
<1>6. PICK q : q = SubSeq(base, b + 1, k)
  OBVIOUS
<1>7. PICK o : o = v.out
  OBVIOUS
<1>8. IsSeq(p) /\ IsSeq(q) /\ IsSeq(o)
  <2>1. IsSeq(p)
    BY <1>3, <1>5, SeqSub
  <2>2. IsSeq(q)
    BY <1>3, <1>4, <1>6, SeqSub
  <2> QED
    BY <1>7, <2>1, <2>2 DEF SameSoFar, WovenOK
<1>9. p \o q = SubSeq(base, a + 1, k)
  BY <1>3, <1>5, <1>6, SeqGlue
<1>10. Associates(o, p, q)
  BY <1>8, SeqAssoc
<1>11. w.out = o \o p
  BY <1>1, <1>2, <1>5, <1>7 DEF SameSoFar
<1> QED
  BY <1>1, <1>2, <1>6, <1>7, <1>9, <1>10, <1>11, Zenon DEF SameUpTo, Associates

\* One replacement more, or one that changes nothing, or one that joins the last splice.
LEMMA SameStep ==
  ASSUME NEW base, IsSeq(base), NEW d, NEW w, Added(base, d, w.at),
         SameSoFar(base, Woven(base, d.splices), w),
         NEW e, e.base = base, ReplOK(base, e.repl), w.at <= e.repl.os,
         ComparesHere(base, e.repl)
  PROVE  SameSoFar(base, Woven(base, AddReplacement(d, e).splices), Weave(w, e.repl))
<1>1. PICK r : r = e.repl
  OBVIOUS
<1>2. PICK v : v = Woven(base, d.splices)
  OBVIOUS
<1>3. PICK z : z = Weave(w, r)
  OBVIOUS
<1>4. PICK s : s = d.splices
  OBVIOUS
<1>5. ReplOK(base, r) /\ w.at <= r.os /\ SameSoFar(base, v, w) /\ ComparesHere(base, r)
  BY <1>1, <1>2
<1>6. WovenOK(base, v) /\ WovenOK(base, w) /\ v.at <= w.at
  BY <1>5 DEF SameSoFar
<1>7. WovenOK(base, z) /\ z.at = r.oe
  BY <1>3, <1>5, <1>6, WeaveParts
<1>8. z.out = (w.out \o SubSeq(base, w.at + 1, r.os)) \o r.text
  BY <1>3, <1>6 DEF Weave, WovenOK
<1>9. r.os \in w.at..Len(base) /\ r.oe \in r.os..Len(base) /\ r.os \in 0..Len(base)
      /\ Len(base) \in Nat /\ v.at \in 0..Len(base) /\ w.at \in v.at..Len(base)
  BY <1>5, <1>6, SeqParts DEF WovenOK, ReplOK
<1>10. w.out \o SubSeq(base, w.at + 1, r.os) = v.out \o SubSeq(base, v.at + 1, r.os)
  <2>1. PICK k : k = r.os
    OBVIOUS
  <2>2. k \in w.at..Len(base)
    BY <1>9, <2>1
  <2>3. SameUpTo(base, v, w, k)
    BY <1>5, <2>2, SameLater
  <2> QED
    BY <2>1, <2>3, Zenon DEF SameUpTo
<1>11. IsSeq(s) /\ Normal(base, s)
  BY <1>4 DEF Added, Normal
<1>12. v = Woven(base, s)
  BY <1>2, <1>4
<1>13. CASE ReplacesByEqual(base, r)
  <2>1. AddReplacement(d, e) = d
    BY <1>1, <1>13 DEF AddReplacement
  <2>2. r.text = SubSeq(base, r.os + 1, r.oe)
    BY <1>5, <1>13, DropsEqual
  <2>3. r.os \in v.at..Len(base)
    BY <1>9
  <2>4. PICK p : p = SubSeq(base, v.at + 1, r.os)
    OBVIOUS
  <2>5. PICK q : q = SubSeq(base, r.os + 1, r.oe)
    OBVIOUS
  <2>6. PICK o : o = v.out
    OBVIOUS
  <2>7. IsSeq(p) /\ IsSeq(q) /\ IsSeq(o)
    <3>1. IsSeq(p)
      BY <1>9, <2>3, <2>4, SeqSub
    <3>2. IsSeq(q)
      BY <1>9, <2>5, SeqSub
    <3> QED
      BY <1>6, <2>6, <3>1, <3>2 DEF WovenOK
  <2>8. Associates(o, p, q)
    BY <2>7, SeqAssoc
  <2>9. p \o q = SubSeq(base, v.at + 1, r.oe)
    BY <1>9, <2>3, <2>4, <2>5, SeqGlue
  <2>10. z.out = v.out \o SubSeq(base, v.at + 1, r.oe)
    BY <1>8, <1>10, <2>2, <2>4, <2>5, <2>6, <2>8, <2>9, Zenon DEF Associates
  <2>11. v.at <= z.at
    BY <1>7, <1>9
  <2>12. SameSoFar(base, v, z)
    BY <1>6, <1>7, <2>10, <2>11 DEF SameSoFar
  <2> QED
    BY <1>1, <1>2, <1>3, <2>1, <2>12
<1>14. PICK c : c = r.os + d.shift
  OBVIOUS
<1>15. CASE ~ReplacesByEqual(base, r) /\ s # <<>> /\ Last(s).oe = r.os /\ Last(s).ne = c
  <2> DEFINE x == [os |-> Last(s).os, oe |-> r.oe, ns |-> Last(s).ns, ne |-> c + Len(r.text),
                   text |-> Last(s).text \o r.text]
  <2>1. AddReplacement(d, e).splices = Append(Front(s), x)
    BY <1>1, <1>4, <1>14, <1>15 DEF AddReplacement
  <2>2. PICK l : l = Last(s)
    OBVIOUS
  <2>3. x.os = l.os /\ x.oe = r.oe /\ x.text = l.text \o r.text
    BY <2>2
  <2> HIDE DEF x
  <2>4. PICK f : f = Front(s)
    OBVIOUS
  <2>5. PICK u : u = Woven(base, f)
    OBVIOUS
  <2>6. IsSeq(f) /\ s = Append(f, l)
    BY <1>11, <1>15, <2>2, <2>4, FrontLast
  <2>7. ReplsOK(base, s) /\ ~Overlap(s)
    BY <1>11, NormalRepls
  <2>8. /\ ReplsOK(base, f) /\ ~Overlap(f) /\ Len(s) \in Nat /\ Len(s) >= 1
        /\ EndOf(f, Len(f)) = EndOf(s, Len(s) - 1) /\ l = s[Len(s)]
    BY <1>15, <2>2, <2>4, <2>7, FrontChain
  <2>9. WovenOK(base, u) /\ u.at = EndOf(s, Len(s) - 1)
    BY <2>5, <2>8, WovenChain
  <2>10. Len(s) \in 1..Len(s)
    BY <2>8
  <2>11. u.at <= l.os /\ ReplOK(base, l)
    BY <2>7, <2>8, <2>9, <2>10, Chaining DEF ReplsOK
  <2>12. v = Weave(u, l)
    BY <1>12, <2>5, <2>6, WovenAppend
  <2>13. Woven(base, Append(f, x)) = Weave(u, x)
    BY <2>5, <2>6, WovenAppend
  <2>14. IsSeq(r.text)
    BY <1>5 DEF ReplOK
  <2>15. PICK y : y = Weave(u, x)
    OBVIOUS
  <2>16. y.out = v.out \o r.text /\ y.base = base /\ y.at = r.oe
    <3>1. PICK t : t = r.text
      OBVIOUS
    <3>2. IsSeq(t) /\ x.text = l.text \o t
      BY <2>3, <2>14, <3>1
    <3>3. Longer(base, u, l, x, t)
      BY <2>3, <2>9, <2>11, <3>2, WeaveLonger
    <3> QED
      BY <2>3, <2>12, <2>15, <3>1, <3>3, Zenon DEF Longer
  <2>17. v.at = r.os
    <3>1. v.at = l.oe
      BY <2>12 DEF Weave
    <3> QED
      BY <1>15, <2>2, <3>1
  <2>18. SubSeq(base, v.at + 1, r.os) = <<>>
    BY <1>9, <2>17, NoPart
  <2>19. IsSeq(v.out)
    BY <1>6 DEF WovenOK
  <2>20. z.out = v.out \o r.text
    BY <1>8, <1>10, <2>18, <2>19, EmptyConcat, Zenon
  <2>21. SubSeq(base, y.at + 1, z.at) = <<>>
    <3>1. r.oe \in 0..Len(base)
      BY <1>9
    <3> QED
      BY <1>7, <2>16, <3>1, NoPart
  <2>22. IsSeq(z.out)
    BY <1>7 DEF WovenOK
  <2>23. z.out = y.out \o SubSeq(base, y.at + 1, z.at)
    BY <2>16, <2>20, <2>21, <2>22, EmptyConcat, Zenon
  <2>24. WovenOK(base, y) /\ y.at <= z.at
    BY <1>7, <1>9, <2>16, <2>20 DEF WovenOK
  <2>25. SameSoFar(base, y, z)
    BY <1>7, <2>23, <2>24 DEF SameSoFar
  <2> QED
    BY <1>1, <1>3, <2>1, <2>4, <2>13, <2>15, <2>25, Zenon
<1>16. CASE ~ReplacesByEqual(base, r) /\ ~(s # <<>> /\ Last(s).oe = r.os /\ Last(s).ne = c)
  <2> DEFINE x == [os |-> r.os, oe |-> r.oe, ns |-> c, ne |-> c + Len(r.text), text |-> r.text]
  <2>1. AddReplacement(d, e).splices = Append(s, x)
    BY <1>1, <1>4, <1>14, <1>16 DEF AddReplacement
  <2>2. x.os = r.os /\ x.oe = r.oe /\ x.text = r.text
    OBVIOUS
  <2> HIDE DEF x
  <2>3. PICK y : y = Weave(v, x)
    OBVIOUS
  <2>4. Woven(base, Append(s, x)) = y
    BY <1>11, <1>12, <2>3, WovenAppend
  <2>5. y.out = (v.out \o SubSeq(base, v.at + 1, r.os)) \o r.text /\ y.base = base /\ y.at = r.oe
    BY <1>6, <2>2, <2>3 DEF Weave, WovenOK
  <2>6. y.out = z.out
    BY <1>8, <1>10, <2>5, Zenon
  <2>7. SubSeq(base, y.at + 1, z.at) = <<>>
    <3>1. r.oe \in 0..Len(base)
      BY <1>9
    <3> QED
      BY <1>7, <2>5, <3>1, NoPart
  <2>8. IsSeq(z.out)
    BY <1>7 DEF WovenOK
  <2>9. z.out = y.out \o SubSeq(base, y.at + 1, z.at)
    BY <2>6, <2>7, <2>8, EmptyConcat, Zenon
  <2>10. WovenOK(base, y) /\ y.at <= z.at
    <3>1. r.oe \in 0..Len(base) /\ r.oe <= r.oe
      BY <1>9
    <3>2. IsSeq(y.out)
      BY <2>6, <2>8
    <3> QED
      BY <1>7, <2>5, <3>1, <3>2 DEF WovenOK
  <2>11. SameSoFar(base, y, z)
    BY <1>7, <2>9, <2>10 DEF SameSoFar
  <2> QED
    BY <1>1, <1>3, <2>1, <2>4, <2>11, Zenon
<1> QED
  BY <1>13, <1>15, <1>16

\* Dropping replacements that change nothing and joining those that touch makes no
\* difference to the text.
LEMMA Dropping ==
  ASSUME NEW base, IsSeq(base), NEW repls, ReplsOK(base, repls), ~Overlap(repls),
         \A k \in 1..Len(repls) : ComparesHere(base, repls[k])
  PROVE  SameSoFar(base, Woven(base, Splices(base, repls)), Woven(base, repls))
<1> DEFINE es == [k \in DOMAIN repls |-> [base |-> base, repl |-> repls[k]]]
           d0 == [shift |-> 0, splices |-> <<>>]
           x == [base |-> base, out |-> <<>>, at |-> 0]
           P(n) == Changes!States(d0, es)[n]
           W(n) == Weaving!States(x, repls)[n]
           Sound(n) == /\ WovenOK(base, W(n)) /\ W(n).at = EndOf(repls, n)
                       /\ Added(base, P(n), W(n).at)
                       /\ SameSoFar(base, Woven(base, P(n).splices), W(n))
           S == {n \in Nat : n <= Len(repls) => Sound(n)}
<1>1. Len(repls) \in Nat /\ DOMAIN repls = 1..Len(repls) /\ Len(base) \in Nat
  BY SeqParts DEF ReplsOK
<1>2. IsSeq(es) /\ Len(es) = Len(repls)
  BY <1>1, SeqOfFunction
<1>3. \A k \in 1..Len(repls) : es[k].repl = repls[k] /\ es[k].base = base
  BY <1>1
<1> HIDE DEF es
<1>4. P(0) = d0 /\ \A n \in 1..Len(repls) : P(n) = AddReplacement(P(n - 1), es[n])
  BY <1>1, <1>2, Changes!Iterates
<1>5. W(0) = x /\ \A n \in 1..Len(repls) : W(n) = Weave(W(n - 1), repls[n])
  BY <1>1, Weaving!Iterates
<1> HIDE DEF P, W
<1>6. 0 \in S
  <2>1. x.base = base /\ x.out = <<>> /\ x.at = 0 /\ x.at \in 0..Len(base)
    BY <1>1
  <2>2. d0.splices = <<>> /\ d0.shift = 0
    OBVIOUS
  <2>3. Woven(base, <<>>) = x
    BY WovenNothing
  <2> HIDE DEF x, d0
  <2>4. WovenOK(base, x)
    BY <2>1, SeqEmpty DEF WovenOK
  <2>5. Normal(base, <<>>) /\ Len(<<>>) = 0
    BY SeqEmpty DEF Normal
  <2>6. OldEnd(<<>>, 0) = 0 /\ NewEnd(<<>>, 0) = 0
    BY DEF OldEnd, NewEnd
  <2>7. Added(base, d0, 0)
    BY <2>2, <2>5, <2>6 DEF Added
  <2>8. x.out = x.out \o SubSeq(base, x.at + 1, x.at)
    <3>1. SubSeq(base, x.at + 1, x.at) = <<>>
      BY <1>1, <2>1, NoPart
    <3> QED
      BY <2>1, <3>1, SeqEmpty, EmptyConcat
  <2>9. SameSoFar(base, x, x)
    BY <2>1, <2>4, <2>8 DEF SameSoFar
  <2>10. EndOf(repls, 0) = 0
    BY DEF EndOf
  <2>11. Sound(0)
    BY <1>4, <1>5, <2>1, <2>2, <2>3, <2>4, <2>7, <2>9, <2>10
  <2> QED
    BY <2>11
<1>7. ASSUME NEW n \in Nat, n \in S PROVE n + 1 \in S
  <2> DEFINE m == n + 1
  <2> SUFFICES ASSUME m <= Len(repls) PROVE Sound(m)
    OBVIOUS
  <2>1. m \in 1..Len(repls) /\ m - 1 = n /\ n <= Len(repls) /\ m # 0
    BY <1>1
  <2>2. Sound(n)
    <3> HIDE DEF Sound
    <3> QED
      BY <1>7, <2>1
  <2> HIDE DEF m
  <2>3. P(m) = AddReplacement(P(m - 1), es[m]) /\ W(m) = Weave(W(m - 1), repls[m])
    BY <1>4, <1>5, <2>1, Zenon
  <2>4. PICK d : d = P(n)
    OBVIOUS
  <2>5. PICK w : w = W(n)
    OBVIOUS
  <2>6. PICK e : e = es[m]
    OBVIOUS
  <2>7. P(m) = AddReplacement(d, e) /\ W(m) = Weave(w, e.repl) /\ e.repl = repls[m] /\ e.base = base
    BY <1>3, <2>1, <2>3, <2>4, <2>5, <2>6, Zenon
  <2>8. WovenOK(base, w) /\ w.at = EndOf(repls, n) /\ Added(base, d, w.at)
        /\ SameSoFar(base, Woven(base, d.splices), w)
    BY <2>2, <2>4, <2>5, Zenon
  <2>9. ReplOK(base, e.repl) /\ ComparesHere(base, e.repl)
    BY <2>1, <2>7 DEF ReplsOK
  <2>10. w.at <= e.repl.os /\ w.at \in Nat
    BY <2>1, <2>7, <2>8, Chaining
  <2>11. SameSoFar(base, Woven(base, AddReplacement(d, e).splices), Weave(w, e.repl))
    BY <2>7, <2>8, <2>9, <2>10, SameStep
  <2>12. Added(base, AddReplacement(d, e), e.repl.oe)
    <3>1. PICK b \in Nat : b = w.at
      BY <2>10
    <3>2. Added(base, d, b) /\ b <= e.repl.os
      BY <2>8, <2>10, <3>1
    <3> QED
      BY <2>9, <3>2, AddStep
  <2>13. WovenOK(base, Weave(w, e.repl)) /\ Weave(w, e.repl).at = e.repl.oe
    BY <2>8, <2>9, <2>10, WeaveParts
  <2>14. EndOf(repls, m) = e.repl.oe
    BY <2>1, <2>7 DEF EndOf
  <2> QED
    BY <2>7, <2>11, <2>12, <2>13, <2>14, Zenon
<1>8. \A n \in Nat : n \in S
  <2> HIDE DEF S
  <2> QED
    BY <1>6, <1>7, Refs!SetInduction
<1>9. Sound(Len(repls))
  BY <1>1, <1>8
<1>10. Splices(base, repls) = P(Len(repls)).splices
  BY <1>2 DEF P, es, Splices, Changes!After
<1>11. Woven(base, repls) = W(Len(repls))
  BY DEF Woven, Weaving!After, W
<1> QED
  BY <1>9, <1>10, <1>11

-----------------------------------------------------------------------------
(* Applying the splices *)

\* The text that is there with the splices behind the k-th applied: up to the k-th it
\* is that of base, behind it that of the result.
Returning(base, w, all, text) ==
  /\ WovenOK(base, w)
  /\ \E rest : /\ IsSeq(rest) /\ text = SubSeq(base, 1, w.at) \o rest
               /\ all = w.out \o rest

\* One splice is applied.
LEMMA ReturnStep ==
  ASSUME NEW base, IsSeq(base), NEW w, WovenOK(base, w), NEW s, ReplOK(base, s), w.at <= s.os,
         NEW all, NEW text, Returning(base, Weave(w, s), all, text)
  PROVE  Returning(base, w, all, ApplySplice(text, s))
<1>1. PICK rest : /\ IsSeq(rest) /\ text = SubSeq(base, 1, Weave(w, s).at) \o rest
                  /\ all = Weave(w, s).out \o rest
  BY DEF Returning
<1>2. Weave(w, s).at = s.oe
  BY DEF Weave
<1>3. Weave(w, s).out = (w.out \o SubSeq(base, w.at + 1, s.os)) \o s.text
  BY DEF Weave, WovenOK
<1>4. PICK a : a = w.at
  OBVIOUS
<1>5. PICK os : os = s.os
  OBVIOUS
<1>6. PICK oe : oe = s.oe
  OBVIOUS
<1>7. PICK t : t = s.text
  OBVIOUS
<1>8. PICK o : o = w.out
  OBVIOUS
<1>9. /\ Len(base) \in Nat /\ a \in 0..Len(base) /\ os \in a..Len(base) /\ oe \in os..Len(base)
      /\ os \in 0..Len(base) /\ oe \in 0..Len(base) /\ IsSeq(t) /\ IsSeq(o)
  BY <1>4, <1>5, <1>6, <1>7, <1>8, SeqParts DEF WovenOK, ReplOK
<1>10. PICK h : h = SubSeq(base, 1, oe)
  OBVIOUS
<1>11. PICK g : g = SubSeq(base, a + 1, os)
  OBVIOUS
<1>12. PICK p : p = SubSeq(base, 1, a)
  OBVIOUS
<1>13. PICK f : f = SubSeq(base, 1, os)
  OBVIOUS
<1>14. 0 \in 0..Len(base) /\ 0 + 1 = 1 /\ a \in 0..Len(base) /\ os \in 0..Len(base) /\ oe - 0 = oe /\ os - 0 = os
  BY <1>9
<1>15. IsSeq(h) /\ Len(h) = oe
  BY <1>9, <1>10, <1>14, SeqSub
<1>16. IsSeq(g) /\ IsSeq(p) /\ IsSeq(f) /\ Len(f) = os
  <2>1. IsSeq(g)
    BY <1>9, <1>11, SeqSub
  <2>2. IsSeq(p)
    BY <1>12, <1>14, SeqSub
  <2>3. IsSeq(f) /\ Len(f) = os
    BY <1>13, <1>14, SeqSub
  <2> QED
    BY <2>1, <2>2, <2>3
<1>17. f = p \o g
  <2>1. SubSeq(base, 0 + 1, a) \o SubSeq(base, a + 1, os) = SubSeq(base, 0 + 1, os)
    BY <1>9, <1>14, SeqGlue
  <2> QED
    BY <1>11, <1>12, <1>13, <1>14, <2>1, Zenon
<1>18. text = h \o rest
  BY <1>1, <1>2, <1>6, <1>10, Zenon
<1>19. SubSeq(text, oe + 1, Len(text)) = rest
  BY <1>1, <1>15, <1>18, ConcatParts
<1>20. SubSeq(text, 1, os) = f
  <2>1. PICK i : i = SubSeq(base, os + 1, oe)
    OBVIOUS
  <2>2. IsSeq(i)
    BY <1>9, <2>1, SeqSub
  <2>3. h = f \o i
    <3>1. SubSeq(base, 0 + 1, os) \o SubSeq(base, os + 1, oe) = SubSeq(base, 0 + 1, oe)
      BY <1>9, <1>14, SeqGlue
    <3> QED
      BY <1>10, <1>13, <1>14, <2>1, <3>1, Zenon
  <2>4. PICK j : j = i \o rest
    OBVIOUS
  <2>5. IsSeq(j) /\ text = f \o j
    <3>1. Associates(f, i, rest)
      BY <1>1, <1>16, <2>2, SeqAssoc
    <3>2. text = f \o j
      BY <1>18, <2>3, <2>4, <3>1, Zenon DEF Associates
    <3> QED
      BY <1>1, <2>2, <2>4, <3>2, SeqConcat
  <2>6. SubSeq(f \o j, 1, Len(f)) = f
    BY <1>16, <2>5, ConcatParts
  <2> QED
    BY <1>16, <2>5, <2>6, Zenon
<1>21. ApplySplice(text, s) = (f \o t) \o rest
  BY <1>5, <1>6, <1>7, <1>19, <1>20, Zenon DEF ApplySplice
<1>22. PICK q : q = (g \o t) \o rest
  OBVIOUS
<1>23. IsSeq(g \o t) /\ IsSeq(q)
  BY <1>1, <1>9, <1>16, <1>22, SeqConcat
<1>24. (f \o t) \o rest = p \o q
  <2>1. Associates(p, g, t)
    BY <1>9, <1>16, SeqAssoc
  <2>2. Associates(p, g \o t, rest)
    BY <1>1, <1>16, <1>23, SeqAssoc
  <2> QED
    BY <1>17, <1>22, <2>1, <2>2, Zenon DEF Associates
<1>25. all = o \o q
  <2>1. Associates(o, g, t)
    BY <1>9, <1>16, SeqAssoc
  <2>2. Associates(o, g \o t, rest)
    BY <1>1, <1>9, <1>23, SeqAssoc
  <2>3. all = ((o \o g) \o t) \o rest
    BY <1>1, <1>3, <1>4, <1>5, <1>7, <1>8, <1>11, Zenon
  <2> QED
    BY <1>22, <2>1, <2>2, <2>3, Zenon DEF Associates
<1>26. ApplySplice(text, s) = SubSeq(base, 1, w.at) \o q /\ all = w.out \o q
  BY <1>4, <1>8, <1>12, <1>21, <1>24, <1>25, Zenon
<1> QED
  BY <1>23, <1>26, Zenon DEF Returning

\* Applying the splices from the last to the first makes them all.
LEMMA Returned ==
  ASSUME NEW base, IsSeq(base), NEW splices, ReplsOK(base, splices), ~Overlap(splices)
  PROVE  ApplySplices(base, splices) = Whole(Woven(base, splices))
<1> DEFINE es == Reverse(splices)
           N == Len(splices)
           x == [base |-> base, out |-> <<>>, at |-> 0]
           P(n) == Application!States(base, es)[n]
           W(n) == Weaving!States(x, splices)[n]
           all == Whole(Woven(base, splices))
           T == {n \in Nat : n <= N => WovenOK(base, W(n)) /\ W(n).at = EndOf(splices, n)}
           S == {n \in Nat : n <= N => Returning(base, W(N - n), all, P(n))}
<1>1. N \in Nat /\ Len(base) \in Nat /\ IsSeq(splices)
  BY SeqParts DEF ReplsOK
<1>2. IsSeq(es) /\ Len(es) = N /\ \A n \in 1..N : es[n] = splices[(N - n) + 1]
  <2>1. es = [i \in 1..N |-> splices[(N - i) + 1]]
    BY Zenon DEF Reverse
  <2> HIDE DEF es
  <2>2. DOMAIN es = 1..N /\ es = [i \in 1..N |-> es[i]]
    BY <2>1
  <2>3. IsSeq(es) /\ Len(es) = N
    BY <1>1, <2>2, SeqOfFunction
  <2> QED
    BY <2>1, <2>3
<1> HIDE DEF es
<1>3. P(0) = base /\ \A n \in 1..N : P(n) = ApplySplice(P(n - 1), es[n])
  BY <1>1, <1>2, Application!Iterates
<1>4. W(0) = x /\ \A n \in 1..N : W(n) = Weave(W(n - 1), splices[n])
  BY <1>1, Weaving!Iterates
<1>5. W(N) = Woven(base, splices)
  BY DEF Woven, Weaving!After
<1>6. P(N) = ApplySplices(base, splices)
  BY <1>2 DEF ApplySplices, Application!After, es
<1> HIDE DEF P, W
<1>7. 0 \in T
  <2>1. x.base = base /\ x.out = <<>> /\ x.at = 0 /\ x.at \in 0..Len(base)
    BY <1>1
  <2> HIDE DEF x
  <2>2. WovenOK(base, x) /\ x.at = EndOf(splices, 0)
    BY <2>1, SeqEmpty DEF WovenOK, EndOf
  <2> QED
    BY <1>4, <2>2
<1>8. ASSUME NEW n \in Nat, n \in T PROVE n + 1 \in T
  <2> DEFINE m == n + 1
  <2> SUFFICES ASSUME m <= N PROVE WovenOK(base, W(m)) /\ W(m).at = EndOf(splices, m)
    OBVIOUS
  <2>1. m \in 1..N /\ m - 1 = n /\ n <= N /\ m # 0
    BY <1>1
  <2>2. WovenOK(base, W(n)) /\ W(n).at = EndOf(splices, n)
    BY <1>8, <2>1
  <2> HIDE DEF m
  <2>3. W(m) = Weave(W(n), splices[m]) /\ ReplOK(base, splices[m])
    BY <1>4, <2>1 DEF ReplsOK
  <2>4. W(n).at <= splices[m].os
    BY <2>1, <2>2, Chaining
  <2>5. WovenOK(base, Weave(W(n), splices[m])) /\ Weave(W(n), splices[m]).at = splices[m].oe
    BY <2>2, <2>3, <2>4, WeaveParts
  <2>6. EndOf(splices, m) = splices[m].oe
    BY <2>1 DEF EndOf
  <2> QED
    BY <2>3, <2>5, <2>6, Zenon
<1>9. \A n \in Nat : n \in T
  <2> HIDE DEF T
  <2> QED
    BY <1>7, <1>8, Refs!SetInduction
<1>10. 0 \in S
  <2>1. PICK w : w = W(N)
    OBVIOUS
  <2>2. WovenOK(base, w)
    BY <1>1, <1>9, <2>1
  <2>3. PICK rest : rest = SubSeq(base, w.at + 1, Len(base))
    OBVIOUS
  <2>4. w.at \in 0..Len(base) /\ w.base = base
    BY <2>2 DEF WovenOK
  <2>5. IsSeq(rest)
    <3>1. w.at \in 0..Len(base) /\ Len(base) \in w.at..Len(base)
      BY <1>1, <2>4
    <3> QED
      BY <2>3, <3>1, SeqSub
  <2>6. base = SubSeq(base, 1, w.at) \o rest
    BY <2>3, <2>4, SeqSplit
  <2>7. all = w.out \o rest
    BY <1>5, <2>1, <2>3, <2>4, Zenon DEF Whole
  <2> HIDE DEF all
  <2>8. Returning(base, w, all, base)
    BY <2>2, <2>5, <2>6, <2>7, Zenon DEF Returning
  <2>9. N - 0 = N
    BY <1>1
  <2> QED
    BY <1>3, <2>1, <2>8, <2>9
<1>11. ASSUME NEW n \in Nat, n \in S PROVE n + 1 \in S
  <2> HIDE DEF all
  <2> DEFINE m == n + 1
             k == N - n
  <2> SUFFICES ASSUME m <= N PROVE Returning(base, W(N - m), all, P(m))
    OBVIOUS
  <2>1. m \in 1..N /\ m - 1 = n /\ n <= N /\ k \in 1..N /\ k - 1 = N - m /\ (N - m) + 1 = k
        /\ k - 1 \in Nat /\ k - 1 <= N
    BY <1>1
  <2>2. Returning(base, W(k), all, P(n))
    BY <1>11, <2>1
  <2> HIDE DEF m, k
  <2>3. PICK s : s = splices[k]
    OBVIOUS
  <2>4. P(m) = ApplySplice(P(n), s)
    BY <1>2, <1>3, <2>1, <2>3
  <2>5. PICK w : w = W(k - 1)
    OBVIOUS
  <2>6. W(k) = Weave(w, s)
    BY <1>4, <2>1, <2>3, <2>5
  <2>7. WovenOK(base, w) /\ w.at = EndOf(splices, k - 1)
    BY <1>9, <2>1, <2>5
  <2>8. w.at <= s.os /\ ReplOK(base, s)
    BY <2>1, <2>3, <2>7, Chaining DEF ReplsOK
  <2>9. PICK text : text = P(n)
    OBVIOUS
  <2>10. Returning(base, Weave(w, s), all, text)
    BY <2>2, <2>6, <2>9, Zenon
  <2>11. Returning(base, w, all, ApplySplice(text, s))
    BY <2>7, <2>8, <2>10, ReturnStep
  <2> QED
    BY <2>1, <2>4, <2>5, <2>9, <2>11, Zenon
<1>12. \A n \in Nat : n \in S
  <2> HIDE DEF S
  <2> QED
    BY <1>10, <1>11, Refs!SetInduction
<1>13. Returning(base, W(0), all, P(N))
  <2>1. N - N = 0 /\ N <= N
    BY <1>1
  <2> HIDE DEF all
  <2> QED
    BY <1>1, <1>12, <2>1
<1>14. x.out = <<>> /\ x.at = 0
  OBVIOUS
<1>15. PICK rest : IsSeq(rest) /\ P(N) = SubSeq(base, 1, 0) \o rest /\ all = <<>> \o rest
  <2> HIDE DEF all, x
  <2>1. PICK rest : IsSeq(rest) /\ P(N) = SubSeq(base, 1, x.at) \o rest /\ all = x.out \o rest
    BY <1>4, <1>13 DEF Returning
  <2> QED
    BY <1>14, <2>1, Zenon
<1>16. SubSeq(base, 1, 0) = <<>>
  <2>1. SubSeq(base, 0 + 1, 0) = <<>>
    BY <1>1, NoPart
  <2>2. 0 + 1 = 1
    OBVIOUS
  <2> QED
    BY <2>1, <2>2, Zenon
<1> HIDE DEF all
<1>17. P(N) = all
  BY <1>15, <1>16, Zenon
<1> QED
  BY <1>6, <1>17, Zenon DEF all

-----------------------------------------------------------------------------
(* What the edits describe *)

\* The first parts of a sequence of sequences.
PartsOf(ps, n) == Parts!States(<<>>, ps)[n]

\* They are put together one after the other.
LEMMA PartStates ==
  ASSUME NEW ps, Len(ps) \in Nat, \A k \in 1..Len(ps) : IsSeq(ps[k])
  PROVE  /\ PartsOf(ps, 0) = <<>>
         /\ \A n \in 1..Len(ps) : PartsOf(ps, n) = AddPart(PartsOf(ps, n - 1), ps[n])
         /\ \A n \in 0..Len(ps) : IsSeq(PartsOf(ps, n))
<1> DEFINE P(n) == PartsOf(ps, n)
           S == {n \in Nat : n <= Len(ps) => IsSeq(P(n))}
<1>1. P(0) = <<>> /\ \A n \in 1..Len(ps) : P(n) = AddPart(P(n - 1), ps[n])
  BY Parts!Iterates DEF PartsOf
<1> HIDE DEF P
<1>2. 0 \in S
  BY <1>1, SeqEmpty
<1>3. ASSUME NEW n \in Nat, n \in S PROVE n + 1 \in S
  <2> DEFINE m == n + 1
  <2> SUFFICES ASSUME m <= Len(ps) PROVE IsSeq(P(m))
    OBVIOUS
  <2>1. m \in 1..Len(ps) /\ m - 1 = n /\ n <= Len(ps)
    OBVIOUS
  <2>2. IsSeq(P(n))
    BY <1>3, <2>1
  <2> HIDE DEF m
  <2>3. P(m) = P(n) \o ps[m]
    BY <1>1, <2>1 DEF AddPart
  <2>4. IsSeq(P(n) \o ps[m])
    BY <2>1, <2>2, SeqConcat
  <2> QED
    BY <2>3, <2>4, Zenon
<1>4. \A n \in Nat : n \in S
  <2> HIDE DEF S
  <2> QED
    BY <1>2, <1>3, Refs!SetInduction
<1>5. \A n \in 0..Len(ps) : IsSeq(P(n))
  BY <1>4
<1> QED
  BY <1>1, <1>5 DEF P

\* What an edit inserts at a place.
TextAt(e, p) == IF e.kind = "insert" /\ e.start = p THEN e.text ELSE <<>>

\* What the first k edits insert there.
Early(es, p, k) == PartsOf([j \in DOMAIN es |-> TextAt(es[j], p)], k)

EditsOnly(es) == IsSeq(es) /\ \A k \in 1..Len(es) : es[k] \in EditOp

\* One edit after the other.
LEMMA EarlyStates ==
  ASSUME NEW es, EditsOnly(es), NEW p
  PROVE  /\ Early(es, p, 0) = <<>>
         /\ \A k \in 1..Len(es) : Early(es, p, k) = AddPart(Early(es, p, k - 1), TextAt(es[k], p))
         /\ \A k \in 0..Len(es) : IsSeq(Early(es, p, k))
         /\ Inserted(es, p) = Early(es, p, Len(es))
<1> DEFINE ps == [j \in DOMAIN es |-> TextAt(es[j], p)]
<1>1. Len(es) \in Nat /\ DOMAIN es = 1..Len(es)
  BY SeqParts DEF EditsOnly
<1>2. Len(ps) = Len(es) /\ \A k \in 1..Len(es) : ps[k] = TextAt(es[k], p)
  BY <1>1, SeqOfFunction
<1>3. ASSUME NEW k \in 1..Len(es) PROVE IsSeq(TextAt(es[k], p))
  <2>1. IsSeq(es[k].text)
    BY EditParts DEF EditsOnly
  <2> QED
    BY <2>1, SeqEmpty DEF TextAt
<1>4. \A k : Early(es, p, k) = PartsOf(ps, k)
  BY DEF Early
<1>5. Inserted(es, p) = Early(es, p, Len(es))
  <2>1. Inserted(es, p) = Parts!After(<<>>, ps)
    BY Zenon DEF Inserted, TextAt
  <2>2. Parts!After(<<>>, ps) = PartsOf(ps, Len(ps))
    BY DEF Parts!After, PartsOf
  <2> HIDE DEF ps
  <2> QED
    BY <1>2, <1>4, <2>1, <2>2
<1> HIDE DEF ps
<1>6. /\ PartsOf(ps, 0) = <<>>
      /\ \A n \in 1..Len(ps) : PartsOf(ps, n) = AddPart(PartsOf(ps, n - 1), ps[n])
      /\ \A n \in 0..Len(ps) : IsSeq(PartsOf(ps, n))
  BY <1>1, <1>2, <1>3, PartStates
<1> QED
  BY <1>2, <1>4, <1>5, <1>6

\* EditsOnly that insert nothing there add nothing.
LEMMA EarlySkips ==
  ASSUME NEW es, EditsOnly(es), NEW p, NEW i \in 0..Len(es), NEW k \in i..Len(es),
         \A j \in (i + 1)..k : TextAt(es[j], p) = <<>>
  PROVE  Early(es, p, k) = Early(es, p, i)
<1> DEFINE S == {d \in Nat : i + d <= k => Early(es, p, i + d) = Early(es, p, i)}
<1>1. Len(es) \in Nat /\ i \in Nat /\ k \in Nat /\ i <= k /\ k <= Len(es)
  BY SeqParts DEF EditsOnly
<1>2. 0 \in S
  BY <1>1
<1>3. ASSUME NEW d \in Nat, d \in S PROVE d + 1 \in S
  <2> DEFINE m == i + (d + 1)
             n == i + d
  <2> SUFFICES ASSUME m <= k PROVE Early(es, p, m) = Early(es, p, i)
    OBVIOUS
  <2>1. m \in 1..Len(es) /\ m - 1 = n /\ n \in 0..Len(es) /\ m \in (i + 1)..k /\ n <= k
    BY <1>1
  <2>2. Early(es, p, n) = Early(es, p, i)
    BY <1>3, <2>1
  <2> HIDE DEF m, n
  <2>3. Early(es, p, m) = AddPart(Early(es, p, m - 1), TextAt(es[m], p))
    BY <2>1, EarlyStates
  <2>4. TextAt(es[m], p) = <<>>
    BY <2>1
  <2>5. PICK q : q = Early(es, p, n)
    OBVIOUS
  <2>6. IsSeq(q)
    BY <2>1, <2>5, EarlyStates
  <2>7. AddPart(q, <<>>) = q
    BY <2>6, EmptyConcat DEF AddPart
  <2> QED
    BY <2>1, <2>2, <2>3, <2>4, <2>5, <2>7, Zenon
<1>4. \A d \in Nat : d \in S
  <2> HIDE DEF S
  <2> QED
    BY <1>2, <1>3, Refs!SetInduction
<1>5. k - i \in Nat /\ i + (k - i) = k
  BY <1>1
<1>6. k - i \in S
  BY <1>4, <1>5
<1> QED
  BY <1>1, <1>5, <1>6

\* Up to the i-th edit as the caller has them: what they insert at p is what the
\* first m sorted edits insert there.
Matched(edits, es, place, p, i, m) ==
  /\ m \in 0..Len(edits)
  /\ Early(edits, p, i) = Early(es, p, m)
  /\ \A j \in 1..Len(edits) :
       edits[j].kind = "insert" /\ edits[j].start = p => (j <= i <=> place[j] <= m)

\* Sorting keeps the order of what is inserted at one place.
LEMMA Stable ==
  ASSUME NEW edits, edits \in Seq(EditOp), NEW p
  PROVE  Inserted(edits, p) = Inserted(SortEdits(edits), p) /\ EditsOnly(edits) /\ EditsOnly(SortEdits(edits))
<1> DEFINE n == Len(edits)
<1>1. n \in Nat /\ DOMAIN edits = 1..n /\ EditsOnly(edits)
  BY SeqOver, SeqParts DEF EditsOnly
<1>2. PICK es : es = SortEdits(edits)
  OBVIOUS
<1>3. PICK place : Rearranged(edits, es, place) /\ ByPosition(edits, place)
  BY <1>2, SortingPlaces
<1>4. /\ IsSeq(es) /\ Len(es) = n /\ place \in [1..n -> 1..n]
      /\ \A i \in 1..n : \E k \in 1..n : place[k] = i
      /\ \A k \in 1..n : es[place[k]] = edits[k]
  BY <1>3 DEF Rearranged
<1>5. EditsOnly(es)
  <2>1. ASSUME NEW i \in 1..n PROVE es[i] \in EditOp
    <3>1. PICK k \in 1..n : place[k] = i
      BY <1>4
    <3> QED
      BY <1>1, <1>4, <3>1 DEF EditsOnly
  <2> QED
    BY <1>4, <2>1 DEF EditsOnly
<1>6. \A k \in 1..n : place[k] \in Nat /\ 1 <= place[k] /\ place[k] <= n
  <2>1. \A k \in 1..n : place[k] \in 1..n
    BY <1>4
  <2> QED
    BY <1>1, <2>1
<1> DEFINE S == {i \in Nat : i <= n => \E m : Matched(edits, es, place, p, i, m)}
<1>7. 0 \in S
  <2>1. Early(edits, p, 0) = <<>> /\ Early(es, p, 0) = <<>>
    BY <1>1, <1>5, EarlyStates
  <2>2. Matched(edits, es, place, p, 0, 0)
    BY <1>1, <1>6, <2>1 DEF Matched
  <2> QED
    BY <2>2
<1>8. ASSUME NEW i \in Nat, i \in S PROVE i + 1 \in S
  <2> DEFINE c == i + 1
  <2> SUFFICES ASSUME c <= n PROVE \E m : Matched(edits, es, place, p, c, m)
    OBVIOUS
  <2>1. c \in 1..n /\ c - 1 = i /\ i <= n /\ i \in 0..n
    BY <1>1
  <2>2. PICK m : Matched(edits, es, place, p, i, m)
    BY <1>8, <2>1
  <2>3. /\ m \in 0..n /\ Early(edits, p, i) = Early(es, p, m)
        /\ \A j \in 1..n : edits[j].kind = "insert" /\ edits[j].start = p => (j <= i <=> place[j] <= m)
    BY <2>2 DEF Matched
  <2>20. \A j \in 1..n : j # c => (j <= c <=> j <= i)
    BY <2>1
  <2> HIDE DEF c
  <2>4. Early(edits, p, c) = AddPart(Early(edits, p, i), TextAt(edits[c], p))
    <3>1. Early(edits, p, c) = AddPart(Early(edits, p, c - 1), TextAt(edits[c], p))
      BY <1>1, <2>1, EarlyStates
    <3> QED
      BY <2>1, <3>1, Zenon
  <2>5. CASE ~(edits[c].kind = "insert" /\ edits[c].start = p)
    <3>1. TextAt(edits[c], p) = <<>>
      BY <2>5 DEF TextAt
    <3>2. PICK q : q = Early(edits, p, i)
      OBVIOUS
    <3>3. IsSeq(q)
      BY <1>1, <2>1, <3>2, EarlyStates
    <3>4. AddPart(q, <<>>) = q
      BY <3>3, EmptyConcat DEF AddPart
    <3>5. Early(edits, p, c) = Early(es, p, m)
      BY <2>3, <2>4, <3>1, <3>2, <3>4, Zenon
    <3>6. \A j \in 1..n : edits[j].kind = "insert" /\ edits[j].start = p => (j <= c <=> place[j] <= m)
      BY <2>3, <2>5, <2>20
    <3>7. Matched(edits, es, place, p, c, m)
      BY <2>3, <3>5, <3>6 DEF Matched
    <3> QED
      BY <3>7
  <2>6. CASE edits[c].kind = "insert" /\ edits[c].start = p
    <3>1. PICK o : o = place[c]
      OBVIOUS
    <3>2. o \in 1..n /\ es[o] = edits[c] /\ o - 1 \in 0..n /\ o \in Nat
      <4>1. es[place[c]] = edits[c] /\ place[c] \in 1..n
        BY <1>4, <2>1
      <4>2. o \in 1..n /\ es[o] = edits[c]
        BY <3>1, <4>1, Zenon
      <4> QED
        BY <1>1, <4>2
    <3>3. ~(c <= i)
      BY <2>1
    <3>4. m < o /\ m \in Nat /\ o - 1 \in m..n
      <4>1. ~(o <= m)
        BY <2>1, <2>3, <2>6, <3>1, <3>3
      <4> QED
        BY <1>1, <2>3, <3>2, <4>1
    <3>5. ASSUME NEW j \in 1..n, edits[j].kind = "insert", edits[j].start = p
          PROVE  (j <= c <=> place[j] <= o) /\ ~(m + 1 <= place[j] /\ place[j] <= o - 1)
      <4>1. CASE j = c
        BY <3>1, <3>2, <3>4, <4>1
      <4>2. CASE j < c
        <5>1. j <= i
          BY <2>1, <4>2
        <5>2. place[j] <= m
          BY <2>3, <3>5, <5>1
        <5>3. place[j] \in Nat /\ o \in Nat
          BY <1>6, <3>2
        <5>4. PICK b \in Nat : b = place[j]
          BY <5>3
        <5>5. b <= m /\ j <= c
          BY <2>1, <4>2, <5>2, <5>4
        <5>6. b <= o /\ ~(m + 1 <= b)
          BY <3>2, <3>4, <5>5
        <5> QED
          BY <5>4, <5>5, <5>6
      <4>3. CASE c < j
        <5>1. edits[c].start = edits[j].start /\ edits[c].kind = edits[j].kind
          BY <2>6, <3>5
        <5>2. place[c] < place[j]
          BY <1>3, <2>1, <4>3, <5>1 DEF ByPosition
        <5>3. o < place[j] /\ place[j] \in Nat
          BY <1>6, <3>1, <5>2
        <5> QED
          BY <2>1, <3>2, <4>3, <5>3
      <4>4. j = c \/ j < c \/ c < j
        BY <2>1
      <4> QED
        BY <4>1, <4>2, <4>3, <4>4
    <3>6. \A q \in (m + 1)..(o - 1) : TextAt(es[q], p) = <<>>
      <4>1. ASSUME NEW q \in (m + 1)..(o - 1) PROVE TextAt(es[q], p) = <<>>
        <5>1. q \in 1..n /\ m + 1 <= q /\ q <= o - 1
          BY <1>1, <3>2, <3>4
        <5>2. PICK j \in 1..n : place[j] = q
          BY <1>4, <5>1
        <5>3. es[q] = edits[j]
          BY <1>4, <5>2
        <5>4. ~(edits[j].kind = "insert" /\ edits[j].start = p)
          BY <3>5, <5>1, <5>2
        <5> QED
          BY <5>3, <5>4 DEF TextAt
      <4> QED
        BY <4>1
    <3>7. Early(es, p, o - 1) = Early(es, p, m)
      <4>1. PICK l : l = o - 1
        OBVIOUS
      <4>2. m \in 0..Len(es) /\ l \in m..Len(es) /\ \A q \in (m + 1)..l : TextAt(es[q], p) = <<>>
        BY <1>4, <2>3, <3>4, <3>6, <4>1
      <4>3. Early(es, p, l) = Early(es, p, m)
        BY <1>5, <4>2, EarlySkips
      <4> QED
        BY <4>1, <4>3, Zenon
    <3>8. Early(es, p, o) = AddPart(Early(es, p, o - 1), TextAt(es[o], p))
      BY <1>4, <1>5, <3>2, EarlyStates
    <3>9. Early(edits, p, c) = Early(es, p, o)
      BY <2>3, <2>4, <3>2, <3>7, <3>8, Zenon
    <3>10. Matched(edits, es, place, p, c, o)
      <4>1. o \in 0..n
        BY <1>1, <3>2
      <4> QED
        BY <3>5, <3>9, <4>1 DEF Matched
    <3> QED
      BY <3>10
  <2> QED
    BY <2>5, <2>6
<1>9. \A i \in Nat : i \in S
  <2> HIDE DEF S
  <2> QED
    BY <1>7, <1>8, Refs!SetInduction
<1>10. PICK m : Matched(edits, es, place, p, n, m)
  BY <1>1, <1>9
<1>11. /\ m \in 0..n /\ Early(edits, p, n) = Early(es, p, m)
       /\ \A j \in 1..n : edits[j].kind = "insert" /\ edits[j].start = p => (j <= n <=> place[j] <= m)
  BY <1>10 DEF Matched
<1>12. Early(es, p, n) = Early(es, p, m)
  <2>1. ASSUME NEW q \in (m + 1)..n PROVE TextAt(es[q], p) = <<>>
    <3>1. q \in 1..n /\ ~(q <= m)
      BY <1>1, <1>11
    <3>2. PICK j \in 1..n : place[j] = q
      BY <1>4, <3>1
    <3>3. es[q] = edits[j] /\ j <= n
      BY <1>1, <1>4, <3>2
    <3>4. ~(edits[j].kind = "insert" /\ edits[j].start = p)
      BY <1>11, <3>1, <3>2, <3>3
    <3> QED
      BY <3>3, <3>4 DEF TextAt
  <2>2. m \in 0..Len(es) /\ n \in m..Len(es)
    BY <1>1, <1>4, <1>11
  <2> HIDE DEF n
  <2> QED
    BY <1>5, <2>1, <2>2, EarlySkips
<1>13. Inserted(edits, p) = Early(edits, p, n) /\ Inserted(es, p) = Early(es, p, n)
  <2>1. Inserted(edits, p) = Early(edits, p, Len(edits))
    BY <1>1, EarlyStates
  <2>2. Inserted(es, p) = Early(es, p, Len(es))
    BY <1>5, EarlyStates
  <2> QED
    BY <1>4, <2>1, <2>2, Zenon
<1> QED
  BY <1>1, <1>2, <1>5, <1>11, <1>12, <1>13

\* What is there of the text and the edits at one place.
Piece(text, edits, p) == Inserted(edits, p) \o Kept(text, edits, p)

\* The text the edits describe does not depend on their order, but for insertions at
\* one place.
LEMMA DescribedSorted ==
  ASSUME NEW text, IsSeq(text), NEW edits, edits \in Seq(EditOp)
  PROVE  Described(text, edits) = Described(text, SortEdits(edits))
<1>1. PICK es : es = SortEdits(edits)
  OBVIOUS
<1>2. PICK place : Rearranged(edits, es, place)
  BY <1>1, SortingPlaces
<1>3. Len(edits) \in Nat /\ DOMAIN edits = 1..Len(edits)
  BY SeqOver, SeqParts
<1>4. DOMAIN es = 1..Len(edits)
  BY <1>2, SeqParts DEF Rearranged
<1>5. ASSUME NEW p PROVE Kept(text, edits, p) = Kept(text, es, p)
  <2>1. ASSUME NEW k \in DOMAIN edits, Deletes(edits[k], p) PROVE \E i \in DOMAIN es : Deletes(es[i], p)
    <3>1. place[k] \in 1..Len(edits) /\ es[place[k]] = edits[k]
      BY <1>2, <1>3 DEF Rearranged
    <3>2. Deletes(es[place[k]], p)
      BY <2>1, <3>1
    <3> QED
      BY <1>4, <3>1, <3>2
  <2>2. ASSUME NEW i \in DOMAIN es, Deletes(es[i], p) PROVE \E k \in DOMAIN edits : Deletes(edits[k], p)
    <3>1. PICK k \in 1..Len(edits) : place[k] = i
      BY <1>2, <1>4 DEF Rearranged
    <3>2. es[i] = edits[k]
      BY <1>2, <3>1 DEF Rearranged
    <3>3. Deletes(edits[k], p)
      BY <2>2, <3>2
    <3> QED
      BY <1>3, <3>3
  <2> QED
    BY <2>1, <2>2, Zenon DEF Kept
<1>6. \A p : Inserted(edits, p) = Inserted(es, p)
  BY <1>1, Stable
<1>7. [k \in 1..(Len(text) + 1) |-> Inserted(edits, k - 1) \o Kept(text, edits, k - 1)]
        = [k \in 1..(Len(text) + 1) |-> Inserted(es, k - 1) \o Kept(text, es, k - 1)]
  BY <1>5, <1>6, Zenon
<1> QED
  BY <1>1, <1>7, Zenon DEF Described

\* What the edits describe of the text before a place.
Told(text, es, n) ==
  PartsOf([k \in 1..(Len(text) + 1) |-> Inserted(es, k - 1) \o Kept(text, es, k - 1)], n)

\* Place after place.
LEMMA ToldStates ==
  ASSUME NEW text, IsSeq(text), NEW es, EditsOnly(es)
  PROVE  /\ Told(text, es, 0) = <<>>
         /\ \A n \in 0..Len(text) : Told(text, es, n + 1) = AddPart(Told(text, es, n), Piece(text, es, n))
         /\ \A n \in 0..(Len(text) + 1) : IsSeq(Told(text, es, n))
         /\ \A n : IsSeq(Inserted(es, n)) /\ IsSeq(Kept(text, es, n))
         /\ Described(text, es) = Told(text, es, Len(text) + 1)
<1> DEFINE ps == [k \in 1..(Len(text) + 1) |-> Inserted(es, k - 1) \o Kept(text, es, k - 1)]
           l == Len(text) + 1
<1>1. Len(text) \in Nat /\ l \in Nat /\ Len(es) \in Nat
  BY SeqParts DEF EditsOnly
<1>2. ASSUME NEW n PROVE IsSeq(Inserted(es, n)) /\ IsSeq(Kept(text, es, n))
  <2>1. Inserted(es, n) = Early(es, n, Len(es)) /\ Len(es) \in 0..Len(es)
    BY <1>1, EarlyStates
  <2>2. IsSeq(Inserted(es, n))
    BY <2>1, EarlyStates
  <2>3. \A x : IsSeq(<<x>>)
    BY DEF IsSeq, Range
  <2>4. IsSeq(Kept(text, es, n))
    BY <2>3, SeqEmpty DEF Kept
  <2> QED
    BY <2>2, <2>4
<1>3. Len(ps) = l
  BY <1>1, SeqOfFunction
<1>4. \A k \in 1..l : ps[k] = Piece(text, es, k - 1)
  BY <1>1 DEF Piece
<1>5. \A n : Told(text, es, n) = PartsOf(ps, n)
  BY DEF Told
<1>6. Described(text, es) = PartsOf(ps, l)
  <2>1. Described(text, es) = Parts!After(<<>>, ps)
    BY Zenon DEF Described
  <2>2. Parts!After(<<>>, ps) = PartsOf(ps, Len(ps))
    BY DEF Parts!After, PartsOf
  <2> HIDE DEF ps
  <2> QED
    BY <1>3, <2>1, <2>2
<1> HIDE DEF ps
<1>7. \A k \in 1..l : IsSeq(ps[k])
  <2>1. \A n : IsSeq(Piece(text, es, n))
    BY <1>2, SeqConcat DEF Piece
  <2> QED
    BY <1>4, <2>1
<1>8. /\ PartsOf(ps, 0) = <<>>
      /\ \A n \in 1..l : PartsOf(ps, n) = AddPart(PartsOf(ps, n - 1), ps[n])
      /\ \A n \in 0..l : IsSeq(PartsOf(ps, n))
  BY <1>1, <1>3, <1>7, PartStates
<1>9. ASSUME NEW n \in 0..Len(text)
      PROVE  Told(text, es, n + 1) = AddPart(Told(text, es, n), Piece(text, es, n))
  <2>1. PICK m : m = n + 1
    OBVIOUS
  <2>2. m \in 1..l /\ m - 1 = n
    BY <1>1, <2>1
  <2>3. PartsOf(ps, m) = AddPart(PartsOf(ps, m - 1), ps[m])
    BY <1>8, <2>2
  <2>4. ps[m] = Piece(text, es, n)
    BY <1>4, <2>2
  <2> QED
    BY <1>5, <2>1, <2>2, <2>3, <2>4, Zenon
<1> QED
  BY <1>2, <1>5, <1>6, <1>8, <1>9

\* A part of the text, if it is kept.
Stretch(text, a, b, kept) == IF kept THEN SubSeq(text, a + 1, b) ELSE <<>>

Grows(text, a, b, kept) ==
  Stretch(text, a, b, kept) \o Stretch(text, b, b + 1, kept) = Stretch(text, a, b + 1, kept)

\* It grows character by character.
LEMMA Stretches ==
  ASSUME NEW text, IsSeq(text), NEW a \in 0..Len(text), NEW b \in a..Len(text), NEW kept \in BOOLEAN
  PROVE  /\ IsSeq(Stretch(text, a, b, kept)) /\ Stretch(text, a, a, kept) = <<>>
         /\ b < Len(text) => Grows(text, a, b, kept)
<1>1. Len(text) \in Nat /\ a \in Nat /\ b \in Nat /\ a <= b /\ b <= Len(text) /\ b \in 0..Len(text)
  BY SeqParts
<1>2. IsSeq(Stretch(text, a, b, kept))
  BY SeqSub, SeqEmpty DEF Stretch
<1>3. Stretch(text, a, a, kept) = <<>>
  BY NoPart DEF Stretch
<1>4. ASSUME b < Len(text) PROVE Grows(text, a, b, kept)
  <2>1. CASE kept = FALSE
    <3>1. <<>> \o <<>> = <<>>
      BY SeqEmpty, EmptyConcat
    <3> QED
      BY <2>1, <3>1, Zenon DEF Grows, Stretch
  <2>2. CASE kept = TRUE
    <3>1. PICK c : c = b + 1
      OBVIOUS
    <3>2. c \in b..Len(text)
      BY <1>1, <1>4, <3>1
    <3>3. SubSeq(text, a + 1, b) \o SubSeq(text, b + 1, c) = SubSeq(text, a + 1, c)
      BY <3>2, SeqGlue
    <3> QED
      BY <2>2, <3>1, <3>3, Zenon DEF Grows, Stretch
  <2> QED
    BY <2>1, <2>2
<1> QED
  BY <1>2, <1>3, <1>4

\* Between two places nothing is inserted, and the text is kept, or none of it is.
Plain(text, es, a, b, kept) ==
  /\ \A p \in a..(b - 1) : Kept(text, es, p) = Stretch(text, p, p + 1, kept)
  /\ \A p \in (a + 1)..(b - 1) : Inserted(es, p) = <<>>

Passed(text, es, a, b, kept) ==
  Told(text, es, b) = (Told(text, es, a) \o Inserted(es, a)) \o Stretch(text, a, b, kept)

\* What the edits describe grows by that text.
LEMMA PassingStretch ==
  ASSUME NEW text, IsSeq(text), NEW es, EditsOnly(es), NEW kept \in BOOLEAN,
         NEW a \in 0..Len(text), NEW b \in a..Len(text), a < b, Plain(text, es, a, b, kept)
  PROVE  Passed(text, es, a, b, kept)
<1> DEFINE S == {d \in Nat : a + 1 + d <= b => Passed(text, es, a, a + 1 + d, kept)}
<1>1. Len(text) \in Nat /\ a \in Nat /\ b \in Nat /\ a < b /\ b <= Len(text) /\ a \in a..Len(text)
  BY SeqParts
<1>2. PICK t : t = Told(text, es, a)
  OBVIOUS
<1>3. PICK i : i = Inserted(es, a)
  OBVIOUS
<1>4. IsSeq(t) /\ IsSeq(i) /\ IsSeq(t \o i)
  <2>1. a \in 0..(Len(text) + 1)
    BY <1>1
  <2>2. IsSeq(t) /\ IsSeq(i)
    BY <1>2, <1>3, <2>1, ToldStates
  <2> QED
    BY <2>2, SeqConcat
<1>5. 0 \in S
  <2>1. PICK k : k = Kept(text, es, a)
    OBVIOUS
  <2>2. IsSeq(k)
    BY <2>1, ToldStates
  <2>3. a \in a..(b - 1) /\ a \in 0..Len(text)
    BY <1>1
  <2>4. k = Stretch(text, a, a + 1, kept)
    BY <2>1, <2>3, Zenon DEF Plain
  <2>5. Told(text, es, a + 1) = AddPart(t, Piece(text, es, a))
    BY <1>2, <2>3, ToldStates
  <2>6. Associates(t, i, k)
    BY <1>4, <2>2, SeqAssoc
  <2>7. Passed(text, es, a, a + 1, kept)
    BY <1>2, <1>3, <2>1, <2>4, <2>5, <2>6, Zenon DEF Passed, AddPart, Piece, Associates
  <2>8. a + 1 + 0 = a + 1
    BY <1>1
  <2> QED
    BY <2>7, <2>8
<1>6. ASSUME NEW d \in Nat, d \in S PROVE d + 1 \in S
  <2> DEFINE n == a + 1 + d
             m == a + 1 + (d + 1)
  <2> SUFFICES ASSUME m <= b PROVE Passed(text, es, a, m, kept)
    OBVIOUS
  <2>1. n <= b /\ n \in a..Len(text) /\ n \in 0..Len(text) /\ n < Len(text) /\ m = n + 1
        /\ n \in a..(b - 1) /\ n \in (a + 1)..(b - 1)
    BY <1>1
  <2>2. Passed(text, es, a, n, kept)
    BY <1>6, <2>1
  <2> HIDE DEF n, m
  <2>3. PICK s : s = Stretch(text, a, n, kept)
    OBVIOUS
  <2>4. PICK k : k = Kept(text, es, n)
    OBVIOUS
  <2>5. IsSeq(s) /\ IsSeq(k)
    <3>1. IsSeq(s)
      BY <2>1, <2>3, Stretches
    <3>2. IsSeq(k)
      BY <2>4, ToldStates
    <3> QED
      BY <3>1, <3>2
  <2>6. k = Stretch(text, n, n + 1, kept) /\ Inserted(es, n) = <<>>
    BY <2>1, <2>4 DEF Plain
  <2>7. Told(text, es, n + 1) = AddPart(Told(text, es, n), Piece(text, es, n))
    BY <2>1, ToldStates
  <2>8. Piece(text, es, n) = k
    <3>1. <<>> \o k = k
      BY <2>5, EmptyConcat
    <3> QED
      BY <2>4, <2>6, <3>1, Zenon DEF Piece
  <2>9. PICK ti : ti = t \o i
    OBVIOUS
  <2>10. Associates(ti, s, k)
    BY <1>4, <2>5, <2>9, SeqAssoc
  <2>11. Grows(text, a, n, kept)
    BY <2>1, Stretches
  <2>12. Told(text, es, n) = ti \o s
    BY <1>2, <1>3, <2>2, <2>3, <2>9, Zenon DEF Passed
  <2>13. Told(text, es, n + 1) = ti \o Stretch(text, a, n + 1, kept)
    BY <2>3, <2>6, <2>7, <2>8, <2>10, <2>11, <2>12, Zenon DEF AddPart, Associates, Grows
  <2> QED
    BY <1>2, <1>3, <2>1, <2>9, <2>13, Zenon DEF Passed
<1>7. \A d \in Nat : d \in S
  <2> HIDE DEF S
  <2> QED
    BY <1>5, <1>6, Refs!SetInduction
<1>8. PICK d \in Nat : a + 1 + d = b
  <2>1. b - a - 1 \in Nat /\ a + 1 + (b - a - 1) = b
    BY <1>1
  <2> QED
    BY <2>1
<1>9. d \in S
  BY <1>7
<1> QED
  BY <1>1, <1>8, <1>9

\* One character of a text.
LEMMA OnePart ==
  ASSUME NEW text, IsSeq(text), NEW p \in 0..(Len(text) - 1)
  PROVE  SubSeq(text, p + 1, p + 1) = <<text[p + 1]>>
<1>1. PICK q : q = p + 1
  OBVIOUS
<1>2. p \in 0..Len(text) /\ q \in p..Len(text) /\ q - p = 1 /\ 1 \in 1..1
  BY <1>1, SeqParts
<1>3. PICK b : b = SubSeq(text, p + 1, q)
  OBVIOUS
<1>4. IsSeq(b) /\ Len(b) = q - p /\ \A i \in 1..(q - p) : b[i] = text[p + i]
  BY <1>2, <1>3, SeqSub
<1>5. PICK c : c = <<text[p + 1]>>
  OBVIOUS
<1>6. IsSeq(c) /\ Len(c) = 1 /\ c[1] = text[p + 1]
  BY <1>5 DEF IsSeq, Range
<1>7. Len(b) = 1 /\ b[1] = c[1]
  BY <1>2, <1>4, <1>6
<1>8. b = c
  BY <1>4, <1>6, <1>7, SeqSame
<1> QED
  BY <1>1, <1>3, <1>5, <1>8, Zenon

-----------------------------------------------------------------------------
(* The edits of a batch, one after the other *)

\* Sorted edits of which each starts where those before it have ended.
Chained(text, es) ==
  /\ EditsOnly(es)
  /\ \A k \in 1..Len(es) : InBounds(text, es[k])
  /\ \A j, k \in 1..Len(es) : j < k => es[j].end <= es[k].start

\* The first k edits are made and the text is there up to the place a: so far it is
\* as they describe it.
ReachedAt(text, es, k, a, out) == out = Told(text, es, a) \o Early(es, a, k)

\* The first k edits start before the stretch, the others behind it.
Clear(text, es, k, a, b, kept) ==
  /\ \A j \in 1..Len(es) : (j <= k => es[j].start <= a) /\ (k < j => b <= es[j].start)
  /\ \A p \in a..(b - 1) : Kept(text, es, p) = Stretch(text, p, p + 1, kept)

\* The stretch follows as it is described.
LEMMA Crossing ==
  ASSUME NEW text, IsSeq(text), NEW es, Chained(text, es), NEW k \in 0..Len(es),
         NEW a \in 0..Len(text), NEW b \in a..Len(text), NEW kept \in BOOLEAN,
         Clear(text, es, k, a, b, kept), NEW out, ReachedAt(text, es, k, a, out)
  PROVE  ReachedAt(text, es, k, b, out \o Stretch(text, a, b, kept))
<1> DEFINE n == Len(es)
<1>1. /\ n \in Nat /\ k \in Nat /\ k <= n /\ Len(text) \in Nat /\ EditsOnly(es)
      /\ a \in Nat /\ b \in Nat /\ a <= b /\ b <= Len(text)
  BY SeqParts DEF Chained, EditsOnly
<1>2. \A j \in 1..n : es[j].start \in Nat
  BY <1>1, EditParts DEF EditsOnly
<1>3. PICK e : e = Early(es, a, k)
  OBVIOUS
<1>4. PICK t : t = Told(text, es, a)
  OBVIOUS
<1>5. IsSeq(t) /\ IsSeq(e) /\ IsSeq(t \o e) /\ out = t \o e
  <2>1. a \in 0..(Len(text) + 1)
    BY <1>1
  <2>2. IsSeq(t)
    BY <1>1, <1>4, <2>1, ToldStates
  <2>3. IsSeq(e)
    BY <1>1, <1>3, EarlyStates
  <2>4. IsSeq(t \o e)
    BY <2>2, <2>3, SeqConcat
  <2> QED
    BY <1>3, <1>4, <2>2, <2>3, <2>4, Zenon DEF ReachedAt
<1>6. CASE a = b
  <2>1. Stretch(text, a, b, kept) = <<>>
    BY <1>6, Stretches
  <2>2. PICK o : o = out
    OBVIOUS
  <2>3. o \o <<>> = o
    BY <1>5, <2>2, EmptyConcat
  <2> QED
    BY <1>6, <2>1, <2>2, <2>3, Zenon
<1>7. CASE a < b
  <2>1. \A j \in 1..n : (j <= k => es[j].start <= a) /\ (k < j => b <= es[j].start)
    BY DEF Clear
  <2>2. ASSUME NEW p \in Nat, a < p, p < b PROVE Inserted(es, p) = <<>>
    <3>1. ASSUME NEW j \in 1..n PROVE TextAt(es[j], p) = <<>>
      <4>1. es[j].start <= a \/ b <= es[j].start
        BY <1>1, <2>1
      <4>2. es[j].start # p
        BY <1>1, <1>2, <2>2, <4>1
      <4> QED
        BY <4>2 DEF TextAt
    <3>2. 0 \in 0..n /\ n \in 0..n /\ 0 + 1 = 1
      BY <1>1
    <3>3. Early(es, p, n) = Early(es, p, 0)
      BY <1>1, <3>1, <3>2, EarlySkips
    <3>4. Early(es, p, 0) = <<>> /\ Inserted(es, p) = Early(es, p, n)
      BY <1>1, EarlyStates
    <3> QED
      BY <3>3, <3>4
  <2>3. Inserted(es, a) = e
    <3>1. ASSUME NEW j \in (k + 1)..n PROVE TextAt(es[j], a) = <<>>
      <4>1. j \in 1..n /\ k < j
        BY <1>1
      <4>2. b <= es[j].start
        BY <2>1, <4>1
      <4>3. es[j].start # a
        BY <1>1, <1>2, <1>7, <4>1, <4>2
      <4> QED
        BY <4>3 DEF TextAt
    <3>2. n \in k..n
      BY <1>1
    <3>3. Early(es, a, n) = Early(es, a, k)
      BY <1>1, <3>1, <3>2, EarlySkips
    <3>4. Inserted(es, a) = Early(es, a, n)
      BY <1>1, EarlyStates
    <3> QED
      BY <1>3, <3>3, <3>4
  <2>4. Early(es, b, k) = <<>>
    <3>1. ASSUME NEW j \in 1..k PROVE TextAt(es[j], b) = <<>>
      <4>1. j \in 1..n /\ j <= k
        BY <1>1
      <4>2. es[j].start <= a
        BY <2>1, <4>1
      <4>3. es[j].start # b
        BY <1>1, <1>2, <1>7, <4>1, <4>2
      <4> QED
        BY <4>3 DEF TextAt
    <3>2. 0 \in 0..n /\ k \in 0..n /\ 0 + 1 = 1
      BY <1>1
    <3>3. Early(es, b, k) = Early(es, b, 0)
      BY <1>1, <3>1, <3>2, EarlySkips
    <3>4. Early(es, b, 0) = <<>>
      BY <1>1, EarlyStates
    <3> QED
      BY <3>3, <3>4
  <2>5. Plain(text, es, a, b, kept)
    <3>1. \A p \in (a + 1)..(b - 1) : p \in Nat /\ a < p /\ p < b
      BY <1>1
    <3> QED
      BY <2>2, <3>1 DEF Plain, Clear
  <2>6. Passed(text, es, a, b, kept)
    BY <1>1, <1>7, <2>5, PassingStretch
  <2>7. PICK d : d = Told(text, es, b)
    OBVIOUS
  <2>8. IsSeq(d)
    <3>1. b \in 0..(Len(text) + 1)
      BY <1>1
    <3> QED
      BY <1>1, <2>7, <3>1, ToldStates
  <2>9. d \o <<>> = d
    BY <2>8, EmptyConcat
  <2>10. d = out \o Stretch(text, a, b, kept)
    BY <1>4, <1>5, <2>3, <2>6, <2>7, Zenon DEF Passed
  <2> QED
    BY <2>4, <2>7, <2>9, <2>10, Zenon DEF ReachedAt
<1> QED
  BY <1>1, <1>6, <1>7

\* Where the first k edits end.
LastEnd(es, k) == IF k = 0 THEN 0 ELSE es[k].end

\* One edit more.
LEMMA TellStep ==
  ASSUME NEW text, IsSeq(text), NEW es, Chained(text, es), NEW k \in 1..Len(es),
         NEW w, WovenOK(text, w), w.at = LastEnd(es, k - 1), ReachedAt(text, es, k - 1, w.at, w.out)
  PROVE  LET v == Weave(w, Edited(es[k]))
         IN WovenOK(text, v) /\ v.at = LastEnd(es, k) /\ ReachedAt(text, es, k, v.at, v.out)
<1> DEFINE n == Len(es)
           v == Weave(w, Edited(es[k]))
<1>1. n \in Nat /\ k \in Nat /\ 1 <= k /\ k <= n /\ Len(text) \in Nat /\ EditsOnly(es)
  BY SeqParts DEF Chained, EditsOnly
<1>2. /\ \A j \in 1..n : es[j] \in EditOp /\ InBounds(text, es[j])
      /\ \A i, j \in 1..n : i < j => es[i].end <= es[j].start
  BY DEF Chained, EditsOnly
<1>3. \A j \in 1..n : /\ es[j].start \in Nat /\ es[j].end \in Nat /\ es[j].start <= es[j].end
                      /\ es[j].end <= Len(text)
                      /\ es[j].kind = "insert" => es[j].start = es[j].end
  BY <1>1, <1>2, EditParts DEF InBounds
<1>4. PICK e : e = es[k]
  OBVIOUS
<1>5. PICK a \in 0..Len(text) : a = w.at
  BY DEF WovenOK
<1>6. PICK s \in Nat : s = e.start
  BY <1>3, <1>4
<1>7. PICK f \in Nat : f = e.end
  BY <1>3, <1>4
<1>8. /\ s <= f /\ f <= Len(text) /\ (e.kind = "insert" => s = f)
      /\ e.kind \in {"insert", "delete"} /\ IsSeq(e.text) /\ (e.kind = "delete" => e.text = <<>>)
  BY <1>2, <1>3, <1>4, <1>6, <1>7, EditParts
<1>9. PICK h \in Nat : h = k - 1
  BY <1>1
<1>10. a \in Nat /\ h <= n /\ h \in 0..n
  BY <1>1, <1>9
<1>11. \A j \in 1..n : (j <= h => es[j].end <= a) /\ (h < j => s <= es[j].start) /\ (k < j => f <= es[j].start)
  <2>1. ASSUME NEW j \in 1..n, j <= h PROVE es[j].end <= a
    <3>1. h # 0 /\ h \in 1..n
      BY <1>1, <1>10, <2>1
    <3>2. a = es[h].end
      BY <1>5, <1>9, <3>1 DEF LastEnd
    <3>3. CASE j = h
      BY <1>10, <3>2, <3>3
    <3>4. CASE j < h
      <4>1. es[j].end <= es[h].start
        BY <1>2, <3>1, <3>4
      <4> QED
        BY <1>3, <3>1, <3>2, <4>1
    <3> QED
      BY <2>1, <3>3, <3>4
  <2>2. ASSUME NEW j \in 1..n, k < j PROVE f <= es[j].start
    BY <1>2, <1>4, <1>7, <2>2
  <2>3. ASSUME NEW j \in 1..n, h < j PROVE s <= es[j].start
    <3>1. j = k \/ k < j
      BY <1>1, <1>9, <2>3
    <3>2. CASE j = k
      BY <1>4, <1>6, <3>2
    <3>3. CASE k < j
      <4>1. f <= es[j].start /\ es[j].start \in Nat
        BY <1>3, <2>2, <3>3
      <4> QED
        BY <1>8, <4>1
    <3> QED
      BY <3>1, <3>2, <3>3
  <2> QED
    BY <2>1, <2>2, <2>3
<1>12. a <= s
  <2>1. CASE h = 0
    BY <1>5, <1>9, <2>1 DEF LastEnd
  <2>2. CASE h # 0
    <3>1. h \in 1..n /\ h < k
      BY <1>1, <1>9, <1>10, <2>2
    <3>2. a = es[h].end
      BY <1>5, <1>9, <2>2 DEF LastEnd
    <3> QED
      BY <1>2, <1>4, <1>6, <3>1, <3>2
  <2> QED
    BY <2>1, <2>2
<1>13. DOMAIN es = 1..n
  BY SeqParts DEF EditsOnly, Chained
<1>14. PICK o : o = w.out
  OBVIOUS
<1>15. PICK m : m = o \o SubSeq(text, a + 1, s)
  OBVIOUS
<1>16. ReachedAt(text, es, h, s, m)
  <2>1. ASSUME NEW p \in a..(s - 1) PROVE Kept(text, es, p) = Stretch(text, p, p + 1, TRUE)
    <3>1. p \in Nat /\ a <= p /\ p < s /\ p < Len(text)
      BY <1>8, <1>10
    <3>2. ASSUME NEW j \in 1..n PROVE ~Deletes(es[j], p)
      <4>1. es[j].end <= a \/ s <= es[j].start
        BY <1>9, <1>11
      <4>2. ~(p \in es[j].start..(es[j].end - 1))
        BY <1>3, <1>10, <3>1, <4>1
      <4> QED
        BY <4>2 DEF Deletes
    <3>3. Kept(text, es, p) = <<text[p + 1]>>
      BY <1>13, <3>1, <3>2 DEF Kept
    <3>4. SubSeq(text, p + 1, p + 1) = <<text[p + 1]>>
      <4>1. p \in 0..(Len(text) - 1)
        BY <1>1, <3>1
      <4> QED
        BY <4>1, OnePart
    <3> QED
      BY <3>3, <3>4, Zenon DEF Stretch
  <2>2. \A j \in 1..n : (j <= h => es[j].start <= a) /\ (h < j => s <= es[j].start)
    BY <1>3, <1>10, <1>11
  <2>3. Clear(text, es, h, a, s, TRUE)
    BY <2>1, <2>2 DEF Clear
  <2>4. s \in a..Len(text) /\ ReachedAt(text, es, h, a, o)
    BY <1>1, <1>5, <1>8, <1>9, <1>12, <1>14
  <2>5. ReachedAt(text, es, h, s, o \o Stretch(text, a, s, TRUE))
    BY <1>10, <2>3, <2>4, Crossing
  <2> QED
    BY <1>15, <2>5, Zenon DEF Stretch
<1>17. PICK d : d = Told(text, es, s)
  OBVIOUS
<1>18. PICK y : y = Early(es, s, h)
  OBVIOUS
<1>19. IsSeq(d) /\ IsSeq(y)
  <2>1. s \in 0..(Len(text) + 1)
    BY <1>1, <1>8
  <2>2. IsSeq(d)
    BY <1>1, <1>17, <2>1, ToldStates
  <2>3. IsSeq(y)
    BY <1>1, <1>10, <1>18, EarlyStates
  <2> QED
    BY <2>2, <2>3
<1>20. m = d \o y
  BY <1>16, <1>17, <1>18, Zenon DEF ReachedAt
<1>21. Early(es, s, k) = y \o e.text
  <2>1. Early(es, s, k) = AddPart(Early(es, s, k - 1), TextAt(es[k], s))
    BY <1>1, EarlyStates
  <2>2. TextAt(es[k], s) = e.text
    BY <1>4, <1>6, <1>8 DEF TextAt
  <2> QED
    BY <1>9, <1>18, <2>1, <2>2, Zenon DEF AddPart
<1>22. PICK x : x = e.text
  OBVIOUS
<1>23. PICK z : z = m \o x
  OBVIOUS
<1>24. ReachedAt(text, es, k, s, z)
  <2>1. Associates(d, y, x)
    BY <1>8, <1>19, <1>22, SeqAssoc
  <2> QED
    BY <1>17, <1>20, <1>21, <1>22, <1>23, <2>1, Zenon DEF ReachedAt, Associates
<1>25. /\ w.base = text /\ Edited(es[k]).os = s /\ Edited(es[k]).oe = f /\ Edited(es[k]).text = x
  BY <1>4, <1>6, <1>7, <1>22 DEF Edited, WovenOK
<1>26. v.base = text /\ v.at = f /\ v.out = z
  BY <1>5, <1>14, <1>15, <1>23, <1>25 DEF Weave
<1>27. WovenOK(text, v)
  <2>1. ReplOK(text, Edited(es[k])) /\ w.at <= Edited(es[k]).os
    BY <1>1, <1>5, <1>8, <1>12, <1>22, <1>25 DEF ReplOK
  <2> QED
    BY <2>1, WeaveParts
<1>28. v.at = LastEnd(es, k)
  BY <1>1, <1>4, <1>7, <1>26 DEF LastEnd
<1> HIDE DEF v
<1>29. ReachedAt(text, es, k, f, z)
  <2>1. CASE s = f
    BY <1>24, <2>1
  <2>2. CASE s # f
    <3>1. e.kind = "delete" /\ s < f
      BY <1>8, <2>2
    <3>2. ASSUME NEW p \in s..(f - 1) PROVE Kept(text, es, p) = Stretch(text, p, p + 1, FALSE)
      <4>1. Deletes(es[k], p)
        BY <1>4, <1>6, <1>7, <3>1 DEF Deletes
      <4> QED
        BY <1>13, <4>1 DEF Kept, Stretch
    <3>3. \A j \in 1..n : (j <= k => es[j].start <= s) /\ (k < j => f <= es[j].start)
      <4>1. ASSUME NEW j \in 1..n, j <= k PROVE es[j].start <= s
        <5>1. j = k \/ j <= h
          BY <1>1, <1>9, <4>1
        <5>2. CASE j = k
          BY <1>4, <1>6, <5>2
        <5>3. CASE j <= h
          <6>1. es[j].end <= a /\ es[j].start <= es[j].end /\ es[j].start \in Nat /\ es[j].end \in Nat
            BY <1>3, <1>11, <5>3
          <6> QED
            BY <1>10, <1>12, <6>1
        <5> QED
          BY <5>1, <5>2, <5>3
      <4> QED
        BY <1>11, <4>1
    <3>4. Clear(text, es, k, s, f, FALSE)
      BY <3>2, <3>3 DEF Clear
    <3>5. s \in 0..Len(text) /\ f \in s..Len(text) /\ k \in 0..n
      BY <1>1, <1>8
    <3>6. ReachedAt(text, es, k, f, z \o Stretch(text, s, f, FALSE))
      BY <1>24, <3>4, <3>5, Crossing
    <3>7. IsSeq(z)
      BY <1>26, <1>27 DEF WovenOK
    <3>8. z \o <<>> = z
      BY <3>7, EmptyConcat
    <3> QED
      BY <3>6, <3>8, Zenon DEF Stretch
  <2> QED
    BY <2>1, <2>2
<1> QED
  BY <1>26, <1>27, <1>28, <1>29 DEF v

\* EditsOnly that are made one after the other do not overlap.
LEMMA Chain ==
  ASSUME NEW text, IsSeq(text), NEW es, EditsOnly(es), \A k \in 1..Len(es) : InBounds(text, es[k]),
         NEW at, at \in [0..Len(es) -> Nat],
         \A k \in 1..Len(es) : at[k] = es[k].end /\ at[k - 1] <= es[k].start
  PROVE  Chained(text, es)
<1> DEFINE n == Len(es)
           S == {j \in Nat : j <= n => \A i \in 0..j : at[i] <= at[j]}
<1>1. n \in Nat
  BY SeqParts DEF EditsOnly
<1>2. \A k \in 1..n : es[k].start \in Nat /\ es[k].end \in Nat /\ es[k].start <= es[k].end
  BY EditParts DEF EditsOnly, InBounds
<1>3. \A k \in 0..n : at[k] \in Nat
  OBVIOUS
<1>4. 0 \in S
  <2>1. at[0] \in Nat
    BY <1>1, <1>3
  <2>2. \A i \in 0..0 : i = 0
    OBVIOUS
  <2> QED
    BY <2>1, <2>2
<1>5. ASSUME NEW j \in Nat, j \in S PROVE j + 1 \in S
  <2> DEFINE m == j + 1
  <2> SUFFICES ASSUME m <= n, NEW i \in 0..m PROVE at[i] <= at[m]
    OBVIOUS
  <2>1. m \in 1..n /\ m - 1 = j /\ j \in 0..n /\ m \in 0..n /\ i \in 0..n
    BY <1>1
  <2>2. i = m \/ i \in 0..j
    BY <2>1
  <2> HIDE DEF m
  <2>3. at[j] <= es[m].start /\ at[m] = es[m].end
    BY <2>1
  <2>4. at[j] \in Nat /\ at[m] \in Nat /\ at[i] \in Nat /\ es[m].start \in Nat
        /\ es[m].start <= es[m].end
    BY <1>2, <1>3, <2>1
  <2>5. CASE i = m
    BY <2>4, <2>5
  <2>6. CASE i \in 0..j
    <3>1. at[i] <= at[j]
      BY <1>1, <1>5, <2>1, <2>6
    <3> QED
      BY <2>3, <2>4, <3>1
  <2> QED
    BY <2>2, <2>5, <2>6
<1>6. \A j \in Nat : j \in S
  <2> HIDE DEF S
  <2> QED
    BY <1>4, <1>5, Refs!SetInduction
<1>7. ASSUME NEW i \in 1..n, NEW j \in 1..n, i < j PROVE es[i].end <= es[j].start
  <2>1. j - 1 \in Nat /\ j - 1 <= n /\ i \in 0..(j - 1) /\ i \in 0..n /\ j - 1 \in 0..n
    BY <1>1, <1>7
  <2>2. at[i] <= at[j - 1]
    BY <1>6, <2>1
  <2>3. at[i] = es[i].end /\ at[j - 1] <= es[j].start
    OBVIOUS
  <2>4. at[i] \in Nat /\ at[j - 1] \in Nat /\ es[j].start \in Nat
    BY <1>2, <1>3, <2>1
  <2> QED
    BY <2>2, <2>3, <2>4
<1> QED
  BY <1>7 DEF Chained

\* The edits of a batch whose replacements do not overlap make of the text what they
\* describe.
LEMMA Telling ==
  ASSUME NEW text, IsSeq(text), NEW edits, edits \in Seq(EditOp),
         \A k \in DOMAIN edits : InBounds(text, edits[k]), ~Overlap(Replacements(edits))
  PROVE  Whole(Woven(text, Replacements(edits))) = Described(text, edits)
<1>1. PICK es : es = SortEdits(edits)
  OBVIOUS
<1> DEFINE n == Len(es)
           W(k) == Spinning(text, es, k)
           x == [base |-> text, out |-> <<>>, at |-> 0]
           at == [k \in 0..n |-> LastEnd(es, k)]
           Good(k) == WovenOK(text, W(k)) /\ W(k).at = LastEnd(es, k) /\ ReachedAt(text, es, k, W(k).at, W(k).out)
           S == {k \in Nat : k <= n => Good(k)}
<1>2. EditsOnly(es) /\ EditsOnly(edits)
  BY <1>1, Stable
<1>3. n \in Nat /\ Len(text) \in Nat /\ Len(edits) = n /\ DOMAIN edits = 1..n
  <2>1. n = Len(edits)
    BY <1>1, Sorting
  <2> QED
    BY <1>2, <2>1, SeqParts DEF EditsOnly
<1>4. \A k \in 1..n : InBounds(text, es[k])
  <2>1. ASSUME NEW i \in 1..n PROVE InBounds(text, es[i])
    <3>1. PICK k \in 1..Len(edits) : es[i] = edits[k]
      BY <1>1, <1>3, Sorting
    <3> QED
      BY <1>3, <3>1
  <2> QED
    BY <2>1
<1>5. /\ W(0) = x
      /\ \A k \in 1..n : W(k) = Weave(W(k - 1), Edited(es[k])) /\ W(k - 1).at <= es[k].start
      /\ W(n) = Woven(text, Replacements(edits))
  BY <1>1, Linking
<1> HIDE DEF W
<1>6. Chained(text, es)
  <2>1. \A k \in 1..n : es[k].start \in Nat /\ es[k].end \in Nat
    BY <1>2, EditParts DEF EditsOnly
  <2>2. at \in [0..n -> Nat]
    <3>1. ASSUME NEW k \in 0..n PROVE LastEnd(es, k) \in Nat
      <4>1. k = 0 \/ k \in 1..n
        BY <1>3
      <4> QED
        BY <2>1, <4>1 DEF LastEnd
    <3> QED
      BY <3>1
  <2>3. \A k \in 0..n : W(k).at = LastEnd(es, k)
    <3>1. W(0).at = 0
      BY <1>5
    <3>2. \A k \in 1..n : W(k).at = es[k].end
      BY <1>5 DEF Weave, Edited
    <3>3. \A k \in 0..n : k = 0 \/ (k \in 1..n /\ k # 0)
      BY <1>3
    <3> QED
      BY <3>1, <3>2, <3>3 DEF LastEnd
  <2>4. ASSUME NEW k \in 1..n PROVE at[k] = es[k].end /\ at[k - 1] <= es[k].start
    <3>1. k \in 0..n /\ k - 1 \in 0..n /\ k # 0
      BY <1>3
    <3>2. at[k] = es[k].end
      BY <3>1 DEF LastEnd
    <3>3. at[k - 1] = W(k - 1).at
      BY <2>3, <3>1
    <3> QED
      BY <1>5, <3>2, <3>3
  <2> HIDE DEF at
  <2> QED
    BY <1>2, <1>4, <2>2, <2>4, Chain
<1>7. 0 \in S
  <2>1. x.base = text /\ x.out = <<>> /\ x.at = 0 /\ x.at \in 0..Len(text)
    BY <1>3
  <2> HIDE DEF x
  <2>2. WovenOK(text, x) /\ x.at = LastEnd(es, 0)
    BY <2>1, SeqEmpty DEF WovenOK, LastEnd
  <2>3. Told(text, es, 0) = <<>> /\ Early(es, 0, 0) = <<>>
    BY <1>2, EarlyStates, ToldStates
  <2>4. <<>> \o <<>> = <<>>
    BY SeqEmpty, EmptyConcat
  <2>5. ReachedAt(text, es, 0, x.at, x.out)
    BY <2>1, <2>3, <2>4, Zenon DEF ReachedAt
  <2> QED
    BY <1>5, <2>2, <2>5
<1>8. ASSUME NEW j \in Nat, j \in S PROVE j + 1 \in S
  <2> DEFINE k == j + 1
  <2> SUFFICES ASSUME k <= n PROVE Good(k)
    OBVIOUS
  <2>1. k \in 1..n /\ k - 1 = j /\ j <= n
    BY <1>3
  <2>2. Good(j)
    <3> HIDE DEF Good
    <3> QED
      BY <1>8, <2>1
  <2> HIDE DEF k
  <2>3. PICK w : w = W(j)
    OBVIOUS
  <2>4. WovenOK(text, w) /\ w.at = LastEnd(es, k - 1) /\ ReachedAt(text, es, k - 1, w.at, w.out)
    BY <2>1, <2>2, <2>3, Zenon
  <2>5. PICK v : v = Weave(w, Edited(es[k]))
    OBVIOUS
  <2>6. WovenOK(text, v) /\ v.at = LastEnd(es, k) /\ ReachedAt(text, es, k, v.at, v.out)
    BY <1>6, <2>1, <2>4, <2>5, TellStep
  <2>7. W(k) = v
    BY <1>5, <2>1, <2>3, <2>5
  <2> QED
    BY <2>6, <2>7, Zenon
<1>9. \A k \in Nat : k \in S
  <2> HIDE DEF S
  <2> QED
    BY <1>7, <1>8, Refs!SetInduction
<1>10. PICK w : w = W(n)
  OBVIOUS
<1>11. WovenOK(text, w) /\ w.at = LastEnd(es, n) /\ ReachedAt(text, es, n, w.at, w.out)
  <2>1. Good(n)
    <3> HIDE DEF Good
    <3> QED
      BY <1>3, <1>9
  <2> QED
    BY <1>10, <2>1, Zenon
<1>12. PICK a \in 0..Len(text) : a = w.at
  BY <1>11 DEF WovenOK
<1>13. PICK b : b = Len(text)
  OBVIOUS
<1>14. b \in a..Len(text) /\ b \in Nat /\ a \in Nat /\ n \in 0..n
  BY <1>3, <1>12, <1>13
<1>15. \A j \in 1..n : es[j].start \in Nat /\ es[j].end \in Nat /\ es[j].start <= es[j].end
                       /\ es[j].end <= a
  <2>1. ASSUME NEW j \in 1..n
        PROVE  es[j].start \in Nat /\ es[j].end \in Nat /\ es[j].start <= es[j].end /\ es[j].end <= a
    <3>1. /\ es[j].start \in Nat /\ es[j].end \in Nat /\ es[j].start <= es[j].end
          /\ es[n].start \in Nat /\ es[n].end \in Nat /\ es[n].start <= es[n].end
      <4>1. n \in 1..n
        BY <1>3
      <4>2. es[j] \in EditOp /\ es[n] \in EditOp /\ InBounds(text, es[j]) /\ InBounds(text, es[n])
        BY <1>2, <1>4, <4>1 DEF EditsOnly
      <4> QED
        BY <4>2, EditParts DEF InBounds
    <3>2. a = es[n].end /\ n \in 1..n
      BY <1>3, <1>11, <1>12 DEF LastEnd
    <3>3. CASE j = n
      BY <3>1, <3>2, <3>3
    <3>4. CASE j < n
      <4>1. es[j].end <= es[n].start
        BY <1>6, <3>2, <3>4 DEF Chained
      <4> QED
        BY <3>1, <3>2, <4>1
    <3>5. j = n \/ j < n
      <4>1. PICK m \in Nat : m = n
        BY <1>3
      <4>2. j \in 1..m
        BY <4>1
      <4>3. j = m \/ j < m
        BY <4>2
      <4> QED
        BY <4>1, <4>3, Zenon
    <3> QED
      BY <3>1, <3>3, <3>4, <3>5, Zenon
  <2> QED
    BY <2>1
<1>16. Clear(text, es, n, a, b, TRUE)
  <2>1. \A j \in 1..n : (j <= n => es[j].start <= a) /\ (n < j => b <= es[j].start)
    BY <1>3, <1>14, <1>15
  <2>2. ASSUME NEW p \in a..(b - 1) PROVE Kept(text, es, p) = Stretch(text, p, p + 1, TRUE)
    <3>1. p \in Nat /\ a <= p /\ p < Len(text)
      BY <1>13, <1>14
    <3>2. ASSUME NEW j \in 1..n PROVE ~Deletes(es[j], p)
      <4>1. ~(p \in es[j].start..(es[j].end - 1))
        BY <1>14, <1>15, <3>1
      <4> QED
        BY <4>1 DEF Deletes
    <3>3. DOMAIN es = 1..n
      BY <1>2, SeqParts DEF EditsOnly
    <3>4. Kept(text, es, p) = <<text[p + 1]>>
      BY <3>1, <3>2, <3>3 DEF Kept
    <3>5. p \in 0..(Len(text) - 1)
      BY <1>3, <3>1
    <3>6. SubSeq(text, p + 1, p + 1) = <<text[p + 1]>>
      BY <3>5, OnePart
    <3> QED
      BY <3>4, <3>6, Zenon DEF Stretch
  <2> QED
    BY <2>1, <2>2 DEF Clear
<1>17. PICK out : out = w.out \o Stretch(text, a, b, TRUE)
  OBVIOUS
<1>18. ReachedAt(text, es, n, b, out)
  <2>1. PICK o : o = w.out
    OBVIOUS
  <2>2. ReachedAt(text, es, n, a, o)
    BY <1>11, <1>12, <2>1
  <2>3. n \in 0..Len(es)
    BY <1>14
  <2> HIDE DEF n
  <2>4. ReachedAt(text, es, n, b, o \o Stretch(text, a, b, TRUE))
    BY <1>6, <1>14, <1>16, <2>2, <2>3, Crossing
  <2> QED
    BY <1>17, <2>1, <2>4, Zenon
<1>19. Described(text, es) = out
  <2>1. Described(text, es) = Told(text, es, b + 1)
    BY <1>2, <1>13, ToldStates
  <2>2. Told(text, es, b + 1) = AddPart(Told(text, es, b), Piece(text, es, b))
    <3>1. b \in 0..Len(text)
      BY <1>13, <1>14
    <3> QED
      BY <1>2, <3>1, ToldStates
  <2>3. Inserted(es, b) = Early(es, b, n)
    BY <1>2, EarlyStates
  <2>4. Kept(text, es, b) = <<>>
    <3>1. ~(b < Len(text))
      BY <1>13, <1>14
    <3> QED
      BY <3>1 DEF Kept
  <2>5. PICK i : i = Inserted(es, b)
    OBVIOUS
  <2>6. IsSeq(i)
    BY <1>2, <2>5, ToldStates
  <2>7. i \o <<>> = i
    BY <2>6, EmptyConcat
  <2> QED
    BY <1>18, <2>1, <2>2, <2>3, <2>4, <2>5, <2>7, Zenon DEF AddPart, Piece, ReachedAt
<1>20. Whole(w) = out
  <2>1. w.base = text
    BY <1>11 DEF WovenOK
  <2> QED
    BY <1>12, <1>13, <1>17, <2>1, Zenon DEF Whole, Stretch
<1>21. Described(text, edits) = Described(text, es)
  BY <1>1, DescribedSorted
<1> QED
  BY <1>5, <1>10, <1>19, <1>20, <1>21, Zenon

\* The characters of a text that is replaced by as long a one have the numbers of its
\* bytes.
LEMMA Comparing ==
  ASSUME NEW text, IsSeq(text), NEW edits, Comparable(text, edits),
         ReplsOK(text, Replacements(edits)), NEW k \in 1..Len(Replacements(edits))
  PROVE  ComparesHere(text, Replacements(edits)[k])
<1>1. PICK repls : repls = Replacements(edits)
  OBVIOUS
<1>2. PICK r : r = repls[k]
  OBVIOUS
<1>3. DOMAIN repls = 1..Len(repls) /\ ReplOK(text, r)
  BY <1>1, <1>2, SeqParts DEF ReplsOK
<1>4. SameSize(r) => Range(SubSeq(text, 1, r.oe)) \intersect Continuation = {}
  BY <1>1, <1>2, <1>3, Zenon DEF Comparable
<1>5. ASSUME SameSize(r), NEW j \in 1..r.oe PROVE text[j] \notin Continuation
  <2>1. PICK e \in Nat : e = r.oe
    BY <1>3 DEF ReplOK
  <2>2. PICK s : s = SubSeq(text, 1, e)
    OBVIOUS
  <2>3. 0 \in 0..Len(text) /\ e \in 0..Len(text) /\ 0 + 1 = 1 /\ e - 0 = e
    BY <1>3, <2>1, SeqParts DEF ReplOK
  <2>4. IsSeq(s) /\ Len(s) = e /\ \A i \in 1..e : s[i] = text[0 + i]
    BY <2>2, <2>3, SeqSub
  <2>5. j \in 1..e /\ 0 + j = j
    BY <2>1
  <2>6. j \in DOMAIN s /\ s[j] = text[j]
    BY <2>4, <2>5, SeqParts
  <2>7. text[j] \in Range(s)
    BY <2>6 DEF Range
  <2> QED
    BY <1>4, <1>5, <2>1, <2>2, <2>7
<1> QED
  BY <1>1, <1>2, <1>5 DEF ComparesHere

\* A normalised batch has the effect its edits describe.
LEMMA BatchEffect ==
  ASSUME NEW text, IsSeq(text), NEW edits, edits \in Seq(EditOp), Comparable(text, edits)
  PROVE  Applied(text, edits)
<1>1. PICK repls : repls = Replacements(edits)
  OBVIOUS
<1>2. PICK splices : splices = Splices(text, repls)
  OBVIOUS
<1> SUFFICES ASSUME NormalizeEdits(text, edits).ok
             PROVE  ApplySplices(text, NormalizeEdits(text, edits).splices) = Described(text, edits)
  BY DEF Applied
<1>3. /\ \A k \in DOMAIN edits : InBounds(text, edits[k])
      /\ ~Overlap(Replacements(edits))
      /\ NormalizeEdits(text, edits).splices = Splices(text, Replacements(edits))
  BY DEF NormalizeEdits
<1>4. ReplsOK(text, repls) /\ ~Overlap(repls)
  BY <1>1, <1>3, Joining
<1>5. \A k \in 1..Len(repls) : ComparesHere(text, repls[k])
  BY <1>1, <1>4, Comparing
<1>6. SameSoFar(text, Woven(text, splices), Woven(text, repls))
  BY <1>2, <1>4, <1>5, Dropping
<1>7. ReplsOK(text, splices) /\ ~Overlap(splices)
  BY <1>2, <1>4, Adding, NormalRepls
<1>8. ApplySplices(text, splices) = Whole(Woven(text, splices))
  BY <1>7, Returned
<1>9. Whole(Woven(text, splices)) = Whole(Woven(text, repls))
  <2>1. PICK v : v = Woven(text, splices)
    OBVIOUS
  <2>2. PICK w : w = Woven(text, repls)
    OBVIOUS
  <2>3. SameSoFar(text, v, w)
    BY <1>6, <2>1, <2>2
  <2>4. v.base = text /\ w.base = text /\ w.at \in 0..Len(text) /\ Len(text) \in Nat
    BY <2>3, SeqParts DEF SameSoFar, WovenOK
  <2>5. PICK l : l = Len(text)
    OBVIOUS
  <2>6. l \in w.at..Len(text)
    BY <2>4, <2>5
  <2>7. SameUpTo(text, v, w, l)
    BY <2>3, <2>6, SameLater
  <2> QED
    BY <2>1, <2>2, <2>4, <2>5, <2>7, Zenon DEF SameUpTo, Whole
<1>10. Whole(Woven(text, repls)) = Described(text, edits)
  BY <1>1, <1>3, Telling
<1> QED
  BY <1>1, <1>2, <1>3, <1>8, <1>9, <1>10, Zenon
=============================================================================
