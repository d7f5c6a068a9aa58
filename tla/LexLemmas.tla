------------------------------ MODULE LexLemmas ------------------------------
(***************************************************************************)
(* What the operators of Lexer do: on tapes (projection to the semantic     *)
(* tape, widths and ranks, common ends, identities and patches), and in a   *)
(* scan, the replay of a splice and the derivation of a document.           *)
(***************************************************************************)
EXTENDS Lexer, TLAPS, SequenceTheorems, FiniteSetTheorems

\* A sequence of anything.
IsSeq(s) == s \in Seq(Range(s))

-----------------------------------------------------------------------------
(* Sequences of anything *)

\* A sequence over a set is a sequence.
LEMMA SeqOver ==
  ASSUME NEW S, NEW s \in Seq(S)
  PROVE  IsSeq(s) /\ \A k \in 1..Len(s) : s[k] \in S
BY DEF IsSeq, Range

\* Length and domain of a sequence.
LEMMA SeqParts ==
  ASSUME NEW s, IsSeq(s)
  PROVE  Len(s) \in Nat /\ DOMAIN s = 1..Len(s)
BY DEF IsSeq

\* A function on 1..n is a sequence of length n.
LEMMA SeqOfFunction ==
  ASSUME NEW n \in Nat, NEW s, DOMAIN s = 1..n, s = [k \in 1..n |-> s[k]]
  PROVE  IsSeq(s) /\ Len(s) = n
BY DEF IsSeq, Range

\* Two sequences with equal elements are equal.
LEMMA SeqSame ==
  ASSUME NEW a, NEW b, IsSeq(a), IsSeq(b), Len(a) = Len(b), \A k \in 1..Len(a) : a[k] = b[k]
  PROVE  a = b
BY DEF IsSeq

\* Two sequences are sequences over one set.
LEMMA SeqCommon ==
  ASSUME NEW a, NEW b, IsSeq(a), IsSeq(b)
  PROVE  \E S : a \in Seq(S) /\ b \in Seq(S)
<1> DEFINE S == Range(a) \cup Range(b)
<1>1. a \in Seq(S) /\ b \in Seq(S)
  BY DEF IsSeq, Range
<1> QED
  BY <1>1

\* A concatenation has the elements of both sequences, in order.
LEMMA SeqConcat ==
  ASSUME NEW a, NEW b, IsSeq(a), IsSeq(b)
  PROVE  /\ IsSeq(a \o b)
         /\ Len(a \o b) = Len(a) + Len(b)
         /\ \A k \in 1..Len(a) : (a \o b)[k] = a[k]
         /\ \A k \in 1..Len(b) : (a \o b)[Len(a) + k] = b[k]
<1>1. PICK S : a \in Seq(S) /\ b \in Seq(S)
  BY SeqCommon
<1>2. a \o b \in Seq(S)
  BY <1>1
<1>3. IsSeq(a \o b)
  BY <1>2, SeqOver
<1> QED
  BY <1>1, <1>3

\* Append adds its element behind the others.
LEMMA SeqAppend ==
  ASSUME NEW a, IsSeq(a), NEW x
  PROVE  /\ IsSeq(Append(a, x))
         /\ Len(Append(a, x)) = Len(a) + 1
         /\ \A k \in 1..Len(a) : Append(a, x)[k] = a[k]
         /\ Append(a, x)[Len(a) + 1] = x
<1> DEFINE S == Range(a) \cup {x}
<1>1. a \in Seq(S) /\ x \in S
  BY DEF IsSeq, Range
<1>2. Append(a, x) \in Seq(S)
  BY <1>1
<1> HIDE DEF S
<1>3. IsSeq(Append(a, x))
  BY <1>2, SeqOver
<1> QED
  BY <1>1, <1>3

\* A part of a sequence has its elements, counted from the start of the part.
LEMMA SeqSub ==
  ASSUME NEW a, IsSeq(a), NEW m \in 0..Len(a), NEW n \in m..Len(a)
  PROVE  /\ IsSeq(SubSeq(a, m + 1, n))
         /\ Len(SubSeq(a, m + 1, n)) = n - m
         /\ \A k \in 1..(n - m) : SubSeq(a, m + 1, n)[k] = a[m + k]
<1>1. a \in Seq(Range(a)) /\ Len(a) \in Nat
  BY DEF IsSeq
<1> DEFINE S == Range(a)
<1> HIDE DEF S
<1>2. SubSeq(a, m + 1, n) \in Seq(S)
  BY <1>1, SubSeqProperties DEF S
<1>3. IsSeq(SubSeq(a, m + 1, n))
  BY <1>2, SeqOver
<1>4. m + 1 \in 1..(Len(a) + 1) /\ n \in m..Len(a) /\ m \in Nat /\ n \in Nat
  BY <1>1
<1>5. Len(SubSeq(a, m + 1, n)) = n - m
  BY <1>1, <1>4, SubSeqProperties
<1>6. ASSUME NEW k \in 1..(n - m) PROVE SubSeq(a, m + 1, n)[k] = a[m + k]
  BY <1>1, <1>4, SubSeqProperties
<1> QED
  BY <1>3, <1>5, <1>6

\* The empty sequence is a sequence.
LEMMA SeqEmpty == IsSeq(<<>>) /\ Len(<<>>) = 0
BY DEF IsSeq, Range

\* A sequence is its beginning and its rest.
LEMMA SeqSplit ==
  ASSUME NEW a, IsSeq(a), NEW m \in 0..Len(a)
  PROVE  a = SubSeq(a, 1, m) \o SubSeq(a, m + 1, Len(a))
<1>1. Len(a) \in Nat /\ m \in Nat
  BY SeqParts
<1> DEFINE b == SubSeq(a, 0 + 1, m)
           c == SubSeq(a, m + 1, Len(a))
<1>2. IsSeq(b) /\ Len(b) = m /\ \A k \in 1..m : b[k] = a[k]
  <2>1. 0 \in 0..Len(a) /\ m \in 0..Len(a)
    BY <1>1
  <2>2. /\ IsSeq(b) /\ Len(b) = m - 0
        /\ \A k \in 1..(m - 0) : b[k] = a[0 + k]
    BY <2>1, SeqSub
  <2> QED
    BY <2>2, <1>1
<1>3. IsSeq(c) /\ Len(c) = Len(a) - m /\ \A k \in 1..(Len(a) - m) : c[k] = a[m + k]
  BY <1>1, SeqSub
<1> HIDE DEF b, c
<1>4. IsSeq(b \o c) /\ Len(b \o c) = Len(a)
  BY <1>1, <1>2, <1>3, SeqConcat
<1>5. ASSUME NEW k \in 1..Len(a) PROVE (b \o c)[k] = a[k]
  <2>1. CASE k <= m
    BY <2>1, <1>1, <1>2, <1>3, SeqConcat
  <2>2. CASE k > m
    <3>1. k - m \in 1..Len(c) /\ k = Len(b) + (k - m)
      BY <2>2, <1>1, <1>2, <1>3
    <3>2. (b \o c)[Len(b) + (k - m)] = c[k - m]
      BY <3>1, <1>2, <1>3, SeqConcat
    <3> QED
      BY <3>1, <3>2, <1>1, <1>2, <1>3
  <2>3. k <= m \/ k > m
    BY <1>1
  <2> QED
    BY <2>1, <2>2, <2>3
<1>6. b \o c = a
  BY <1>4, <1>5, SeqSame
<1>7. 0 + 1 = 1
  OBVIOUS
<1>8. SubSeq(a, 0 + 1, m) = SubSeq(a, 1, m)
  BY <1>7, Zenon
<1> QED
  BY <1>6, <1>8, Zenon DEF b, c

\* r is a with b in place of [m, n).
Replaced(a, m, n, b, r) ==
  /\ IsSeq(r) /\ Len(r) = Len(a) - (n - m) + Len(b)
  /\ \A k \in 1..m : r[k] = a[k]
  /\ \A k \in 1..Len(b) : r[m + k] = b[k]
  /\ \A k \in 1..(Len(a) - n) : r[m + Len(b) + k] = a[n + k]

\* ReplaceRange replaces.
LEMMA Replacing ==
  ASSUME NEW a, NEW b, IsSeq(a), IsSeq(b), NEW m \in 0..Len(a), NEW n \in m..Len(a)
  PROVE  Replaced(a, m, n, b, ReplaceRange(a, m, n, b))
<1>1. Len(a) \in Nat /\ Len(b) \in Nat /\ m \in Nat /\ n \in Nat /\ n \in 0..Len(a) /\ m <= n
  BY SeqParts
<1> DEFINE p == SubSeq(a, 0 + 1, m)
           q == SubSeq(a, n + 1, Len(a))
<1>2. IsSeq(p) /\ Len(p) = m /\ \A k \in 1..m : p[k] = a[k]
  <2>1. 0 \in 0..Len(a) /\ m \in 0..Len(a)
    BY <1>1
  <2>2. /\ IsSeq(p) /\ Len(p) = m - 0
        /\ \A k \in 1..(m - 0) : p[k] = a[0 + k]
    BY <2>1, SeqSub
  <2> QED
    BY <2>2, <1>1
<1>3. IsSeq(q) /\ Len(q) = Len(a) - n /\ \A k \in 1..(Len(a) - n) : q[k] = a[n + k]
  BY <1>1, SeqSub
<1>4. ReplaceRange(a, m, n, b) = (p \o b) \o q
  BY DEF ReplaceRange
<1> HIDE DEF p, q
<1>5. /\ IsSeq(p \o b) /\ Len(p \o b) = m + Len(b)
      /\ \A k \in 1..m : (p \o b)[k] = a[k]
      /\ \A k \in 1..Len(b) : (p \o b)[m + k] = b[k]
  BY <1>2, SeqConcat
<1> DEFINE c == p \o b
           r == c \o q
<1> HIDE DEF c
<1>6. IsSeq(c) /\ IsSeq(q)
  BY <1>3, <1>5 DEF c
<1>7. /\ IsSeq(r) /\ Len(r) = Len(c) + Len(q)
      /\ \A k \in 1..Len(c) : r[k] = c[k]
      /\ \A k \in 1..Len(q) : r[Len(c) + k] = q[k]
  BY <1>6, SeqConcat
<1>8. ReplaceRange(a, m, n, b) = r
  BY <1>4 DEF c
<1> HIDE DEF r
<1>9. Len(c) = m + Len(b) /\ (\A k \in 1..m : c[k] = a[k]) /\ \A k \in 1..Len(b) : c[m + k] = b[k]
  BY <1>5 DEF c
<1>10. Len(r) = Len(a) - (n - m) + Len(b)
  BY <1>1, <1>3, <1>7, <1>9
<1>11. \A k \in 1..m : r[k] = a[k]
  BY <1>1, <1>7, <1>9
<1>12. ASSUME NEW k \in 1..Len(b) PROVE r[m + k] = b[k]
  <2>1. m + k \in 1..Len(c)
    BY <1>1, <1>9
  <2> QED
    BY <2>1, <1>7, <1>9
<1>13. \A k \in 1..(Len(a) - n) : r[m + Len(b) + k] = a[n + k]
  BY <1>1, <1>3, <1>7, <1>9
<1>14. Replaced(a, m, n, b, r)
  BY <1>7, <1>10, <1>11, <1>12, <1>13 DEF Replaced
<1> QED
  BY <1>8, <1>14

\* Appending to a concatenation appends to its second part.
LEMMA AppendConcat ==
  ASSUME NEW a, NEW b, IsSeq(a), IsSeq(b), NEW x
  PROVE  Append(a \o b, x) = a \o Append(b, x)
<1>1. PICK S : a \in Seq(S) /\ b \in Seq(S)
  BY SeqCommon
<1> DEFINE T == S \cup {x}
<1>2. a \in Seq(T) /\ b \in Seq(T) /\ x \in T
  BY <1>1
<1> HIDE DEF T
<1> QED
  BY <1>2

\* The empty sequence is neutral in concatenations.
LEMMA EmptyConcat ==
  ASSUME NEW a, IsSeq(a)
  PROVE  a \o <<>> = a /\ <<>> \o a = a
<1>1. a \in Seq(Range(a))
  BY DEF IsSeq
<1> DEFINE T == Range(a)
<1> HIDE DEF T
<1>2. a \in Seq(T)
  BY <1>1 DEF T
<1> QED
  BY <1>2

-----------------------------------------------------------------------------
(* The semantic tape *)

\* Projecting on from some references appends to them.
LEMMA SemanticFrom ==
  ASSUME NEW tape, IsSeq(tape), NEW refs, IsSeq(refs)
  PROVE  \A n \in 0..Len(tape) :
           /\ IsSeq(Refs!States(<<>>, tape)[n])
           /\ Refs!States(refs, tape)[n] = refs \o Refs!States(<<>>, tape)[n]
<1> DEFINE A == Refs!States(<<>>, tape)
           B == Refs!States(refs, tape)
           S == {n \in Nat : n <= Len(tape) => IsSeq(A[n]) /\ B[n] = refs \o A[n]}
<1>1. /\ A[0] = <<>> /\ B[0] = refs
      /\ \A n \in 1..Len(tape) : A[n] = AddRef(A[n - 1], tape[n]) /\ B[n] = AddRef(B[n - 1], tape[n])
  BY SeqParts, Refs!Iterates
<1> HIDE DEF A, B
<1>2. 0 \in S
  BY <1>1, SeqEmpty, EmptyConcat
<1>3. ASSUME NEW n \in Nat, n \in S PROVE n + 1 \in S
  <2> SUFFICES ASSUME n + 1 <= Len(tape) PROVE IsSeq(A[n + 1]) /\ B[n + 1] = refs \o A[n + 1]
    OBVIOUS
  <2>1. n + 1 \in 1..Len(tape) /\ (n + 1) - 1 = n
    BY SeqParts
  <2>2. A[n + 1] = AddRef(A[n], tape[n + 1]) /\ B[n + 1] = AddRef(B[n], tape[n + 1])
    BY <1>1, <2>1
  <2>3. IsSeq(A[n]) /\ B[n] = refs \o A[n]
    BY <1>3, <2>1
  <2>4. CASE IsSemantic(tape[n + 1])
    <3> DEFINE x == ParseTokenRef(tape[n + 1])
    <3>1. A[n + 1] = Append(A[n], x) /\ B[n + 1] = Append(refs \o A[n], x)
      BY <2>2, <2>3, <2>4 DEF AddRef
    <3> HIDE DEF x
    <3>2. IsSeq(Append(A[n], x))
      BY <2>3, SeqAppend
    <3>3. Append(refs \o A[n], x) = refs \o Append(A[n], x)
      <4>1. IsSeq(A[n])
        BY <2>3
      <4> QED
        BY <4>1, AppendConcat
    <3> QED
      BY <3>1, <3>2, <3>3
  <2>5. CASE ~IsSemantic(tape[n + 1])
    BY <2>2, <2>3, <2>5 DEF AddRef
  <2> QED
    BY <2>4, <2>5
<1>4. \A n \in Nat : n \in S
  <2> HIDE DEF S
  <2> QED
    BY <1>2, <1>3, Refs!SetInduction
<1> QED
  BY <1>4, SeqParts DEF A, B

\* The semantic tape has a reference for every semantic entry and no other.
LEMMA SemanticParts ==
  ASSUME NEW tape, IsSeq(tape)
  PROVE  /\ IsSeq(Semantic(tape))
         /\ Range(Semantic(tape)) =
              {ParseTokenRef(tape[j]) : j \in {i \in 1..Len(tape) : IsSemantic(tape[i])}}
<1> DEFINE A == Refs!States(<<>>, tape)
           Good(n) == /\ IsSeq(A[n])
                      /\ Range(A[n]) = {ParseTokenRef(tape[j]) : j \in {i \in 1..n : IsSemantic(tape[i])}}
           S == {n \in Nat : n <= Len(tape) => Good(n)}
<1>0. Len(tape) \in Nat
  BY SeqParts
<1>1. A[0] = <<>> /\ \A n \in 1..Len(tape) : A[n] = AddRef(A[n - 1], tape[n])
  BY <1>0, Refs!Iterates
<1> HIDE DEF A
<1>2. 0 \in S
  BY <1>1, SeqEmpty DEF Range
<1>3. ASSUME NEW n \in Nat, n \in S PROVE n + 1 \in S
  <2> SUFFICES ASSUME n + 1 <= Len(tape) PROVE Good(n + 1)
    <3> HIDE DEF Good
    <3> QED
      OBVIOUS
  <2>1. n + 1 \in 1..Len(tape) /\ (n + 1) - 1 = n /\ n <= Len(tape)
    BY <1>0
  <2>2. A[n + 1] = AddRef(A[n], tape[n + 1])
    BY <1>1, <2>1
  <2>3. IsSeq(A[n]) /\ Range(A[n]) = {ParseTokenRef(tape[j]) : j \in {i \in 1..n : IsSemantic(tape[i])}}
    BY <1>3, <2>1
  <2> DEFINE x == ParseTokenRef(tape[n + 1])
             J(m) == {i \in 1..m : IsSemantic(tape[i])}
  <2>4. CASE IsSemantic(tape[n + 1])
    <3>1. A[n + 1] = Append(A[n], x)
      BY <2>2, <2>4 DEF AddRef
    <3>2. /\ IsSeq(Append(A[n], x)) /\ Len(Append(A[n], x)) = Len(A[n]) + 1
          /\ \A k \in 1..Len(A[n]) : Append(A[n], x)[k] = A[n][k]
          /\ Append(A[n], x)[Len(A[n]) + 1] = x
      <4> HIDE DEF x
      <4> QED
        BY <2>3, SeqAppend
    <3>3. Range(A[n + 1]) = Range(A[n]) \cup {x}
      <4>1. Len(A[n]) \in Nat /\ DOMAIN A[n] = 1..Len(A[n]) /\ DOMAIN A[n + 1] = 1..(Len(A[n]) + 1)
        BY <2>3, <3>1, <3>2, SeqParts
      <4> HIDE DEF x
      <4> QED
        BY <3>1, <3>2, <4>1 DEF Range
    <3>4. J(n + 1) = J(n) \cup {n + 1}
      BY <2>4
    <3> HIDE DEF J
    <3>5. {ParseTokenRef(tape[j]) : j \in J(n + 1)} = {ParseTokenRef(tape[j]) : j \in J(n)} \cup {x}
      BY <3>4
    <3> QED
      BY <2>3, <3>1, <3>2, <3>3, <3>5 DEF J
  <2>5. CASE ~IsSemantic(tape[n + 1])
    <3>1. A[n + 1] = A[n]
      BY <2>2, <2>5 DEF AddRef
    <3>2. J(n + 1) = J(n)
      BY <2>5
    <3> QED
      BY <2>3, <3>1, <3>2
  <2> QED
    BY <2>4, <2>5
<1>4. \A n \in Nat : n \in S
  <2> HIDE DEF S
  <2> QED
    BY <1>2, <1>3, Refs!SetInduction
<1>5. Good(Len(tape))
  BY <1>0, <1>4
<1> QED
  BY <1>5 DEF A, Semantic, Refs!After

\* The semantic tape of a concatenation.
LEMMA SemanticConcat ==
  ASSUME NEW a, NEW b, IsSeq(a), IsSeq(b)
  PROVE  Semantic(a \o b) = Semantic(a) \o Semantic(b)
<1> DEFINE c == a \o b
           x == Refs!States(<<>>, c)[Len(a)]
<1>1. Len(a) \in Nat /\ Len(b) \in Nat
  BY SeqParts
<1>2. /\ IsSeq(c) /\ Len(c) = Len(a) + Len(b)
      /\ \A k \in 1..Len(a) : c[k] = a[k]
      /\ \A k \in 1..Len(b) : c[Len(a) + k] = b[k]
  BY SeqConcat
<1> HIDE DEF c
<1>3. Len(c) \in Nat /\ Len(a) <= Len(c) /\ Len(a) <= Len(a)
  BY <1>1, <1>2
<1>4. x = Semantic(a)
  <2>1. \A k \in 0..Len(a) : Refs!States(<<>>, c)[k] = Refs!States(<<>>, a)[k]
    <3>1. \A k \in 1..Len(a) : c[k] = a[k]
      BY <1>2
    <3> QED
      BY <1>1, <1>3, <3>1, Refs!SamePrefix
  <2> QED
    BY <1>1, <2>1 DEF Semantic, Refs!After
<1>5. \A k \in 0..Len(b) : Refs!States(<<>>, c)[Len(a) + k] = Refs!States(x, b)[k]
  <2>1. Refs!Rest(<<>>, c, Len(a), x, b)
    BY <1>2 DEF Refs!Rest
  <2> HIDE DEF x
  <2> QED
    BY <1>1, <1>3, <2>1, Refs!Continues
<1> HIDE DEF x
<1>6. Semantic(c) = Refs!States(x, b)[Len(b)]
  BY <1>1, <1>2, <1>5 DEF Semantic, Refs!After
<1>7. IsSeq(x)
  BY <1>4, SemanticParts
<1>8. Refs!States(x, b)[Len(b)] = x \o Refs!States(<<>>, b)[Len(b)]
  <2>1. \A k \in 0..Len(b) : Refs!States(x, b)[k] = x \o Refs!States(<<>>, b)[k]
    BY <1>7, SemanticFrom
  <2> QED
    BY <1>1, <2>1
<1>9. Refs!States(<<>>, b)[Len(b)] = Semantic(b)
  BY DEF Semantic, Refs!After
<1> QED
  BY <1>4, <1>6, <1>8, <1>9 DEF c

-----------------------------------------------------------------------------
(* Widths and ranks *)

\* Every entry of a tape has a width.
Sized(tape) == IsSeq(tape) /\ \A k \in 1..Len(tape) : tape[k].width \in Nat

\* Where the entries of a tape start.
LEMMA StartSteps ==
  ASSUME NEW tape, Sized(tape)
  PROVE  /\ Len(tape) \in Nat
         /\ LexicalStart(tape, 0) = 0
         /\ \A n \in 1..Len(tape) :
              LexicalStart(tape, n) = LexicalStart(tape, n - 1) + tape[n].width
<1>1. Len(tape) \in Nat
  BY SeqParts DEF Sized
<1> QED
  BY <1>1, Widths!Iterates DEF LexicalStart, AddWidth

\* The entries of a tape start at offsets of the text.
LEMMA StartTypes ==
  ASSUME NEW tape, Sized(tape)
  PROVE  \A n \in 0..Len(tape) : LexicalStart(tape, n) \in Nat
<1> DEFINE S == {n \in Nat : n <= Len(tape) => LexicalStart(tape, n) \in Nat}
<1>1. 0 \in S
  BY StartSteps
<1>2. ASSUME NEW n \in Nat, n \in S PROVE n + 1 \in S
  <2> SUFFICES ASSUME n + 1 <= Len(tape) PROVE LexicalStart(tape, n + 1) \in Nat
    OBVIOUS
  <2>1. n + 1 \in 1..Len(tape) /\ (n + 1) - 1 = n /\ n <= Len(tape)
    BY StartSteps
  <2>2. LexicalStart(tape, n + 1) = LexicalStart(tape, n) + tape[n + 1].width
    BY <2>1, StartSteps
  <2>3. tape[n + 1].width \in Nat
    BY <2>1 DEF Sized
  <2> QED
    BY <1>2, <2>1, <2>2, <2>3
<1>3. \A n \in Nat : n \in S
  <2> HIDE DEF S
  <2> QED
    BY <1>1, <1>2, Refs!SetInduction
<1> QED
  BY <1>3, StartSteps

\* Later entries do not start earlier.
LEMMA StartMonotone ==
  ASSUME NEW tape, Sized(tape), NEW m \in 0..Len(tape)
  PROVE  \A n \in m..Len(tape) : LexicalStart(tape, m) <= LexicalStart(tape, n)
<1>0. Len(tape) \in Nat
  BY StartSteps
<1> DEFINE S == {i \in Nat : m + i <= Len(tape) => LexicalStart(tape, m) <= LexicalStart(tape, m + i)}
<1>1. 0 \in S
  BY <1>0, StartTypes
<1>2. ASSUME NEW i \in Nat, i \in S PROVE i + 1 \in S
  <2> SUFFICES ASSUME m + (i + 1) <= Len(tape)
               PROVE LexicalStart(tape, m) <= LexicalStart(tape, m + (i + 1))
    OBVIOUS
  <2> DEFINE j == m + (i + 1)
  <2>1. j \in 1..Len(tape) /\ j - 1 = m + i /\ j - 1 \in 0..Len(tape) /\ m + i <= Len(tape)
    BY <1>0
  <2>2. LexicalStart(tape, m) <= LexicalStart(tape, m + i)
    BY <1>2, <2>1
  <2> HIDE DEF j
  <2>3. LexicalStart(tape, j) = LexicalStart(tape, j - 1) + tape[j].width
    BY <2>1, StartSteps
  <2>4. tape[j].width \in Nat
    BY <2>1 DEF Sized
  <2>5. LexicalStart(tape, m) \in Nat /\ LexicalStart(tape, j - 1) \in Nat
    BY <2>1, StartTypes
  <2>6. LexicalStart(tape, m) <= LexicalStart(tape, j)
    BY <2>1, <2>2, <2>3, <2>4, <2>5
  <2> QED
    BY <2>6 DEF j
<1>3. \A i \in Nat : i \in S
  <2> HIDE DEF S
  <2> QED
    BY <1>1, <1>2, Refs!SetInduction
<1>4. ASSUME NEW n \in m..Len(tape) PROVE LexicalStart(tape, m) <= LexicalStart(tape, n)
  <2>1. n - m \in Nat /\ m + (n - m) = n /\ n <= Len(tape)
    BY <1>0
  <2>2. n - m \in S
    BY <1>3, <2>1
  <2> QED
    BY <2>1, <2>2
<1> QED
  BY <1>4

\* The rank at an offset: the entries up to it end at or before the offset.
LEMMA RankAt ==
  ASSUME NEW tape, Sized(tape), NEW at \in Int
  PROVE  /\ LexicalRankAtByte(tape, at) \in 0..Len(tape)
         /\ \A r \in 1..Len(tape) :
              LexicalStart(tape, r) <= at <=> r <= LexicalRankAtByte(tape, at)
<1>0. Len(tape) \in Nat /\ \A r \in 0..Len(tape) : LexicalStart(tape, r) \in Nat
  BY StartSteps, StartTypes
<1> DEFINE T == {r \in 1..Len(tape) : LexicalStart(tape, r) <= at}
           E == {m \in Nat : m + 1 \notin T}
<1>1. Len(tape) \in E
  BY <1>0
<1>2. PICK m \in E : \A y \in E : ~(y < m)
  <2>1. E \in SUBSET Nat /\ E # {}
    BY <1>1
  <2> HIDE DEF E
  <2> QED
    BY <2>1, Refs!NatLeast
<1>3. m \in 0..Len(tape)
  BY <1>0, <1>1, <1>2
<1>4. ASSUME NEW r \in 1..Len(tape) PROVE r \in T <=> r <= m
  <2>1. CASE r <= m
    <3>1. r - 1 \in Nat /\ r - 1 < m /\ (r - 1) + 1 = r
      BY <2>1, <1>3, <1>0
    <3>2. r - 1 \notin E
      BY <3>1, <1>2
    <3> QED
      BY <2>1, <3>1, <3>2
  <2>2. CASE ~(r <= m)
    <3>1. m + 1 \in 1..Len(tape) /\ m + 1 \in 0..Len(tape) /\ r \in (m + 1)..Len(tape) /\ r \in 0..Len(tape)
      BY <2>2, <1>3, <1>0
    <3>2. LexicalStart(tape, m + 1) <= LexicalStart(tape, r)
      BY <3>1, StartMonotone
    <3>3. ~(LexicalStart(tape, m + 1) <= at)
      BY <3>1, <1>2
    <3>4. LexicalStart(tape, m + 1) \in Nat /\ LexicalStart(tape, r) \in Nat
      BY <1>0, <3>1
    <3> QED
      BY <2>2, <3>2, <3>3, <3>4
  <2> QED
    BY <2>1, <2>2
<1>5. T = 1..m
  BY <1>0, <1>3, <1>4
<1>6. Cardinality(1..m) = m
  BY <1>2, FS_Interval
<1>7. LexicalRankAtByte(tape, at) = m
  BY <1>5, <1>6 DEF LexicalRankAtByte
<1> QED
  BY <1>3, <1>4, <1>7

\* An entry at the end of a tape.
LEMMA StartAppend ==
  ASSUME NEW tape, Sized(tape), NEW t, t.width \in Nat
  PROVE  /\ Sized(Append(tape, t))
         /\ LexicalStart(Append(tape, t), Len(Append(tape, t))) = LexicalStart(tape, Len(tape)) + t.width
<1> DEFINE a == Append(tape, t)
<1>1. /\ IsSeq(a) /\ Len(a) = Len(tape) + 1
      /\ \A k \in 1..Len(tape) : a[k] = tape[k]
      /\ a[Len(tape) + 1] = t
  BY SeqAppend DEF Sized
<1> HIDE DEF a
<1>2. Len(tape) \in Nat /\ Len(a) \in Nat /\ Len(tape) <= Len(a) /\ Len(tape) <= Len(tape)
  BY <1>1, StartSteps
<1>3. Sized(a)
  BY <1>1, <1>2 DEF Sized
<1>4. \A k \in 0..Len(tape) : Widths!States(0, a)[k] = Widths!States(0, tape)[k]
  <2>1. \A k \in 1..Len(tape) : a[k] = tape[k]
    BY <1>1
  <2> QED
    BY <1>2, <2>1, Widths!SamePrefix
<1>5. LexicalStart(a, Len(tape)) = LexicalStart(tape, Len(tape))
  BY <1>2, <1>4 DEF LexicalStart
<1>6. Len(a) \in 1..Len(a) /\ Len(a) - 1 = Len(tape)
  BY <1>1, <1>2
<1>7. LexicalStart(a, Len(a)) = LexicalStart(a, Len(a) - 1) + a[Len(a)].width
  BY <1>3, <1>6, StartSteps
<1> QED
  BY <1>1, <1>3, <1>5, <1>6, <1>7 DEF a

\* Starts in a concatenation.
LEMMA StartConcat ==
  ASSUME NEW a, NEW b, Sized(a), Sized(b)
  PROVE  /\ Sized(a \o b)
         /\ \A k \in 0..Len(a) : LexicalStart(a \o b, k) = LexicalStart(a, k)
         /\ \A k \in 0..Len(b) :
              LexicalStart(a \o b, Len(a) + k) = LexicalStart(a, Len(a)) + LexicalStart(b, k)
<1> DEFINE c == a \o b
           x == LexicalStart(a, Len(a))
<1>1. Len(a) \in Nat /\ Len(b) \in Nat /\ x \in Nat
  BY StartSteps, StartTypes
<1>2. /\ IsSeq(c) /\ Len(c) = Len(a) + Len(b)
      /\ \A k \in 1..Len(a) : c[k] = a[k]
      /\ \A k \in 1..Len(b) : c[Len(a) + k] = b[k]
  BY SeqConcat DEF Sized
<1> HIDE DEF c
<1>3. ASSUME NEW k \in 1..Len(c) PROVE c[k].width \in Nat
  <2>1. CASE k <= Len(a)
    BY <1>1, <1>2, <2>1 DEF Sized
  <2>2. CASE ~(k <= Len(a))
    <3>1. k - Len(a) \in 1..Len(b) /\ Len(a) + (k - Len(a)) = k
      BY <1>1, <1>2, <2>2
    <3> QED
      BY <1>2, <3>1 DEF Sized
  <2> QED
    BY <2>1, <2>2
<1>4. Sized(c)
  BY <1>2, <1>3 DEF Sized
<1>5. Len(c) \in Nat /\ Len(a) <= Len(c) /\ Len(a) <= Len(a)
  BY <1>1, <1>2
<1>6. \A k \in 0..Len(a) : Widths!States(0, c)[k] = Widths!States(0, a)[k]
  <2>1. \A k \in 1..Len(a) : c[k] = a[k]
    BY <1>2
  <2> QED
    BY <1>1, <1>5, <2>1, Widths!SamePrefix
<1> DEFINE S == {k \in Nat : k <= Len(b) => LexicalStart(c, Len(a) + k) = x + LexicalStart(b, k)}
<1>7. 0 \in S
  BY <1>1, <1>6, StartSteps DEF LexicalStart
<1>8. ASSUME NEW k \in Nat, k \in S PROVE k + 1 \in S
  <2> SUFFICES ASSUME k + 1 <= Len(b)
               PROVE  LexicalStart(c, Len(a) + (k + 1)) = x + LexicalStart(b, k + 1)
    OBVIOUS
  <2> DEFINE j == Len(a) + (k + 1)
  <2>1. k + 1 \in 1..Len(b) /\ (k + 1) - 1 = k /\ k \in 0..Len(b)
    BY <1>1
  <2>2. j \in 1..Len(c) /\ j - 1 = Len(a) + k
    BY <1>1, <1>2
  <2>3. c[j] = b[k + 1]
    BY <1>2, <2>1
  <2> HIDE DEF j
  <2>4. LexicalStart(c, j) = LexicalStart(c, j - 1) + c[j].width
    BY <1>4, <2>2, StartSteps
  <2>5. LexicalStart(b, k + 1) = LexicalStart(b, k) + b[k + 1].width
    BY <2>1, StartSteps
  <2>6. LexicalStart(c, j - 1) = x + LexicalStart(b, k)
    BY <1>8, <2>1, <2>2
  <2>7. b[k + 1].width \in Nat /\ LexicalStart(b, k) \in Nat
    BY <2>1, StartTypes DEF Sized
  <2>8. LexicalStart(c, j) = x + LexicalStart(b, k + 1)
    BY <1>1, <2>3, <2>4, <2>5, <2>6, <2>7
  <2> QED
    BY <2>8 DEF j
<1>9. \A k \in Nat : k \in S
  <2> HIDE DEF S
  <2> QED
    BY <1>7, <1>8, Refs!SetInduction
<1> QED
  BY <1>1, <1>4, <1>6, <1>9 DEF LexicalStart, c

\* Starts in a part of a tape.
LEMMA StartSub ==
  ASSUME NEW a, Sized(a), NEW m \in 0..Len(a), NEW n \in m..Len(a)
  PROVE  /\ Sized(SubSeq(a, m + 1, n)) /\ Len(SubSeq(a, m + 1, n)) = n - m
         /\ LexicalStart(SubSeq(a, m + 1, n), n - m) = LexicalStart(a, n) - LexicalStart(a, m)
<1> DEFINE b == SubSeq(a, m + 1, n)
<1>0. Len(a) \in Nat /\ m \in Nat /\ n \in Nat /\ m <= n /\ n <= Len(a)
  BY StartSteps
<1>1. IsSeq(b) /\ Len(b) = n - m /\ \A k \in 1..(n - m) : b[k] = a[m + k]
  BY SeqSub DEF Sized
<1> HIDE DEF b
<1>2. Sized(b)
  BY <1>0, <1>1 DEF Sized
<1> DEFINE S == {k \in Nat : k <= n - m => LexicalStart(b, k) = LexicalStart(a, m + k) - LexicalStart(a, m)}
<1>3. 0 \in S
  <2>1. m + 0 = m /\ LexicalStart(a, m) \in Nat
    BY StartTypes
  <2> QED
    BY <1>2, <2>1, StartSteps
<1>4. ASSUME NEW k \in Nat, k \in S PROVE k + 1 \in S
  <2> SUFFICES ASSUME k + 1 <= n - m
               PROVE  LexicalStart(b, k + 1) = LexicalStart(a, m + (k + 1)) - LexicalStart(a, m)
    OBVIOUS
  <2> DEFINE j == m + (k + 1)
  <2>1. k + 1 \in 1..Len(b) /\ (k + 1) - 1 = k /\ k \in 0..Len(b)
    BY <1>0, <1>1
  <2>2. j \in 1..Len(a) /\ j - 1 = m + k /\ j - 1 \in 0..Len(a)
    BY <1>0
  <2>3. b[k + 1] = a[j]
    BY <1>0, <1>1
  <2>4. LexicalStart(b, k) = LexicalStart(a, m + k) - LexicalStart(a, m)
    BY <1>0, <1>4
  <2> HIDE DEF j
  <2>5. LexicalStart(a, j) = LexicalStart(a, j - 1) + a[j].width
    BY <2>2, StartSteps
  <2>6. LexicalStart(b, k + 1) = LexicalStart(b, k) + b[k + 1].width
    BY <1>2, <2>1, StartSteps
  <2>7. a[j].width \in Nat /\ LexicalStart(a, j - 1) \in Nat /\ LexicalStart(a, m) \in Nat
    BY <2>2, StartTypes DEF Sized
  <2>8. LexicalStart(b, k + 1) = LexicalStart(a, j) - LexicalStart(a, m)
    BY <2>2, <2>3, <2>4, <2>5, <2>6, <2>7
  <2> QED
    BY <2>8 DEF j
<1>5. \A k \in Nat : k \in S
  <2> HIDE DEF S
  <2> QED
    BY <1>3, <1>4, Refs!SetInduction
<1>6. n - m \in Nat /\ m + (n - m) = n
  BY <1>0
<1>7. LexicalStart(b, n - m) = LexicalStart(a, n) - LexicalStart(a, m)
  BY <1>5, <1>6
<1> QED
  BY <1>1, <1>2, <1>7 DEF b

\* The length of the text a tape covers after a replacement.
LEMMA StartReplaced ==
  ASSUME NEW a, NEW b, Sized(a), Sized(b), NEW m \in 0..Len(a), NEW n \in m..Len(a)
  PROVE  LET r == ReplaceRange(a, m, n, b)
         IN /\ Sized(r)
            /\ LexicalStart(r, Len(r)) = LexicalStart(a, m) + LexicalStart(b, Len(b))
                                           + (LexicalStart(a, Len(a)) - LexicalStart(a, n))
<1>0. Len(a) \in Nat /\ m \in Nat /\ n \in Nat /\ Len(b) \in Nat /\ n \in 0..Len(a) /\ Len(a) \in 0..Len(a)
  BY StartSteps
<1> DEFINE p == SubSeq(a, 0 + 1, m)
           q == SubSeq(a, n + 1, Len(a))
           c == p \o b
           r == c \o q
<1>1. Sized(p) /\ Len(p) = m - 0 /\ LexicalStart(p, m - 0) = LexicalStart(a, m) - LexicalStart(a, 0)
  <2>1. 0 \in 0..Len(a) /\ m \in 0..Len(a)
    BY <1>0
  <2> QED
    BY <2>1, StartSub
<1>2. /\ Sized(q) /\ Len(q) = Len(a) - n
      /\ LexicalStart(q, Len(a) - n) = LexicalStart(a, Len(a)) - LexicalStart(a, n)
  <2>1. Len(a) \in n..Len(a)
    BY <1>0
  <2> QED
    BY <1>0, <2>1, StartSub
<1>3. r = ReplaceRange(a, m, n, b)
  BY DEF ReplaceRange
<1> HIDE DEF p, q
<1>4. /\ Sized(c) /\ Len(c) = Len(p) + Len(b)
      /\ LexicalStart(c, Len(p) + Len(b)) = LexicalStart(p, Len(p)) + LexicalStart(b, Len(b))
  <2>1. Len(b) \in 0..Len(b)
    BY <1>0
  <2>2. Len(c) = Len(p) + Len(b)
    BY <1>1, SeqConcat DEF Sized
  <2>3. Sized(c)
    BY <1>1, StartConcat
  <2>4. \A k \in 0..Len(b) : LexicalStart(c, Len(p) + k) = LexicalStart(p, Len(p)) + LexicalStart(b, k)
    BY <1>1, StartConcat
  <2> QED
    BY <2>1, <2>2, <2>3, <2>4
<1> HIDE DEF c
<1>5. /\ Sized(r) /\ Len(r) = Len(c) + Len(q)
      /\ LexicalStart(r, Len(c) + Len(q)) = LexicalStart(c, Len(c)) + LexicalStart(q, Len(q))
  <2>1. Len(q) \in 0..Len(q)
    BY <1>2, StartSteps
  <2>2. Len(r) = Len(c) + Len(q)
    BY <1>2, <1>4, SeqConcat DEF Sized
  <2>3. Sized(r)
    BY <1>2, <1>4, StartConcat
  <2>4. \A k \in 0..Len(q) : LexicalStart(r, Len(c) + k) = LexicalStart(c, Len(c)) + LexicalStart(q, k)
    <3>1. Sized(c) /\ Sized(q)
      BY <1>2, <1>4
    <3> QED
      BY <3>1, StartConcat
  <2> QED
    BY <2>1, <2>2, <2>3, <2>4
<1> HIDE DEF r
<1>6. /\ LexicalStart(a, 0) = 0 /\ LexicalStart(a, m) \in Nat /\ LexicalStart(a, n) \in Nat
      /\ LexicalStart(a, Len(a)) \in Nat /\ LexicalStart(b, Len(b)) \in Nat
  <2>1. Len(b) \in 0..Len(b)
    BY <1>0
  <2> QED
    BY <1>0, <2>1, StartSteps, StartTypes
<1>7. LexicalStart(p, Len(p)) = LexicalStart(a, m)
  BY <1>0, <1>1, <1>6
<1>8. LexicalStart(r, Len(r)) = LexicalStart(a, m) + LexicalStart(b, Len(b))
                                  + (LexicalStart(a, Len(a)) - LexicalStart(a, n))
  BY <1>2, <1>4, <1>5, <1>6, <1>7
<1> QED
  BY <1>3, <1>5, <1>8

\* Tapes with the same widths.
LEMMA SameWidths ==
  ASSUME NEW a, NEW b, Sized(a), IsSeq(b), Len(b) = Len(a), \A k \in 1..Len(a) : b[k].width = a[k].width
  PROVE  Sized(b) /\ LexicalStart(b, Len(b)) = LexicalStart(a, Len(a))
<1>1. Sized(b) /\ Len(a) \in Nat
  BY StartSteps DEF Sized
<1> DEFINE S == {k \in Nat : k <= Len(a) => LexicalStart(b, k) = LexicalStart(a, k)}
<1>2. 0 \in S
  BY <1>1, StartSteps
<1>3. ASSUME NEW k \in Nat, k \in S PROVE k + 1 \in S
  <2> SUFFICES ASSUME k + 1 <= Len(a) PROVE LexicalStart(b, k + 1) = LexicalStart(a, k + 1)
    OBVIOUS
  <2>1. k + 1 \in 1..Len(a) /\ k + 1 \in 1..Len(b) /\ (k + 1) - 1 = k
    BY <1>1
  <2>2. LexicalStart(b, k + 1) = LexicalStart(b, k) + b[k + 1].width
    BY <1>1, <2>1, StartSteps
  <2>3. LexicalStart(a, k + 1) = LexicalStart(a, k) + a[k + 1].width
    BY <2>1, StartSteps
  <2> QED
    BY <1>1, <1>3, <2>1, <2>2, <2>3
<1>4. \A k \in Nat : k \in S
  <2> HIDE DEF S
  <2> QED
    BY <1>2, <1>3, Refs!SetInduction
<1> QED
  BY <1>1, <1>4

-----------------------------------------------------------------------------
(* Common ends *)

\* The first p elements agree.
SharePrefix(a, b, p) ==
  /\ p \in 0..Len(a) /\ p <= Len(b)
  /\ \A k \in 1..p : a[k] = b[k]

\* The last q elements agree, behind a prefix of p.
ShareSuffix(a, b, p, q) ==
  /\ q \in 0..(Len(a) - p) /\ q <= Len(b) - p
  /\ \A k \in 0..(q - 1) : a[Len(a) - k] = b[Len(b) - k]

\* CommonPrefix counts entries that agree at the start.
LEMMA PrefixExists ==
  ASSUME NEW a, NEW b, IsSeq(a), IsSeq(b)
  PROVE  SharePrefix(a, b, CommonPrefix(a, b))
<1>0. Len(a) \in Nat /\ Len(b) \in Nat
  BY SeqParts
<1> DEFINE E == {n \in Nat : n >= Len(a) \/ n >= Len(b) \/ a[n + 1] # b[n + 1]}
<1>1. Len(a) \in E /\ Len(b) \in E
  BY <1>0
<1>2. PICK n \in E : \A m \in E : ~(m < n)
  <2>1. E \in SUBSET Nat /\ E # {}
    BY <1>1
  <2> HIDE DEF E
  <2> QED
    BY <2>1, Refs!NatLeast
<1>3. n \in 0..Len(a) /\ n <= Len(b) /\ (n < Len(a) /\ n < Len(b) => a[n + 1] # b[n + 1])
  BY <1>0, <1>1, <1>2
<1>4. ASSUME NEW k \in 1..n PROVE a[k] = b[k]
  <2>1. k - 1 \in Nat /\ k - 1 < n /\ (k - 1) + 1 = k
    BY <1>2
  <2>2. k - 1 \notin E
    BY <1>2, <2>1
  <2> QED
    BY <2>1, <2>2
<1> QED
  BY <1>3, <1>4 DEF CommonPrefix, SharePrefix

\* CommonSuffix counts entries that agree at the end, behind the prefix.
LEMMA SuffixExists ==
  ASSUME NEW a, NEW b, IsSeq(a), IsSeq(b), NEW p, SharePrefix(a, b, p)
  PROVE  ShareSuffix(a, b, p, CommonSuffix(a, b, p))
<1>0. Len(a) \in Nat /\ Len(b) \in Nat /\ p \in Nat /\ Len(a) - p \in Nat /\ Len(b) - p \in Nat
  <2>1. Len(a) \in Nat /\ Len(b) \in Nat
    BY SeqParts
  <2> QED
    BY <2>1 DEF SharePrefix
<1> DEFINE E == {n \in Nat : n >= Len(a) - p \/ n >= Len(b) - p \/ a[Len(a) - n] # b[Len(b) - n]}
<1>1. Len(a) - p \in E /\ Len(b) - p \in E
  BY <1>0
<1>2. PICK n \in E : \A m \in E : ~(m < n)
  <2>1. E \in SUBSET Nat /\ E # {}
    BY <1>1
  <2> HIDE DEF E
  <2> QED
    BY <2>1, Refs!NatLeast
<1>3. /\ n \in 0..(Len(a) - p) /\ n <= Len(b) - p
      /\ (n < Len(a) - p /\ n < Len(b) - p => a[Len(a) - n] # b[Len(b) - n])
  <2>1. ~(Len(a) - p < n) /\ ~(Len(b) - p < n)
    BY <1>1, <1>2
  <2>2. n \in Nat /\ (n >= Len(a) - p \/ n >= Len(b) - p \/ a[Len(a) - n] # b[Len(b) - n])
    OBVIOUS
  <2> QED
    BY <1>0, <2>1, <2>2
<1>4. ASSUME NEW k \in 0..(n - 1) PROVE a[Len(a) - k] = b[Len(b) - k]
  <2>1. k \in Nat /\ k < n
    BY <1>2
  <2>2. k \notin E
    BY <1>2, <2>1
  <2> QED
    BY <2>1, <2>2
<1> QED
  BY <1>3, <1>4 DEF CommonSuffix, ShareSuffix

-----------------------------------------------------------------------------
(* Identities *)

\* Every entry has an identity of its own, drawn before next.
Ided(tape, next) ==
  /\ IsSeq(tape) /\ next \in Nat
  /\ \A k \in 1..Len(tape) : tape[k].id \in Nat /\ tape[k].id < next
  /\ \A j, k \in 1..Len(tape) : tape[j].id = tape[k].id => j = k

\* An identity of the old tape that is on the new one is there as a token of the
\* same kind and in the same order; other identities were drawn from next on.
Follows(old, new, next) ==
  /\ \A i \in 1..Len(old), k \in 1..Len(new) : old[i].id = new[k].id =>
       old[i].terminal = new[k].terminal /\ IsSemantic(old[i]) = IsSemantic(new[k])
  /\ \A i, j \in 1..Len(old), k, l \in 1..Len(new) :
       old[i].id = new[k].id /\ old[j].id = new[l].id /\ i < j => k < l
  /\ \A k \in 1..Len(new) : new[k].id >= next \/ \E i \in 1..Len(old) : old[i].id = new[k].id

\* A tape follows itself.
LEMMA FollowsItself ==
  ASSUME NEW tape, NEW next, Ided(tape, next)
  PROVE  Follows(tape, tape, next)
BY DEF Ided, Follows

\* What follows a tape that follows another follows the other: identities that
\* left the tape in the first step do not come back in the second.
LEMMA FollowsTransitive ==
  ASSUME NEW a, NEW b, NEW c, NEW m, NEW n, Ided(a, m), Ided(b, n), m <= n, IsSeq(c),
         Follows(a, b, m), Follows(b, c, n), \A k \in 1..Len(c) : c[k].id \in Nat
  PROVE  Follows(a, c, m)
<1>0. m \in Nat /\ n \in Nat /\ (\A i \in 1..Len(a) : a[i].id \in Nat /\ a[i].id < m)
  BY DEF Ided
<1>1. ASSUME NEW i \in 1..Len(a), NEW k \in 1..Len(c), a[i].id = c[k].id
      PROVE  \E j \in 1..Len(b) : b[j].id = c[k].id
  <2>1. ~(c[k].id >= n)
    BY <1>0, <1>1
  <2> QED
    BY <2>1 DEF Follows
<1>2. ASSUME NEW i \in 1..Len(a), NEW k \in 1..Len(c), a[i].id = c[k].id
      PROVE  a[i].terminal = c[k].terminal /\ IsSemantic(a[i]) = IsSemantic(c[k])
  <2>1. PICK j \in 1..Len(b) : b[j].id = c[k].id
    BY <1>1, <1>2
  <2>2. a[i].id = b[j].id
    BY <1>2, <2>1
  <2>3. a[i].terminal = b[j].terminal /\ IsSemantic(a[i]) = IsSemantic(b[j])
    BY <2>2 DEF Follows
  <2>4. b[j].terminal = c[k].terminal /\ IsSemantic(b[j]) = IsSemantic(c[k])
    BY <2>1 DEF Follows
  <2> QED
    BY <2>3, <2>4
<1>3. ASSUME NEW i \in 1..Len(a), NEW j \in 1..Len(a), NEW k \in 1..Len(c), NEW l \in 1..Len(c),
             a[i].id = c[k].id, a[j].id = c[l].id, i < j
      PROVE  k < l
  <2>1. PICK x \in 1..Len(b) : b[x].id = c[k].id
    BY <1>1, <1>3
  <2>2. PICK y \in 1..Len(b) : b[y].id = c[l].id
    BY <1>1, <1>3
  <2>3. a[i].id = b[x].id /\ a[j].id = b[y].id
    BY <1>3, <2>1, <2>2
  <2>4. x < y
    BY <1>3, <2>3 DEF Follows
  <2> QED
    BY <2>1, <2>2, <2>4 DEF Follows
<1>4. ASSUME NEW k \in 1..Len(c) PROVE c[k].id >= m \/ \E i \in 1..Len(a) : a[i].id = c[k].id
  <2>1. CASE c[k].id >= n
    BY <1>0, <2>1
  <2>2. CASE \E j \in 1..Len(b) : b[j].id = c[k].id
    <3>1. PICK j \in 1..Len(b) : b[j].id = c[k].id
      BY <2>2
    <3>2. b[j].id >= m \/ \E i \in 1..Len(a) : a[i].id = b[j].id
      BY DEF Follows
    <3> QED
      BY <3>1, <3>2
  <2> QED
    BY <2>1, <2>2 DEF Follows
<1> QED
  BY <1>2, <1>3, <1>4 DEF Follows

\* Two tokens of one kind.
SameKind(s, t) == s.terminal = t.terminal /\ IsSemantic(s) = IsSemantic(t)

\* The fresh identities of a window grow with the position.
LEMMA Counting ==
  ASSUME NEW n \in Nat, NEW kept \in SUBSET (1..n)
  PROVE  /\ Cardinality(kept) \in Nat /\ Cardinality(kept) <= n
         /\ \A k \in 1..n : Cardinality(1..(k - 1) \ kept) \in Nat
         /\ \A k \in 1..n \ kept : Cardinality(1..(k - 1) \ kept) < n - Cardinality(kept)
         /\ \A j, k \in 1..n \ kept :
              j < k => Cardinality(1..(j - 1) \ kept) < Cardinality(1..(k - 1) \ kept)
<1> DEFINE F(k) == 1..(k - 1) \ kept
<1>1. IsFiniteSet(1..n) /\ Cardinality(1..n) = n
  BY FS_Interval
<1>2. IsFiniteSet(kept) /\ Cardinality(kept) \in Nat /\ Cardinality(kept) <= n
  BY <1>1, FS_Subset, FS_CardinalityType
<1>3. \A k \in 1..(n + 1) : IsFiniteSet(F(k)) /\ Cardinality(F(k)) \in Nat
  <2>1. ASSUME NEW k \in 1..(n + 1) PROVE IsFiniteSet(F(k)) /\ Cardinality(F(k)) \in Nat
    <3>1. F(k) \in SUBSET (1..n)
      OBVIOUS
    <3> HIDE DEF F
    <3> QED
      BY <1>1, <3>1, FS_Subset, FS_CardinalityType
  <2> QED
    BY <2>1
<1>4. ASSUME NEW j \in 1..n \ kept, NEW k \in 1..(n + 1), j < k
      PROVE  Cardinality(F(j)) < Cardinality(F(k))
  <2>1. F(j) \cup {j} \in SUBSET F(k) /\ j \notin F(j)
    BY <1>4
  <2>2. IsFiniteSet(F(j)) /\ IsFiniteSet(F(k)) /\ Cardinality(F(j)) \in Nat /\ Cardinality(F(k)) \in Nat
    BY <1>3, <1>4
  <2> HIDE DEF F
  <2>3. Cardinality(F(j) \cup {j}) = Cardinality(F(j)) + 1
    BY <2>1, <2>2, FS_AddElement
  <2>4. Cardinality(F(j) \cup {j}) <= Cardinality(F(k))
    BY <2>1, <2>2, FS_Subset
  <2> QED
    BY <2>2, <2>3, <2>4
<1>5. Cardinality(F(n + 1)) = n - Cardinality(kept)
  <2>1. F(n + 1) = (1..n) \ kept /\ (1..n) \cap kept = kept
    <3>1. (n + 1) - 1 = n
      OBVIOUS
    <3>2. F(n + 1) = (1..n) \ kept
      BY <3>1, Zenon
    <3>3. (1..n) \cap kept = kept
      BY Zenon
    <3> QED
      BY <3>2, <3>3
  <2>2. Cardinality((1..n) \ kept) = Cardinality(1..n) - Cardinality((1..n) \cap kept)
    BY <1>1, FS_Difference
  <2> QED
    BY <1>1, <2>1, <2>2
<1>6. \A k \in 1..n : k \in 1..(n + 1) /\ k < n + 1
  OBVIOUS
<1>7. n + 1 \in 1..(n + 1)
  OBVIOUS
<1> HIDE DEF F
<1>8. \A k \in 1..n : Cardinality(F(k)) \in Nat
  BY <1>3, <1>6
<1>9. \A k \in 1..n \ kept : Cardinality(F(k)) < n - Cardinality(kept)
  BY <1>4, <1>5, <1>6, <1>7
<1>10. \A j, k \in 1..n \ kept : j < k => Cardinality(F(j)) < Cardinality(F(k))
  BY <1>4, <1>6
<1> QED
  BY <1>2, <1>8, <1>9, <1>10 DEF F

\* What numbering gives when the entries in kept take over the identities of old
\* entries of their kind, in order.
Numbers(old, new, next, ids) ==
  /\ Ided(ids.tokens, ids.next) /\ next <= ids.next
  /\ Follows(old, ids.tokens, next)
  /\ Len(ids.tokens) = Len(new)
  /\ \A k \in 1..Len(new) : ids.tokens[k] = Identified(new[k], ids.tokens[k].id)

\* Entries that keep identities in order, and fresh numbers for the others, give
\* a tape that follows the old one.
LEMMA Numbering ==
  ASSUME NEW old, NEW new, NEW next, NEW kept \in SUBSET (1..Len(new)), NEW partner,
         Ided(old, next), IsSeq(new),
         \A k \in kept : partner[k] \in 1..Len(old) /\ SameKind(old[partner[k]], new[k]),
         \A j, k \in kept : j < k => partner[j] < partner[k]
  PROVE  Numbers(old, new, next, Numbered(old, new, next, kept, partner))
<1> DEFINE n == Len(new)
           F(k) == Cardinality(1..(k - 1) \ kept)
           T == Numbered(old, new, next, kept, partner).tokens
           N == Numbered(old, new, next, kept, partner).next
<1>0. n \in Nat /\ Len(old) \in Nat /\ next \in Nat
  BY SeqParts DEF Ided
<1>1. /\ Cardinality(kept) \in Nat /\ Cardinality(kept) <= n
      /\ \A k \in 1..n : F(k) \in Nat
      /\ \A k \in 1..n \ kept : F(k) < n - Cardinality(kept)
      /\ \A j, k \in 1..n \ kept : j < k => F(j) < F(k)
  BY <1>0, Counting
<1>2. N = next + n - Cardinality(kept)
  BY DEF Numbered
<1>3. T = [k \in 1..n |-> Identified(new[k], IF k \in kept THEN old[partner[k]].id ELSE next + F(k))]
  BY DEF Numbered
<1> HIDE DEF T, N, F
<1>4. IsSeq(T) /\ Len(T) = n
  <2>1. DOMAIN T = 1..n /\ T = [k \in 1..n |-> T[k]]
    BY <1>3
  <2> QED
    BY <1>0, <2>1, SeqOfFunction
<1>5. \A k \in 1..n : T[k].id = IF k \in kept THEN old[partner[k]].id ELSE next + F(k)
  BY <1>3 DEF Identified
<1>6. \A k \in 1..n : T[k] = Identified(new[k], T[k].id) /\ SameKind(T[k], new[k])
  BY <1>3, <1>5 DEF Identified, SameKind, IsSemantic
<1>7. \A k \in kept : T[k].id \in Nat /\ T[k].id < next
  BY <1>5 DEF Ided
<1>8. \A k \in 1..n \ kept : T[k].id \in Nat /\ T[k].id >= next /\ T[k].id < N
  BY <1>0, <1>1, <1>2, <1>5
<1>9. N \in Nat /\ next <= N
  BY <1>0, <1>1, <1>2
<1>10. \A k \in 1..n : T[k].id \in Nat /\ T[k].id < N
  BY <1>0, <1>7, <1>8, <1>9
<1>11. ASSUME NEW j \in 1..n, NEW k \in 1..n, T[j].id = T[k].id PROVE j = k
  <2>1. CASE j \in kept /\ k \in kept
    <3>1. old[partner[j]].id = old[partner[k]].id
      BY <1>5, <1>11, <2>1
    <3>2. partner[j] = partner[k]
      BY <2>1, <3>1 DEF Ided
    <3>3. ~(j < k) /\ ~(k < j)
      BY <2>1, <3>2, <1>0
    <3> QED
      BY <3>3
  <2>2. CASE j \notin kept /\ k \notin kept
    <3>1. F(j) = F(k)
      BY <1>0, <1>1, <1>5, <1>11, <2>2
    <3>2. ~(j < k) /\ ~(k < j)
      BY <1>1, <2>2, <3>1
    <3> QED
      BY <3>2
  <2>3. CASE (j \in kept) # (k \in kept)
    BY <1>0, <1>7, <1>8, <1>11, <2>3
  <2> QED
    BY <2>1, <2>2, <2>3
<1>12. Ided(T, N)
  BY <1>4, <1>9, <1>10, <1>11 DEF Ided
<1>13. ASSUME NEW i \in 1..Len(old), NEW k \in 1..n, old[i].id = T[k].id
       PROVE  k \in kept /\ i = partner[k]
  <2>1. k \in kept
    BY <1>0, <1>8, <1>13 DEF Ided
  <2> QED
    BY <1>5, <1>13, <2>1 DEF Ided
<1>14. \A i \in 1..Len(old), k \in 1..n : old[i].id = T[k].id =>
         old[i].terminal = T[k].terminal /\ IsSemantic(old[i]) = IsSemantic(T[k])
  BY <1>6, <1>13 DEF SameKind
<1>15. ASSUME NEW i \in 1..Len(old), NEW j \in 1..Len(old), NEW k \in 1..n, NEW l \in 1..n,
              old[i].id = T[k].id, old[j].id = T[l].id, i < j
       PROVE  k < l
  <2>1. k \in kept /\ l \in kept /\ i = partner[k] /\ j = partner[l]
    BY <1>13, <1>15
  <2>2. k # l /\ ~(l < k)
    BY <1>0, <1>15, <2>1
  <2> QED
    BY <2>2
<1>16. \A k \in 1..n : T[k].id >= next \/ \E i \in 1..Len(old) : old[i].id = T[k].id
  BY <1>5, <1>8
<1>17. Follows(old, T, next)
  BY <1>4, <1>14, <1>15, <1>16 DEF Follows
<1> QED
  BY <1>4, <1>6, <1>9, <1>12, <1>17 DEF Numbers, T, N

\* The tokens of a replayed window take over the identities of the old window.
LEMMA Reconciling ==
  ASSUME NEW old, NEW new, NEW next, Ided(old, next), IsSeq(new)
  PROVE  Numbers(old, new, next, ReconcileOccurrenceIds(old, new, next))
<1> DEFINE a == Segments(old)
           b == Segments(new)
           p == CommonPrefix(a, b)
           q == CommonSuffix(a, b, p)
           n == Len(new)
           m == Len(old)
           shape == m = n /\ \A k \in (p + 1)..(n - q) : StructuralEq(old[k], new[k])
           kept == IF shape THEN 1..n ELSE 1..p \union (n - q + 1)..n
           partner == [k \in kept |-> IF k <= p \/ shape THEN k ELSE k - n + m]
<1>0. n \in Nat /\ m \in Nat /\ DOMAIN old = 1..m /\ DOMAIN new = 1..n
  BY SeqParts DEF Ided
<1>1. IsSeq(a) /\ Len(a) = m /\ IsSeq(b) /\ Len(b) = n
  <2>1. DOMAIN a = 1..m /\ a = [k \in 1..m |-> a[k]] /\ DOMAIN b = 1..n /\ b = [k \in 1..n |-> b[k]]
    BY <1>0 DEF Segments
  <2> HIDE DEF a, b
  <2> QED
    BY <1>0, <2>1, SeqOfFunction
<1>2. (\A k \in 1..m : a[k] = Segment(old[k])) /\ \A k \in 1..n : b[k] = Segment(new[k])
  BY <1>0 DEF Segments
<1>3. ReconcileOccurrenceIds(old, new, next) = Numbered(old, new, next, kept, partner)
  BY DEF ReconcileOccurrenceIds, KeepEnds
<1> HIDE DEF a, b
<1>4. SharePrefix(a, b, p)
  BY <1>1, PrefixExists
<1> HIDE DEF p
<1>5. ShareSuffix(a, b, p, q)
  BY <1>1, <1>4, SuffixExists
<1> HIDE DEF q
<1>6. /\ p \in Nat /\ q \in Nat /\ p + q <= m /\ p + q <= n
      /\ \A k \in 1..p : a[k] = b[k]
      /\ \A k \in 0..(q - 1) : a[m - k] = b[n - k]
  BY <1>0, <1>1, <1>4, <1>5 DEF SharePrefix, ShareSuffix
<1>7. \A s, t : Segment(s) = Segment(t) => SameKind(s, t)
  BY DEF Segment, Payload, SameKind, IsSemantic
<1>8. \A s, t : StructuralEq(s, t) => SameKind(s, t)
  BY DEF StructuralEq, SameKind, IsSemantic
<1>9. \A k \in 1..p : SameKind(old[k], new[k])
  BY <1>0, <1>2, <1>6, <1>7
<1>10. ASSUME NEW k \in (n - q + 1)..n PROVE k - n + m \in 1..m /\ SameKind(old[k - n + m], new[k])
  <2>1. n - k \in 0..(q - 1) /\ m - (n - k) = k - n + m /\ n - (n - k) = k
    BY <1>0, <1>6
  <2>2. k - n + m \in 1..m /\ k \in 1..n
    BY <1>0, <1>6
  <2>3. a[k - n + m] = b[k]
    BY <1>6, <2>1
  <2> QED
    BY <1>2, <1>7, <2>2, <2>3
<1>11. kept = IF shape THEN 1..n ELSE 1..p \union (n - q + 1)..n
  OBVIOUS
<1>12. \A k \in kept : partner[k] = IF k <= p \/ shape THEN k ELSE k - n + m
  <2> HIDE DEF kept, shape
  <2> QED
    OBVIOUS
<1>13. kept \in SUBSET (1..n)
  <2> HIDE DEF shape, kept
  <2>1. CASE shape
    BY <1>11, <2>1
  <2>2. CASE ~shape
    BY <1>0, <1>6, <1>11, <2>2
  <2> QED
    BY <2>1, <2>2
<1>14. ASSUME NEW k \in kept
       PROVE  partner[k] \in 1..m /\ SameKind(old[partner[k]], new[k])
  <2>1. CASE shape
    <3>1. partner[k] = k /\ k \in 1..n /\ m = n
      BY <2>1
    <3>2. k \in 1..p \/ k \in (p + 1)..(n - q) \/ k \in (n - q + 1)..n
      BY <1>0, <1>6, <3>1
    <3>3. CASE k \in 1..p
      BY <1>9, <3>1, <3>3
    <3>4. CASE k \in (p + 1)..(n - q)
      BY <1>8, <2>1, <3>1, <3>4
    <3>5. CASE k \in (n - q + 1)..n
      <4>1. k - n + m = k
        BY <1>0, <3>1
      <4> QED
        BY <1>10, <3>1, <3>5, <4>1
    <3> QED
      BY <3>2, <3>3, <3>4, <3>5
  <2>2. CASE ~shape
    <3>1. k \in 1..p \/ k \in (n - q + 1)..n
      BY <2>2
    <3>2. CASE k \in 1..p
      <4> HIDE DEF partner, kept, shape
      <4>1. k \in 1..m /\ k <= p
        BY <1>0, <1>6, <3>2
      <4>2. partner[k] = k /\ k \in 1..m
        BY <1>12, <4>1
      <4> QED
        BY <1>9, <3>2, <4>2
    <3>3. CASE k \in (n - q + 1)..n
      <4> HIDE DEF partner, kept, shape
      <4>1. ~(k <= p)
        BY <1>0, <1>6, <3>3
      <4>2. partner[k] = k - n + m
        BY <1>12, <2>2, <4>1
      <4> QED
        BY <1>10, <3>3, <4>2
    <3> QED
      BY <3>1, <3>2, <3>3
  <2> QED
    BY <2>1, <2>2
<1>15. ASSUME NEW j \in kept, NEW k \in kept, j < k PROVE partner[j] < partner[k]
  <2>0. j \in 1..n /\ k \in 1..n
    BY <1>13
  <2>1. CASE shape
    BY <1>15, <2>1
  <2>2. CASE ~shape
    <3>1. j \in 1..p \/ j \in (n - q + 1)..n
      BY <2>2
    <3>2. k \in 1..p \/ k \in (n - q + 1)..n
      BY <2>2
    <3>3. \A i \in kept : (i <= p => partner[i] = i) /\ (i > p => partner[i] = i - n + m)
      <4> HIDE DEF partner, kept, shape
      <4>1. \A i \in kept : i \in Int
        BY <1>13
      <4> QED
        BY <1>0, <1>6, <1>12, <2>2, <4>1
    <3> HIDE DEF partner, kept, shape
    <3> QED
      BY <1>0, <1>6, <1>15, <3>1, <3>2, <3>3
  <2> QED
    BY <2>1, <2>2
<1> HIDE DEF kept, partner
<1>16. Numbers(old, new, next, Numbered(old, new, next, kept, partner))
  BY <1>13, <1>14, <1>15, Numbering
<1> QED
  BY <1>3, <1>16

\* Where the entries of r come from, when r is tape with T in place of [m, n),
\* and which entry of tape has the identity of an entry of r.
Placed(tape, m, n, T, r) ==
  /\ \A k \in 1..Len(r) :
       \/ k <= m /\ k \in 1..Len(tape) /\ r[k] = tape[k]
       \/ k - m \in 1..Len(T) /\ r[k] = T[k - m]
       \/ /\ k - m - Len(T) \in 1..(Len(tape) - n) /\ n + (k - m - Len(T)) \in 1..Len(tape)
          /\ r[k] = tape[n + (k - m - Len(T))]
  /\ \A i \in 1..Len(tape), k \in 1..Len(r) : tape[i].id = r[k].id =>
       \/ k <= m /\ i = k
       \/ /\ k - m \in 1..Len(T) /\ i - m \in 1..(n - m)
          /\ tape[i].id = T[k - m].id /\ r[k] = T[k - m]
       \/ k - m - Len(T) \in 1..(Len(tape) - n) /\ i = n + (k - m - Len(T))

\* An identity of the old tape is in the window of the new one only if it was in
\* that of the old one.
LEMMA SplicePlaces ==
  ASSUME NEW tape, NEW next, Ided(tape, next), NEW m \in 0..Len(tape), NEW n \in m..Len(tape),
         NEW new, NEW ids, Numbers(SubSeq(tape, m + 1, n), new, next, ids)
  PROVE  Placed(tape, m, n, ids.tokens, ReplaceRange(tape, m, n, ids.tokens))
<1> DEFINE W == SubSeq(tape, m + 1, n)
           T == ids.tokens
           t == Len(T)
           r == ReplaceRange(tape, m, n, T)
           N == Len(tape)
<1>0. IsSeq(tape) /\ N \in Nat /\ m \in Nat /\ n \in Nat /\ m <= n /\ n <= N /\ next \in Nat
  BY SeqParts DEF Ided
<1>1. IsSeq(T) /\ t \in Nat /\ Ided(T, ids.next) /\ next <= ids.next /\ ids.next \in Nat /\ Follows(W, T, next)
  BY SeqParts DEF Numbers, Ided
<1>2. Len(W) = n - m /\ \A k \in 1..(n - m) : W[k] = tape[m + k]
  BY <1>0, SeqSub
<1> HIDE DEF W, T
<1>3. /\ IsSeq(r) /\ Len(r) = N - (n - m) + t
      /\ \A k \in 1..m : r[k] = tape[k]
      /\ \A k \in 1..t : r[m + k] = T[k]
      /\ \A k \in 1..(N - n) : r[m + t + k] = tape[n + k]
  <2>1. IsSeq(tape) /\ IsSeq(T)
    BY <1>0, <1>1
  <2>2. Replaced(tape, m, n, T, r)
    <3> HIDE DEF N, t
    <3> QED
      BY <2>1, Replacing
  <2> QED
    BY <2>2 DEF Replaced
<1> HIDE DEF r
<1>4. ASSUME NEW k \in 1..Len(r)
      PROVE  \/ k <= m /\ k \in 1..N /\ r[k] = tape[k]
             \/ k - m \in 1..t /\ r[k] = T[k - m]
             \/ k - m - t \in 1..(N - n) /\ n + (k - m - t) \in 1..N /\ r[k] = tape[n + (k - m - t)]
  <2>1. CASE k <= m
    BY <1>0, <1>3, <2>1
  <2>2. CASE k > m /\ k <= m + t
    <3>1. k - m \in 1..t /\ m + (k - m) = k
      BY <1>0, <1>1, <2>2
    <3> QED
      BY <1>3, <3>1
  <2>3. CASE k > m + t
    <3>1. k - m - t \in 1..(N - n) /\ m + t + (k - m - t) = k /\ n + (k - m - t) \in 1..N
      BY <1>0, <1>1, <1>3, <2>3
    <3> QED
      BY <1>3, <3>1
  <2>4. k <= m \/ (k > m /\ k <= m + t) \/ k > m + t
    BY <1>0, <1>1, <1>3
  <2> QED
    BY <2>1, <2>2, <2>3, <2>4
<1>5. ASSUME NEW i \in 1..N, NEW x \in 1..t, tape[i].id = T[x].id
      PROVE  i - m \in 1..(n - m) /\ W[i - m].id = T[x].id
  <2>1. tape[i].id \in Nat /\ tape[i].id < next
    BY DEF Ided
  <2>2. ~(T[x].id >= next)
    BY <1>0, <1>5, <2>1
  <2>3. PICK y \in 1..(n - m) : W[y].id = T[x].id
    BY <1>1, <1>2, <2>2 DEF Follows
  <2>4. m + y \in 1..N /\ tape[m + y].id = tape[i].id
    BY <1>0, <1>2, <1>5, <2>3
  <2>5. i = m + y
    BY <2>4 DEF Ided
  <2>6. i - m = y
    BY <1>0, <2>5
  <2> QED
    BY <2>3, <2>6
<1>6. ASSUME NEW i \in 1..N, NEW k \in 1..Len(r), tape[i].id = r[k].id
      PROVE  \/ k <= m /\ i = k
             \/ k - m \in 1..t /\ i - m \in 1..(n - m) /\ tape[i].id = T[k - m].id /\ r[k] = T[k - m]
             \/ k - m - t \in 1..(N - n) /\ i = n + (k - m - t)
  <2>1. CASE k <= m /\ k \in 1..N /\ r[k] = tape[k]
    BY <1>6, <2>1 DEF Ided
  <2>2. CASE k - m \in 1..t /\ r[k] = T[k - m]
    BY <1>5, <1>6, <2>2
  <2>3. CASE k - m - t \in 1..(N - n) /\ n + (k - m - t) \in 1..N /\ r[k] = tape[n + (k - m - t)]
    BY <1>6, <2>3 DEF Ided
  <2> QED
    BY <1>4, <2>1, <2>2, <2>3
<1>7. Placed(tape, m, n, T, r)
  BY <1>4, <1>6 DEF Placed
<1> QED
  BY <1>7 DEF r, T

\* A tape whose window [m, n) is replaced by the reconciled tokens.
LEMMA Splicing ==
  ASSUME NEW tape, NEW next, Ided(tape, next), NEW m \in 0..Len(tape), NEW n \in m..Len(tape),
         NEW new, NEW ids, Numbers(SubSeq(tape, m + 1, n), new, next, ids)
  PROVE  /\ Ided(ReplaceRange(tape, m, n, ids.tokens), ids.next)
         /\ Follows(tape, ReplaceRange(tape, m, n, ids.tokens), next)
<1> DEFINE W == SubSeq(tape, m + 1, n)
           T == ids.tokens
           t == Len(T)
           r == ReplaceRange(tape, m, n, T)
           N == Len(tape)
<1>0. IsSeq(tape) /\ N \in Nat /\ m \in Nat /\ n \in Nat /\ m <= n /\ n <= N /\ next \in Nat
  BY SeqParts DEF Ided
<1>1. IsSeq(T) /\ t \in Nat /\ Ided(T, ids.next) /\ next <= ids.next /\ ids.next \in Nat /\ Follows(W, T, next)
  BY SeqParts DEF Numbers, Ided
<1>2. Len(W) = n - m /\ \A k \in 1..(n - m) : W[k] = tape[m + k]
  BY <1>0, SeqSub
<1> HIDE DEF W, T
<1>3. /\ IsSeq(r) /\ Len(r) = N - (n - m) + t
      /\ \A k \in 1..m : r[k] = tape[k]
      /\ \A k \in 1..t : r[m + k] = T[k]
      /\ \A k \in 1..(N - n) : r[m + t + k] = tape[n + k]
  <2>1. IsSeq(tape) /\ IsSeq(T)
    BY <1>0, <1>1
  <2>2. Replaced(tape, m, n, T, r)
    <3> HIDE DEF N, t
    <3> QED
      BY <2>1, Replacing
  <2> QED
    BY <2>2 DEF Replaced
<1>4. Placed(tape, m, n, T, r)
  BY SplicePlaces DEF r, T
<1> HIDE DEF r
<1>5. ASSUME NEW k \in 1..Len(r)
      PROVE  \/ k <= m /\ k \in 1..N /\ r[k] = tape[k]
             \/ k - m \in 1..t /\ r[k] = T[k - m]
             \/ k - m - t \in 1..(N - n) /\ n + (k - m - t) \in 1..N /\ r[k] = tape[n + (k - m - t)]
  BY <1>4 DEF Placed
<1>6. ASSUME NEW i \in 1..N, NEW x \in 1..t, tape[i].id = T[x].id
      PROVE  i - m \in 1..(n - m) /\ W[i - m].id = T[x].id
  <2>1. tape[i].id \in Nat /\ tape[i].id < next
    BY DEF Ided
  <2>2. ~(T[x].id >= next)
    BY <1>0, <1>6, <2>1
  <2>3. PICK y \in 1..(n - m) : W[y].id = T[x].id
    BY <1>1, <1>2, <2>2 DEF Follows
  <2>4. m + y \in 1..N /\ tape[m + y].id = tape[i].id
    BY <1>0, <1>2, <1>6, <2>3
  <2>5. i = m + y
    BY <2>4 DEF Ided
  <2>6. i - m = y
    BY <1>0, <2>5
  <2> QED
    BY <2>3, <2>6
<1>7. ASSUME NEW i \in 1..N, NEW k \in 1..Len(r), tape[i].id = r[k].id
      PROVE  \/ k <= m /\ i = k
             \/ k - m \in 1..t /\ i - m \in 1..(n - m) /\ W[i - m].id = T[k - m].id /\ r[k] = T[k - m]
             \/ k - m - t \in 1..(N - n) /\ i = n + (k - m - t)
  <2>1. CASE k - m \in 1..t /\ i - m \in 1..(n - m) /\ tape[i].id = T[k - m].id /\ r[k] = T[k - m]
    BY <1>6, <2>1
  <2>2. \/ k <= m /\ i = k
        \/ k - m \in 1..t /\ i - m \in 1..(n - m) /\ tape[i].id = T[k - m].id /\ r[k] = T[k - m]
        \/ k - m - t \in 1..(N - n) /\ i = n + (k - m - t)
    BY <1>7, <1>4 DEF Placed
  <2> QED
    BY <2>1, <2>2
<1>8. \A k \in 1..Len(r) : r[k].id \in Nat /\ r[k].id < ids.next
  <2>1. ASSUME NEW k \in 1..Len(r) PROVE r[k].id \in Nat /\ r[k].id < ids.next
    <3>1. \A i \in 1..N : tape[i].id \in Nat /\ tape[i].id < ids.next
      BY <1>0, <1>1 DEF Ided
    <3>2. \A x \in 1..t : T[x].id \in Nat /\ T[x].id < ids.next
      BY <1>1 DEF Ided
    <3> QED
      BY <1>5, <3>1, <3>2
  <2> QED
    BY <2>1
<1>9. ASSUME NEW j \in 1..Len(r), NEW k \in 1..Len(r), r[j].id = r[k].id PROVE j = k
  <2>1. CASE k <= m /\ k \in 1..N /\ r[k] = tape[k]
    <3>1. tape[k].id = r[j].id
      BY <1>9, <2>1
    <3>2. \/ j <= m /\ k = j
          \/ k - m \in 1..(n - m)
          \/ j - m - t \in 1..(N - n) /\ k = n + (j - m - t)
      BY <1>7, <2>1, <3>1
    <3> QED
      BY <1>0, <1>1, <2>1, <3>2
  <2>2. CASE k - m \in 1..t /\ r[k] = T[k - m]
    <3>1. CASE j - m \in 1..t /\ r[j] = T[j - m]
      <4>1. T[j - m].id = T[k - m].id
        BY <1>9, <2>2, <3>1
      <4>2. j - m = k - m
        BY <1>1, <2>2, <3>1, <4>1 DEF Ided
      <4> QED
        BY <1>0, <1>3, <4>2
    <3>2. CASE j <= m /\ j \in 1..N /\ r[j] = tape[j]
      <4>1. j - m \in 1..(n - m)
        BY <1>6, <1>9, <2>2, <3>2
      <4> QED
        BY <1>0, <3>2, <4>1
    <3>3. CASE j - m - t \in 1..(N - n) /\ n + (j - m - t) \in 1..N /\ r[j] = tape[n + (j - m - t)]
      <4> DEFINE i == n + (j - m - t)
      <4>1. i \in 1..N /\ tape[i].id = T[k - m].id /\ i > n
        BY <1>0, <1>9, <2>2, <3>3
      <4> HIDE DEF i
      <4>2. i - m \in 1..(n - m)
        BY <1>6, <2>2, <4>1
      <4> QED
        BY <1>0, <4>1, <4>2
    <3> QED
      BY <1>5, <3>1, <3>2, <3>3
  <2>3. CASE k - m - t \in 1..(N - n) /\ n + (k - m - t) \in 1..N /\ r[k] = tape[n + (k - m - t)]
    <3> DEFINE i == n + (k - m - t)
    <3>1. tape[i].id = r[j].id /\ i \in 1..N
      BY <1>9, <2>3
    <3> HIDE DEF i
    <3>2. \/ j <= m /\ i = j
          \/ i - m \in 1..(n - m)
          \/ j - m - t \in 1..(N - n) /\ i = n + (j - m - t)
      BY <1>7, <3>1
    <3> QED
      BY <1>0, <1>1, <1>3, <2>3, <3>2 DEF i
  <2> QED
    BY <1>5, <2>1, <2>2, <2>3
<1>10. Ided(r, ids.next)
  BY <1>1, <1>3, <1>8, <1>9 DEF Ided
<1>11. ASSUME NEW i \in 1..N, NEW k \in 1..Len(r), tape[i].id = r[k].id
       PROVE  tape[i].terminal = r[k].terminal /\ IsSemantic(tape[i]) = IsSemantic(r[k])
  <2>1. CASE r[k] = tape[i]
    BY <2>1
  <2>2. CASE k - m \in 1..t /\ i - m \in 1..(n - m) /\ W[i - m].id = T[k - m].id /\ r[k] = T[k - m]
    <3>1. W[i - m] = tape[i]
      <4>1. m + (i - m) = i
        BY <1>0
      <4> QED
        BY <1>2, <2>2, <4>1
    <3>2. /\ W[i - m].terminal = T[k - m].terminal
          /\ IsSemantic(W[i - m]) = IsSemantic(T[k - m])
      BY <1>1, <1>2, <2>2 DEF Follows
    <3> QED
      BY <2>2, <3>1, <3>2
  <2>3. k <= m /\ i = k => r[k] = tape[i]
    BY <1>0, <1>3
  <2>4. k - m - t \in 1..(N - n) /\ i = n + (k - m - t) => r[k] = tape[i]
    <3>1. m + t + (k - m - t) = k
      BY <1>0, <1>1, <1>3
    <3> QED
      BY <1>3, <3>1
  <2> QED
    BY <1>7, <1>11, <2>1, <2>2, <2>3, <2>4
<1>12. ASSUME NEW i \in 1..N, NEW j \in 1..N, NEW k \in 1..Len(r), NEW l \in 1..Len(r),
              tape[i].id = r[k].id, tape[j].id = r[l].id, i < j
       PROVE  k < l
  <2>1. \/ k <= m /\ i = k
        \/ k - m \in 1..t /\ i - m \in 1..(n - m) /\ W[i - m].id = T[k - m].id
        \/ k - m - t \in 1..(N - n) /\ i = n + (k - m - t)
    BY <1>7, <1>12
  <2>2. \/ l <= m /\ j = l
        \/ l - m \in 1..t /\ j - m \in 1..(n - m) /\ W[j - m].id = T[l - m].id
        \/ l - m - t \in 1..(N - n) /\ j = n + (l - m - t)
    BY <1>7, <1>12
  <2>3. k \in Int /\ l \in Int /\ i \in Int /\ j \in Int
    BY <1>3
  <2>4. CASE /\ k - m \in 1..t /\ i - m \in 1..(n - m) /\ W[i - m].id = T[k - m].id
             /\ l - m \in 1..t /\ j - m \in 1..(n - m) /\ W[j - m].id = T[l - m].id
    <3>1. i - m < j - m
      BY <1>0, <1>12
    <3>2. k - m < l - m
      BY <1>1, <1>2, <2>4, <3>1 DEF Follows
    <3> QED
      BY <1>0, <2>3, <3>2
  <2>5. CASE k <= m /\ i = k
    BY <1>0, <1>1, <1>12, <2>2, <2>3, <2>5
  <2>6. CASE k - m \in 1..t /\ i - m \in 1..(n - m) /\ W[i - m].id = T[k - m].id
    <3>1. CASE l <= m /\ j = l
      BY <1>0, <1>1, <1>12, <2>3, <2>6, <3>1
    <3>2. CASE l - m - t \in 1..(N - n) /\ j = n + (l - m - t)
      BY <1>0, <1>1, <1>12, <2>3, <2>6, <3>2
    <3> QED
      BY <2>2, <2>4, <2>6, <3>1, <3>2
  <2>7. CASE k - m - t \in 1..(N - n) /\ i = n + (k - m - t)
    BY <1>0, <1>1, <1>12, <2>2, <2>3, <2>7
  <2> QED
    BY <2>1, <2>5, <2>6, <2>7
<1>13. ASSUME NEW k \in 1..Len(r) PROVE r[k].id >= next \/ \E i \in 1..N : tape[i].id = r[k].id
  <2>1. CASE k - m \in 1..t /\ r[k] = T[k - m]
    <3>1. T[k - m].id >= next \/ \E i \in 1..(n - m) : W[i].id = T[k - m].id
      BY <1>1, <1>2, <2>1 DEF Follows
    <3>2. \A i \in 1..(n - m) : m + i \in 1..N /\ W[i] = tape[m + i]
      BY <1>0, <1>2
    <3> QED
      BY <2>1, <3>1, <3>2
  <2> QED
    BY <1>5, <2>1
<1>14. Follows(tape, r, next)
  BY <1>11, <1>12, <1>13 DEF Follows
<1> QED
  BY <1>10, <1>14 DEF r, T

-----------------------------------------------------------------------------
(* Patches *)

\* The middle of a sequence between p and q elements.
LEMMA MiddleParts ==
  ASSUME NEW a, IsSeq(a), NEW p \in Nat, NEW q \in Nat, p + q <= Len(a)
  PROVE  LET c == SubSeq(a, p + 1, Len(a) - q)
         IN /\ IsSeq(c) /\ Len(c) = Len(a) - q - p /\ DOMAIN c = 1..Len(c)
            /\ \A k \in 1..Len(c) : c[k] = a[p + k]
            /\ \A k \in (p + 1)..(Len(a) - q) : k - p \in 1..Len(c) /\ c[k - p] = a[k]
<1> DEFINE n == Len(a) - q
           c == SubSeq(a, p + 1, n)
<1>1. Len(a) \in Nat /\ p \in 0..Len(a) /\ n \in p..Len(a)
  BY SeqParts
<1> HIDE DEF n
<1>2. IsSeq(c) /\ Len(c) = n - p /\ \A k \in 1..(n - p) : c[k] = a[p + k]
  BY <1>1, SeqSub
<1>3. DOMAIN c = 1..Len(c)
  BY <1>2, SeqParts
<1> HIDE DEF c
<1>4. ASSUME NEW k \in (p + 1)..n PROVE k - p \in 1..Len(c) /\ c[k - p] = a[k]
  <2>1. k - p \in 1..(n - p) /\ p + (k - p) = k
    BY <1>1
  <2> QED
    BY <1>2, <2>1
<1> QED
  BY <1>1, <1>2, <1>3, <1>4 DEF n, c

\* The occurrences between the common ends of two tapes are all that differ.
LEMMA Between ==
  ASSUME NEW a, NEW b, IsSeq(a), IsSeq(b), NEW p, NEW q,
         SharePrefix(a, b, p), ShareSuffix(a, b, p, q)
  PROVE  LET c == SubSeq(a, p + 1, Len(a) - q)
             d == SubSeq(b, p + 1, Len(b) - q)
         IN /\ Occurrences(d) \ Occurrences(a) = Occurrences(b) \ Occurrences(a)
            /\ Occurrences(c) \ Occurrences(b) = Occurrences(a) \ Occurrences(b)
            /\ c = <<>> /\ d = <<>> => a = b
<1> DEFINE c == SubSeq(a, p + 1, Len(a) - q)
           d == SubSeq(b, p + 1, Len(b) - q)
<1>1. /\ Len(a) \in Nat /\ Len(b) \in Nat /\ DOMAIN a = 1..Len(a) /\ DOMAIN b = 1..Len(b)
  BY SeqParts
<1>2. /\ p \in Nat /\ q \in Nat /\ p + q <= Len(a) /\ p + q <= Len(b)
      /\ \A k \in 1..p : a[k] = b[k]
      /\ \A k \in 0..(q - 1) : a[Len(a) - k] = b[Len(b) - k]
  BY <1>1 DEF SharePrefix, ShareSuffix
<1>3. /\ DOMAIN c = 1..Len(c) /\ Len(c) = Len(a) - q - p /\ (\A k \in 1..Len(c) : c[k] = a[p + k])
      /\ \A k \in (p + 1)..(Len(a) - q) : k - p \in 1..Len(c) /\ c[k - p] = a[k]
  BY <1>2, MiddleParts
<1>4. /\ DOMAIN d = 1..Len(d) /\ Len(d) = Len(b) - q - p /\ (\A k \in 1..Len(d) : d[k] = b[p + k])
      /\ \A k \in (p + 1)..(Len(b) - q) : k - p \in 1..Len(d) /\ d[k - p] = b[k]
  BY <1>2, MiddleParts
<1> HIDE DEF c, d
<1>5. ASSUME NEW k \in 1..Len(a) PROVE (\E j \in 1..Len(b) : b[j] = a[k]) \/ \E j \in 1..Len(c) : c[j] = a[k]
  <2>1. CASE k <= p
    <3>1. k \in 1..p /\ k \in 1..Len(b)
      BY <1>1, <1>2, <2>1
    <3> QED
      BY <1>2, <3>1
  <2>2. CASE k \in (p + 1)..(Len(a) - q)
    BY <1>3, <2>2
  <2>3. CASE k > Len(a) - q
    <3>1. /\ Len(a) - k \in 0..(q - 1) /\ Len(a) - (Len(a) - k) = k
          /\ Len(b) - (Len(a) - k) \in 1..Len(b)
      BY <1>1, <1>2, <2>3
    <3>2. a[Len(a) - (Len(a) - k)] = b[Len(b) - (Len(a) - k)]
      BY <1>2, <3>1
    <3> QED
      BY <3>1, <3>2
  <2> QED
    BY <1>1, <1>2, <2>1, <2>2, <2>3
<1>6. ASSUME NEW k \in 1..Len(b) PROVE (\E j \in 1..Len(a) : a[j] = b[k]) \/ \E j \in 1..Len(d) : d[j] = b[k]
  <2>1. CASE k <= p
    <3>1. k \in 1..p /\ k \in 1..Len(a)
      BY <1>1, <1>2, <2>1
    <3> QED
      BY <1>2, <3>1
  <2>2. CASE k \in (p + 1)..(Len(b) - q)
    BY <1>4, <2>2
  <2>3. CASE k > Len(b) - q
    <3>1. /\ Len(b) - k \in 0..(q - 1) /\ Len(b) - (Len(b) - k) = k
          /\ Len(a) - (Len(b) - k) \in 1..Len(a)
      BY <1>1, <1>2, <2>3
    <3>2. a[Len(a) - (Len(b) - k)] = b[Len(b) - (Len(b) - k)]
      BY <1>2, <3>1
    <3> QED
      BY <3>1, <3>2
  <2> QED
    BY <1>1, <1>2, <2>1, <2>2, <2>3
<1>7. \A k \in 1..Len(c) : p + k \in 1..Len(a)
  BY <1>1, <1>2, <1>3
<1>8. \A k \in 1..Len(d) : p + k \in 1..Len(b)
  BY <1>1, <1>2, <1>4
<1>9. /\ Occurrences(a) = {a[k].occurrence : k \in 1..Len(a)}
      /\ Occurrences(b) = {b[k].occurrence : k \in 1..Len(b)}
      /\ Occurrences(c) = {c[k].occurrence : k \in 1..Len(c)}
      /\ Occurrences(d) = {d[k].occurrence : k \in 1..Len(d)}
  BY <1>1, <1>3, <1>4 DEF Occurrences
<1>10. Occurrences(d) \ Occurrences(a) = Occurrences(b) \ Occurrences(a)
  <2>1. ASSUME NEW x \in Occurrences(d) PROVE x \in Occurrences(b)
    BY <1>4, <1>8, <1>9
  <2>2. ASSUME NEW x \in Occurrences(b), x \notin Occurrences(a) PROVE x \in Occurrences(d)
    <3>1. PICK k \in 1..Len(b) : x = b[k].occurrence
      BY <1>9
    <3> QED
      BY <1>6, <1>9, <2>2, <3>1
  <2> QED
    BY <2>1, <2>2
<1>11. Occurrences(c) \ Occurrences(b) = Occurrences(a) \ Occurrences(b)
  <2>1. ASSUME NEW x \in Occurrences(c) PROVE x \in Occurrences(a)
    BY <1>3, <1>7, <1>9
  <2>2. ASSUME NEW x \in Occurrences(a), x \notin Occurrences(b) PROVE x \in Occurrences(c)
    <3>1. PICK k \in 1..Len(a) : x = a[k].occurrence
      BY <1>9
    <3> QED
      BY <1>5, <1>9, <2>2, <3>1
  <2> QED
    BY <2>1, <2>2
<1>12. ASSUME c = <<>>, d = <<>> PROVE a = b
  <2>1. Len(c) = 0 /\ Len(d) = 0
    BY <1>12, SeqEmpty
  <2>2. Len(a) - q - p = 0 /\ Len(b) - q - p = 0 /\ p \in Nat /\ q \in Nat
    BY <1>2, <1>3, <1>4, <2>1
  <2>3. Len(a) \in Nat /\ Len(b) \in Nat
    BY <1>1
  <2>4. Len(a) = p + q /\ Len(b) = p + q
    BY <2>2, <2>3
  <2>5. ASSUME NEW k \in 1..Len(a) PROVE a[k] = b[k]
    <3>1. CASE k <= p
      BY <1>2, <3>1
    <3>2. CASE k > p
      <4>1. /\ Len(a) - k \in 0..(q - 1) /\ Len(a) - (Len(a) - k) = k
            /\ Len(b) - (Len(a) - k) = k
        BY <1>2, <2>4, <3>2
      <4>2. a[Len(a) - (Len(a) - k)] = b[Len(b) - (Len(a) - k)]
        BY <1>2, <4>1
      <4> QED
        BY <4>1, <4>2
    <3> QED
      BY <1>2, <3>1, <3>2
  <2> QED
    BY <2>4, <2>5, SeqSame
<1> QED
  BY <1>10, <1>11, <1>12 DEF c, d

\* The identities of the semantic entries of a tape.
SemanticIds(tape) == {tape[k].id : k \in {j \in 1..Len(tape) : IsSemantic(tape[j])}}

\* They are the occurrences of the semantic tape.
LEMMA SemanticOccurrences ==
  ASSUME NEW tape, IsSeq(tape)
  PROVE  Occurrences(Semantic(tape)) = SemanticIds(tape)
<1> DEFINE refs == Semantic(tape)
<1>1. Range(refs) = {ParseTokenRef(tape[j]) : j \in {i \in 1..Len(tape) : IsSemantic(tape[i])}}
  BY SemanticParts
<1> HIDE DEF refs
<1>2. Occurrences(refs) = {t.occurrence : t \in Range(refs)}
  BY DEF Occurrences, Range
<1>3. \A t : ParseTokenRef(t).occurrence = t.id
  BY DEF ParseTokenRef
<1> QED
  BY <1>1, <1>2, <1>3 DEF SemanticIds, refs

\* What a patch says of the step from one tape to another: the tokens that come
\* and go, those whose content changes, and that the semantic tape stays as it is
\* unless there is a splice.
Patches(old, new, patch) ==
  /\ patch.inserted = SemanticIds(new) \ SemanticIds(old)
  /\ patch.removed = SemanticIds(old) \ SemanticIds(new)
  /\ \A i \in 1..Len(old), k \in 1..Len(new) :
       old[i].id = new[k].id /\ IsSemantic(new[k]) /\ new[k].id \notin patch.updated
       => Payload(old[i]) = Payload(new[k])
  /\ patch.splices = <<>> => Semantic(old) = Semantic(new)

\* The patch of a splice is right about its window.
LEMMA Patching ==
  ASSUME NEW doc, NEW old, NEW new, IsSeq(old), IsSeq(new), NEW start, NEW end
  PROVE  Patches(old, new, DirectPatch(doc, old, new, start, end))
<1> DEFINE a == Semantic(old)
           b == Semantic(new)
           p == CommonPrefix(a, b)
           q == CommonSuffix(a, b, p)
           c == SubSeq(a, p + 1, Len(a) - q)
           d == SubSeq(b, p + 1, Len(b) - q)
           patch == DirectPatch(doc, old, new, start, end)
<1>1. patch = PatchBetween(doc, old, new, a, b, start, end, p, q)
  BY DEF DirectPatch
<1>2. IsSeq(a) /\ IsSeq(b) /\ Occurrences(a) = SemanticIds(old) /\ Occurrences(b) = SemanticIds(new)
  BY SemanticParts, SemanticOccurrences
<1> HIDE DEF a, b
<1>3. SharePrefix(a, b, p)
  BY <1>2, PrefixExists
<1> HIDE DEF p
<1>4. ShareSuffix(a, b, p, q)
  BY <1>2, <1>3, SuffixExists
<1> HIDE DEF q
<1>5. /\ Occurrences(d) \ Occurrences(a) = Occurrences(b) \ Occurrences(a)
      /\ Occurrences(c) \ Occurrences(b) = Occurrences(a) \ Occurrences(b)
      /\ c = <<>> /\ d = <<>> => a = b
  BY <1>2, <1>3, <1>4, Between
<1>6. /\ patch.inserted = Occurrences(d) \ Occurrences(a)
      /\ patch.removed = Occurrences(c) \ Occurrences(b)
      /\ patch.updated = {new[k].id : k \in {j \in DOMAIN new :
                           /\ IsSemantic(new[j])
                           /\ \E i \in DOMAIN old : /\ old[i].id = new[j].id
                                                    /\ Payload(old[i]) # Payload(new[j])}}
  BY <1>1 DEF PatchBetween
<1>7. patch.splices = <<>> => c = <<>> /\ d = <<>>
  <2>1. \A x : <<x>> # <<>>
    OBVIOUS
  <2> HIDE DEF c, d
  <2> QED
    BY <1>1, <2>1 DEF PatchBetween, c, d
<1> HIDE DEF patch, c, d
<1>8. ASSUME NEW i \in 1..Len(old), NEW k \in 1..Len(new),
             old[i].id = new[k].id, IsSemantic(new[k]), new[k].id \notin patch.updated
      PROVE  Payload(old[i]) = Payload(new[k])
  <2>1. i \in DOMAIN old /\ k \in DOMAIN new
    BY SeqParts
  <2> QED
    BY <1>6, <1>8, <2>1
<1>9. Patches(old, new, patch)
  BY <1>2, <1>5, <1>6, <1>7, <1>8 DEF Patches, a, b
<1> QED
  BY <1>9 DEF patch

\* The parts of a concatenation.
LEMMA ConcatParts ==
  ASSUME NEW a, NEW b, IsSeq(a), IsSeq(b)
  PROVE  /\ SubSeq(a \o b, 1, Len(a)) = a
         /\ SubSeq(a \o b, Len(a) + 1, Len(a \o b)) = b
<1> DEFINE c == a \o b
           x == SubSeq(c, 0 + 1, Len(a))
           y == SubSeq(c, Len(a) + 1, Len(c))
<1>0. Len(a) \in Nat /\ Len(b) \in Nat
  BY SeqParts
<1>1. /\ IsSeq(c) /\ Len(c) = Len(a) + Len(b)
      /\ \A k \in 1..Len(a) : c[k] = a[k]
      /\ \A k \in 1..Len(b) : c[Len(a) + k] = b[k]
  BY SeqConcat
<1> HIDE DEF c
<1>2. 0 \in 0..Len(c) /\ Len(a) \in 0..Len(c) /\ Len(c) \in Len(a)..Len(c)
  BY <1>0, <1>1
<1>3. IsSeq(x) /\ Len(x) = Len(a) - 0 /\ \A k \in 1..(Len(a) - 0) : x[k] = c[0 + k]
  BY <1>1, <1>2, SeqSub
<1>4. IsSeq(y) /\ Len(y) = Len(c) - Len(a) /\ \A k \in 1..(Len(c) - Len(a)) : y[k] = c[Len(a) + k]
  BY <1>1, <1>2, SeqSub
<1>5. SubSeq(c, 1, Len(a)) = x
  <2>1. 0 + 1 = 1
    OBVIOUS
  <2> QED
    BY <2>1, Zenon
<1> HIDE DEF x, y
<1>6. Len(x) = Len(a) /\ \A k \in 1..Len(x) : x[k] = a[k]
  BY <1>0, <1>1, <1>3
<1>7. Len(y) = Len(b) /\ \A k \in 1..Len(y) : y[k] = b[k]
  BY <1>0, <1>1, <1>4
<1>8. x = a
  BY <1>3, <1>6, SeqSame
<1>9. y = b
  BY <1>4, <1>7, SeqSame
<1> QED
  BY <1>8, <1>9, <1>5 DEF c, y

\* The tape before, in and behind a window.
LEMMA Windowed ==
  ASSUME NEW a, IsSeq(a), NEW m \in 0..Len(a), NEW n \in m..Len(a)
  PROVE  /\ IsSeq(SubSeq(a, 1, m)) /\ IsSeq(SubSeq(a, m + 1, n)) /\ IsSeq(SubSeq(a, n + 1, Len(a)))
         /\ SubSeq(a, 1, n) = SubSeq(a, 1, m) \o SubSeq(a, m + 1, n)
         /\ a = (SubSeq(a, 1, m) \o SubSeq(a, m + 1, n)) \o SubSeq(a, n + 1, Len(a))
<1> DEFINE p == SubSeq(a, 1, m)
           w == SubSeq(a, m + 1, n)
           b == SubSeq(a, 1, n)
<1>0. Len(a) \in Nat /\ m \in Nat /\ n \in 0..Len(a) /\ 0 \in 0..Len(a) /\ 0 + 1 = 1
  BY SeqParts
<1>1. IsSeq(p) /\ Len(p) = m /\ \A k \in 1..m : p[k] = a[k]
  <2>1. /\ IsSeq(SubSeq(a, 0 + 1, m)) /\ Len(SubSeq(a, 0 + 1, m)) = m - 0
        /\ \A k \in 1..(m - 0) : SubSeq(a, 0 + 1, m)[k] = a[0 + k]
    BY <1>0, SeqSub
  <2>2. SubSeq(a, 0 + 1, m) = p
    BY <1>0, Zenon
  <2> HIDE DEF p
  <2>3. IsSeq(p) /\ Len(p) = m - 0 /\ \A k \in 1..(m - 0) : p[k] = a[0 + k]
    BY <2>1, <2>2, Zenon
  <2>4. m \in Nat
    BY <1>0
  <2> QED
    BY <2>3, <2>4
<1>2. IsSeq(b) /\ Len(b) = n /\ \A k \in 1..n : b[k] = a[k]
  <2>1. /\ IsSeq(SubSeq(a, 0 + 1, n)) /\ Len(SubSeq(a, 0 + 1, n)) = n - 0
        /\ \A k \in 1..(n - 0) : SubSeq(a, 0 + 1, n)[k] = a[0 + k]
    BY <1>0, SeqSub
  <2>2. SubSeq(a, 0 + 1, n) = b
    BY <1>0, Zenon
  <2> HIDE DEF b
  <2>3. IsSeq(b) /\ Len(b) = n - 0 /\ \A k \in 1..(n - 0) : b[k] = a[0 + k]
    BY <2>1, <2>2, Zenon
  <2>4. n \in Nat
    BY <1>0
  <2> QED
    BY <2>3, <2>4
<1>3. IsSeq(w) /\ Len(w) = n - m /\ \A k \in 1..(n - m) : w[k] = a[m + k]
  BY <1>0, SeqSub
<1>4. IsSeq(SubSeq(a, n + 1, Len(a)))
  BY <1>0, SeqSub
<1>5. a = b \o SubSeq(a, n + 1, Len(a))
  BY <1>0, SeqSplit
<1> HIDE DEF p, w, b
<1>6. b = p \o w
  <2> DEFINE c == p \o w
  <2>1. /\ IsSeq(c) /\ Len(c) = Len(p) + Len(w)
        /\ \A k \in 1..Len(p) : c[k] = p[k]
        /\ \A k \in 1..Len(w) : c[Len(p) + k] = w[k]
    BY <1>1, <1>3, SeqConcat
  <2> HIDE DEF c
  <2>2. Len(c) = Len(b)
    BY <1>0, <1>1, <1>2, <1>3, <2>1
  <2>3. ASSUME NEW k \in 1..Len(b) PROVE b[k] = c[k]
    <3>1. CASE k <= m
      <4>1. k \in 1..m /\ k \in 1..Len(p)
        BY <1>0, <1>1, <3>1
      <4> QED
        BY <1>1, <1>2, <2>1, <4>1
    <3>2. CASE k > m
      <4>1. k - m \in 1..(n - m) /\ m + (k - m) = k
        BY <1>0, <1>2, <3>2
      <4>2. c[m + (k - m)] = w[k - m] /\ w[k - m] = a[m + (k - m)]
        BY <1>1, <1>3, <2>1, <4>1
      <4> QED
        BY <1>2, <4>1, <4>2
    <3> QED
      BY <1>0, <3>1, <3>2
  <2>4. IsSeq(c) /\ IsSeq(b)
    BY <1>2, <2>1
  <2>5. b = c
    BY <2>2, <2>3, <2>4, SeqSame
  <2> QED
    BY <2>5 DEF c
<1> QED
  BY <1>1, <1>3, <1>4, <1>5, <1>6 DEF p, w, b

\* Replacing a window of the lexical tape replaces, at the ranks the code computes,
\* a window of the semantic tape.
LEMMA SemanticReplaced ==
  ASSUME NEW a, IsSeq(a), NEW m \in 0..Len(a), NEW n \in m..Len(a), NEW t, IsSeq(t)
  PROVE  /\ Semantic(ReplaceRange(a, m, n, t)) =
              ReplaceRange(Semantic(a), Len(Semantic(SubSeq(a, 1, m))),
                           Len(Semantic(SubSeq(a, 1, n))), Semantic(t))
         /\ Semantic(SubSeq(a, m + 1, n)) = Semantic(t) =>
              Semantic(ReplaceRange(a, m, n, t)) = Semantic(a)
<1> DEFINE p == SubSeq(a, 1, m)
           w == SubSeq(a, m + 1, n)
           q == SubSeq(a, n + 1, Len(a))
           sp == Semantic(p)
           sw == Semantic(w)
           sq == Semantic(q)
           st == Semantic(t)
<1>1. /\ IsSeq(p) /\ IsSeq(w) /\ IsSeq(q)
      /\ SubSeq(a, 1, n) = p \o w /\ a = (p \o w) \o q
  BY Windowed
<1>2. ReplaceRange(a, m, n, t) = (p \o t) \o q
  BY DEF ReplaceRange
<1> HIDE DEF p, w, q
<1>3. IsSeq(p \o w) /\ IsSeq(p \o t)
  BY <1>1, SeqConcat
<1>4. IsSeq(sp) /\ IsSeq(sw) /\ IsSeq(sq) /\ IsSeq(st)
  BY <1>1, SemanticParts
<1>5. Semantic(p \o w) = sp \o sw /\ Semantic(p \o t) = sp \o st
  BY <1>1, SemanticConcat
<1>6. Semantic((p \o w) \o q) = Semantic(p \o w) \o sq /\ Semantic((p \o t) \o q) = Semantic(p \o t) \o sq
  BY <1>1, <1>3, SemanticConcat
<1>7. Semantic(a) = (sp \o sw) \o sq
  BY <1>1, <1>5, <1>6
<1>8. Semantic(ReplaceRange(a, m, n, t)) = (sp \o st) \o sq
  BY <1>2, <1>5, <1>6
<1>9. SubSeq(a, 1, m) = p
  BY DEF p
<1>10. Semantic(SubSeq(a, 1, m)) = sp /\ Semantic(SubSeq(a, 1, n)) = sp \o sw
  BY <1>1, <1>5, <1>9
<1>11. Semantic(SubSeq(a, m + 1, n)) = sw
  BY DEF w
<1> HIDE DEF sp, sw, sq, st
<1>12. IsSeq(sp \o sw) /\ IsSeq(sw \o sq) /\ Len(sp \o sw) = Len(sp) + Len(sw)
  BY <1>4, SeqConcat
<1>13. SubSeq((sp \o sw) \o sq, Len(sp \o sw) + 1, Len((sp \o sw) \o sq)) = sq
  BY <1>4, <1>12, ConcatParts
<1>14. SubSeq((sp \o sw) \o sq, 1, Len(sp)) = sp
  <2>1. PICK S : sp \in Seq(S) /\ sw \in Seq(S)
    BY <1>4, SeqCommon
  <2>2. (sp \o sw) \o sq = sp \o (sw \o sq)
    <3> DEFINE S2 == Range(sp) \cup Range(sw) \cup Range(sq)
    <3>1. sp \in Seq(S2) /\ sw \in Seq(S2) /\ sq \in Seq(S2)
      BY <1>4 DEF IsSeq, Range
    <3> HIDE DEF S2
    <3> QED
      BY <3>1
  <2>3. SubSeq(sp \o (sw \o sq), 1, Len(sp)) = sp
    BY <1>4, <1>12, ConcatParts
  <2> QED
    BY <2>2, <2>3
<1>15. ReplaceRange((sp \o sw) \o sq, Len(sp), Len(sp \o sw), st) = (sp \o st) \o sq
  BY <1>13, <1>14 DEF ReplaceRange
<1>16. sw = st => (sp \o st) \o sq = (sp \o sw) \o sq
  BY Zenon
<1>17. Semantic(ReplaceRange(a, m, n, t)) =
         ReplaceRange(Semantic(a), Len(Semantic(SubSeq(a, 1, m))), Len(Semantic(SubSeq(a, 1, n))), st)
  BY <1>7, <1>8, <1>10, <1>15
<1> QED
  BY <1>7, <1>8, <1>11, <1>16, <1>17 DEF st

\* A patch that is right about the window is right about the tape.
LEMMA SplicePatches ==
  ASSUME NEW tape, NEW next, Ided(tape, next), NEW m \in 0..Len(tape), NEW n \in m..Len(tape),
         NEW new, NEW ids, Numbers(SubSeq(tape, m + 1, n), new, next, ids),
         NEW patch, Patches(SubSeq(tape, m + 1, n), ids.tokens, patch)
  PROVE  Patches(tape, ReplaceRange(tape, m, n, ids.tokens), patch)
<1> DEFINE W == SubSeq(tape, m + 1, n)
           T == ids.tokens
           t == Len(T)
           r == ReplaceRange(tape, m, n, T)
           N == Len(tape)
<1>0. IsSeq(tape) /\ N \in Nat /\ m \in Nat /\ n \in Nat /\ m <= n /\ n <= N /\ next \in Nat
  BY SeqParts DEF Ided
<1>1. IsSeq(T) /\ t \in Nat
  BY SeqParts DEF Numbers, Ided
<1>2. Len(W) = n - m /\ \A k \in 1..(n - m) : W[k] = tape[m + k]
  BY <1>0, SeqSub
<1>3. Replaced(tape, m, n, T, r)
  <2> HIDE DEF N, t, T
  <2> QED
    BY <1>0, <1>1, Replacing
<1>4. Placed(tape, m, n, T, r)
  BY SplicePlaces
<1>5. Patches(W, T, patch)
  OBVIOUS
<1>6. Semantic(W) = Semantic(T) => Semantic(r) = Semantic(tape)
  <2> HIDE DEF N, t, T
  <2> QED
    BY <1>0, <1>1, SemanticReplaced
<1> HIDE DEF r, W, T
<1>7. ASSUME NEW i \in 1..N
      PROVE  \/ \E k \in 1..Len(r) : r[k] = tape[i]
             \/ i - m \in 1..(n - m) /\ W[i - m] = tape[i]
  <2>1. CASE i <= m
    <3>1. i \in 1..m /\ i \in 1..Len(r)
      BY <1>0, <1>1, <1>3, <2>1 DEF Replaced
    <3> QED
      BY <1>3, <3>1 DEF Replaced
  <2>2. CASE i > m /\ i <= n
    <3>1. i - m \in 1..(n - m) /\ m + (i - m) = i
      BY <1>0, <2>2
    <3> QED
      BY <1>2, <3>1
  <2>3. CASE i > n
    <3>1. /\ i - n \in 1..(N - n) /\ n + (i - n) = i
          /\ m + t + (i - n) \in 1..(N - (n - m) + t)
      BY <1>0, <1>1, <2>3
    <3>2. r[m + t + (i - n)] = tape[i] /\ m + t + (i - n) \in 1..Len(r)
      BY <1>3, <3>1 DEF Replaced
    <3> QED
      BY <3>2
  <2> QED
    BY <1>0, <2>1, <2>2, <2>3
<1>8. ASSUME NEW x \in 1..(n - m) PROVE m + x \in 1..N /\ tape[m + x] = W[x]
  BY <1>0, <1>2
<1>9. ASSUME NEW x \in 1..t PROVE m + x \in 1..Len(r) /\ r[m + x] = T[x]
  <2>1. m + x \in 1..(N - (n - m) + t)
    BY <1>0, <1>1
  <2> QED
    BY <1>3, <2>1 DEF Replaced
<1>10. ASSUME NEW k \in 1..Len(r)
       PROVE (\E i \in 1..N : r[k] = tape[i]) \/ \E x \in 1..t : r[k] = T[x]
  BY <1>4 DEF Placed
<1>11. ASSUME NEW i \in 1..N, NEW k \in 1..Len(r), tape[i].id = r[k].id
       PROVE  \/ r[k] = tape[i]
              \/ /\ k - m \in 1..t /\ i - m \in 1..(n - m)
                 /\ W[i - m] = tape[i] /\ r[k] = T[k - m]
  <2>1. CASE k <= m /\ i = k
    <3>1. i \in 1..m
      BY <1>0, <2>1
    <3> QED
      BY <1>3, <2>1, <3>1 DEF Replaced
  <2>2. CASE k - m \in 1..t /\ i - m \in 1..(n - m) /\ tape[i].id = T[k - m].id /\ r[k] = T[k - m]
    <3>1. m + (i - m) = i
      BY <1>0
    <3> QED
      BY <1>8, <2>2, <3>1
  <2>3. CASE k - m - t \in 1..(N - n) /\ i = n + (k - m - t)
    <3>0. k \in Int
      OBVIOUS
    <3>1. m + t + (k - m - t) = k
      BY <1>0, <1>1, <3>0
    <3> QED
      BY <1>3, <2>3, <3>1 DEF Replaced
  <2> QED
    BY <1>4, <1>11, <2>1, <2>2, <2>3 DEF Placed
<1> DEFINE A == SemanticIds(tape)
           B == SemanticIds(r)
           C == SemanticIds(W)
           D == SemanticIds(T)
<1>12. ASSUME NEW x \in C PROVE x \in A
  BY <1>2, <1>8 DEF SemanticIds
<1>13. ASSUME NEW x \in D PROVE x \in B
  BY <1>9 DEF SemanticIds
<1>14. ASSUME NEW x \in A, x \notin C PROVE x \in B
  <2>1. PICK i \in 1..N : IsSemantic(tape[i]) /\ x = tape[i].id
    BY DEF SemanticIds
  <2>2. CASE i - m \in 1..(n - m) /\ W[i - m] = tape[i]
    <3>1. x \in C
      BY <1>2, <2>1, <2>2 DEF SemanticIds
    <3> QED
      BY <1>14, <3>1
  <2>3. CASE \E k \in 1..Len(r) : r[k] = tape[i]
    BY <2>1, <2>3 DEF SemanticIds
  <2> QED
    BY <1>7, <2>2, <2>3
<1>15. ASSUME NEW x \in B, x \notin D PROVE x \in A
  BY <1>10, <1>15 DEF SemanticIds
<1>16. ASSUME NEW x \in C, x \in B PROVE x \in D
  <2>1. PICK y \in 1..(n - m) : x = W[y].id
    BY <1>2 DEF SemanticIds
  <2>2. PICK k \in 1..Len(r) : IsSemantic(r[k]) /\ x = r[k].id
    BY <1>16 DEF SemanticIds
  <2>3. m + y \in 1..N /\ tape[m + y].id = r[k].id
    BY <1>8, <2>1, <2>2
  <2>4. \/ k <= m /\ m + y = k
        \/ k - m \in 1..t /\ r[k] = T[k - m]
        \/ k - m - t \in 1..(N - n) /\ m + y = n + (k - m - t)
    BY <1>4, <2>3 DEF Placed
  <2>5. k - m \in 1..t /\ r[k] = T[k - m]
    BY <1>0, <1>1, <2>4
  <2> QED
    BY <2>2, <2>5 DEF SemanticIds
<1>17. ASSUME NEW x \in D, x \in A PROVE x \in C
  <2>1. PICK y \in 1..t : x = T[y].id
    BY DEF SemanticIds
  <2>2. PICK i \in 1..N : IsSemantic(tape[i]) /\ x = tape[i].id
    BY <1>17 DEF SemanticIds
  <2>3. m + y \in 1..Len(r) /\ tape[i].id = r[m + y].id
    BY <1>9, <2>1, <2>2
  <2>4. \/ m + y <= m
        \/ i - m \in 1..(n - m)
        \/ m + y - m - t \in 1..(N - n)
    BY <1>4, <2>3 DEF Placed
  <2>5. i - m \in 1..(n - m) /\ m + (i - m) = i
    BY <1>0, <1>1, <2>4
  <2>6. W[i - m] = tape[i]
    BY <1>8, <2>5
  <2> QED
    BY <1>2, <2>2, <2>5, <2>6 DEF SemanticIds
<1> HIDE DEF A, B, C, D
<1>18. B \ A = D \ C /\ A \ B = C \ D
  BY <1>12, <1>13, <1>14, <1>15, <1>16, <1>17
<1>19. ASSUME NEW i \in 1..N, NEW k \in 1..Len(r),
              tape[i].id = r[k].id, IsSemantic(r[k]), r[k].id \notin patch.updated
       PROVE  Payload(tape[i]) = Payload(r[k])
  <2>1. CASE r[k] = tape[i]
    BY <2>1
  <2>2. CASE k - m \in 1..t /\ i - m \in 1..(n - m) /\ W[i - m] = tape[i] /\ r[k] = T[k - m]
    BY <1>2, <1>5, <1>19, <2>2 DEF Patches
  <2> QED
    BY <1>11, <1>19, <2>1, <2>2
<1>20. Patches(tape, r, patch)
  BY <1>5, <1>6, <1>18, <1>19 DEF Patches, A, B, C, D
<1> QED
  BY <1>20 DEF r, T

-----------------------------------------------------------------------------
(* Choosing a token *)

\* A set of numbers that is bounded and not empty has a largest element.
LEMMA IntGreatest ==
  ASSUME NEW a \in Int, NEW b \in Int, NEW T \in SUBSET (a..b), T # {}
  PROVE  \E x \in T : \A y \in T : y <= x
<1> DEFINE U == {n \in Nat : b - n \in T}
<1>1. U \in SUBSET Nat /\ U # {}
  <2>1. PICK t \in T : TRUE
    OBVIOUS
  <2>2. t \in Int /\ t <= b
    OBVIOUS
  <2>3. b - t \in Nat /\ b - (b - t) = t
    BY <2>2
  <2>4. b - t \in U
    BY <2>3
  <2> QED
    BY <2>4
<1>2. PICK n \in U : \A m \in U : ~(m < n)
  <2> HIDE DEF U
  <2> QED
    BY <1>1, Refs!NatLeast
<1>3. ASSUME NEW y \in T PROVE y <= b - n
  <2>1. y \in Int /\ y <= b
    OBVIOUS
  <2>2. b - y \in Nat /\ b - (b - y) = y
    BY <2>1
  <2>3. b - y \in U
    BY <2>2
  <2> QED
    BY <1>2, <2>1, <2>3
<1> QED
  BY <1>2, <1>3

\* One candidate is as good as another: by its action, then its length, then its place.
Beats(c, d) ==
  \/ ActionRank(c.rule) < ActionRank(d.rule)
  \/ /\ ActionRank(c.rule) = ActionRank(d.rule)
     /\ c.end > d.end \/ (c.end = d.end /\ c.index <= d.index)

\* The best candidate is a candidate, and as good as every other.
LEMMA BestExists ==
  ASSUME NEW n \in Nat, NEW C, C # {}, \A c \in C : c.index \in Nat /\ c.end \in 0..n
  PROVE  Best(C) \in C /\ \A d \in C : Beats(Best(C), d)
<1>0. \A c \in C : ActionRank(c.rule) \in Nat
  BY DEF ActionRank
<1> DEFINE A == {ActionRank(c.rule) : c \in C}
<1>1. PICK a \in A : \A x \in A : ~(x < a)
  <2>1. A \in SUBSET Nat /\ A # {}
    BY <1>0
  <2> HIDE DEF A
  <2> QED
    BY <2>1, Refs!NatLeast
<1> DEFINE D == {c \in C : ActionRank(c.rule) = a}
           E == {n - c.end : c \in D}
<1>2. D # {}
  BY <1>1
<1>3. PICK e \in E : \A x \in E : ~(x < e)
  <2>1. E \in SUBSET Nat /\ E # {}
    BY <1>2
  <2> HIDE DEF E
  <2> QED
    BY <2>1, Refs!NatLeast
<1> DEFINE F == {c \in D : n - c.end = e}
           I == {c.index : c \in F}
<1>4. F # {}
  BY <1>3
<1>5. PICK i \in I : \A x \in I : ~(x < i)
  <2>1. I \in SUBSET Nat /\ I # {}
    BY <1>4
  <2> HIDE DEF I
  <2> QED
    BY <2>1, Refs!NatLeast
<1>6. PICK c \in F : c.index = i
  BY <1>5
<1>7. c \in C /\ ActionRank(c.rule) = a /\ n - c.end = e /\ c.end \in 0..n /\ c.index \in Nat
  BY <1>6
<1>8. ASSUME NEW d \in C
      PROVE  \/ ActionRank(c.rule) < ActionRank(d.rule)
             \/ /\ ActionRank(c.rule) = ActionRank(d.rule)
                /\ c.end > d.end \/ (c.end = d.end /\ c.index <= d.index)
  <2>0. d.end \in 0..n /\ d.index \in Nat /\ ActionRank(d.rule) \in Nat /\ a \in Nat
    BY <1>0, <1>7
  <2>1. ~(ActionRank(d.rule) < a)
    BY <1>1
  <2>2. CASE ActionRank(d.rule) # a
    BY <1>7, <2>0, <2>1, <2>2
  <2>3. CASE ActionRank(d.rule) = a
    <3>1. ~(n - d.end < e)
      BY <1>3, <2>3
    <3>2. CASE n - d.end # e
      BY <1>7, <2>0, <2>3, <3>1, <3>2
    <3>3. CASE n - d.end = e
      <4>1. ~(d.index < i)
        BY <1>5, <2>3, <3>3
      <4> QED
        BY <1>6, <1>7, <2>0, <2>3, <3>3, <4>1
    <3> QED
      BY <3>2, <3>3
  <2> QED
    BY <2>2, <2>3
<1> HIDE DEF A, D, E, F, I
<1>9. \E x \in C : \A d \in C : Beats(x, d)
  BY <1>7, <1>8 DEF Beats
<1>10. Best(C) = CHOOSE x \in C : \A d \in C : Beats(x, d)
  BY DEF Best, Beats
<1> QED
  BY <1>9, <1>10

\* A recovery moves the end of a match on, within the text.
LEMMA RecoverEnds ==
  ASSUME NEW m, Len(m.text) \in Nat, NEW end \in 0..Len(m.text)
  PROVE  Recover(end, m) \in end..Len(m.text)
<1> DEFINE chars  == RecoverChars(m.rule, Lexeme(m.text, end, Len(m.text)), Top(m.stack).slots)
           resume == IF chars \in 0..(Len(m.text) - end) THEN end + chars ELSE Len(m.text)
           ends   == MatchEnds(m.rule, m.stack, m.text, resume)
<1>1. resume \in end..Len(m.text)
  OBVIOUS
<1> HIDE DEF resume
<1>2. ends \subseteq resume..Len(m.text)
  BY DEF MatchEnds
<1> HIDE DEF ends
<1>3. Recover(end, m) = IF resume = end \/ \A e \in ends : e <= resume THEN end
                        ELSE CHOOSE e \in ends : \A f \in ends : f <= e
  BY DEF Recover, resume, ends
<1>4. CASE resume = end \/ \A e \in ends : e <= resume
  BY <1>3, <1>4
<1>5. CASE ~(resume = end \/ \A e \in ends : e <= resume)
  <2>1. \E e \in ends : \A f \in ends : f <= e
    <3>1. resume \in Int /\ Len(m.text) \in Int /\ ends \in SUBSET (resume..Len(m.text)) /\ ends # {}
      BY <1>1, <1>2, <1>5
    <3> DEFINE n == Len(m.text)
    <3> HIDE DEF n
    <3>2. n \in Int /\ ends \in SUBSET (resume..n)
      BY <3>1 DEF n
    <3> QED
      BY <3>1, <3>2, IntGreatest
  <2>2. Recover(end, m) \in ends
    BY <1>3, <1>5, <2>1
  <2>3. Recover(end, m) \in resume..Len(m.text)
    BY <1>2, <2>2
  <2> QED
    BY <1>1, <2>3
<1> QED
  BY <1>4, <1>5

\* A recovered match ends behind the match and in the text.
LEMMA RecoveredEnds ==
  ASSUME NEW rule, NEW stack, NEW text, Len(text) \in Nat, NEW end \in 0..Len(text)
  PROVE  RecoverMatchEnd(rule, stack, text, end) \in end..Len(text)
<1> DEFINE m == [rule |-> rule, stack |-> stack, text |-> text]
           s == [k \in 1..Len(text) |-> m]
           A == Recoveries!States(end, s)
           S == {n \in Nat : n <= Len(text) => A[n] \in end..Len(text)}
<1>1. Len(s) = Len(text) /\ \A n \in 1..Len(text) : s[n] = m
  <2> HIDE DEF m
  <2> QED
    OBVIOUS
<1> HIDE DEF s
<1>2. A[0] = end /\ \A n \in 1..Len(text) : A[n] = Recover(A[n - 1], m)
  <2>1. Len(s) \in Nat
    BY <1>1
  <2>2. A[0] = end /\ \A n \in 1..Len(s) : A[n] = Recover(A[n - 1], s[n])
    BY <2>1, Recoveries!Iterates
  <2> HIDE DEF m
  <2> QED
    BY <1>1, <2>2
<1> HIDE DEF A
<1>3. 0 \in S
  BY <1>2
<1>4. ASSUME NEW n \in Nat, n \in S PROVE n + 1 \in S
  <2> SUFFICES ASSUME n + 1 <= Len(text) PROVE A[n + 1] \in end..Len(text)
    OBVIOUS
  <2>1. n + 1 \in 1..Len(text) /\ (n + 1) - 1 = n
    OBVIOUS
  <2>2. A[n] \in end..Len(text) /\ A[n + 1] = Recover(A[n], m)
    BY <1>2, <1>4, <2>1
  <2>3. m.text = text
    OBVIOUS
  <2> HIDE DEF m
  <2>4. Recover(A[n], m) \in A[n]..Len(text)
    BY <2>2, <2>3, RecoverEnds
  <2> QED
    BY <2>2, <2>4
<1>5. \A n \in Nat : n \in S
  <2> HIDE DEF S
  <2> QED
    BY <1>3, <1>4, Refs!SetInduction
<1>6. A[Len(text)] \in end..Len(text)
  BY <1>5
<1> QED
  BY <1>1, <1>6 DEF RecoverMatchEnd, Recoveries!After, A, s

\* A choice is the best of its candidates.
LEMMA Choosing ==
  ASSUME NEW n \in Nat, NEW s, NEW text, NEW built, NEW C,
         \A c \in C : c.index \in Nat /\ c.end \in 0..n,
         Choice(built, C, s, text).kind = "match"
  PROVE  Choice(built, C, s, text).step \in C
<1>1. C # {} /\ Choice(built, C, s, text) = [kind |-> "match", step |-> Best(C)]
  BY DEF Choice
<1> QED
  BY <1>1, BestExists

\* A chosen token ends in the text and not before it starts.
LEMMA Selecting ==
  ASSUME NEW s, NEW text, Len(text) \in Nat, s.offset \in 0..Len(text), NEW moment,
         SelectStep(s, text, moment).kind = "match"
  PROVE  SelectStep(s, text, moment).step.end \in s.offset..Len(text)
<1> DEFINE rules   == Rules(Top(s.stack).mode)
           empties == ScanEmptyState(rules, s, moment)
           matches == ScanRegexState(rules, s, text)
           free    == {m \in matches : ~Barred(m.rule, s.stack)}
           n       == Len(text)
<1>1. SelectStep(s, text, moment) =
        IF empties # {} \/ moment = "eof" THEN Choice(empties, empties, s, text)
        ELSE Choice(matches, free, s, text)
  BY DEF SelectStep
<1> HIDE DEF rules
<1>2. \A c \in empties : c.index \in Nat /\ c.end = s.offset
  BY DEF ScanEmptyState
<1>3. ASSUME NEW c \in matches PROVE c.index \in Nat /\ c.end \in s.offset..n
  <2>1. PICK i \in 1..Len(rules) : \E e \in MatchEnds(rules[i], s.stack, text, s.offset) :
          c = [rule |-> rules[i], index |-> i, end |-> RecoverMatchEnd(rules[i], s.stack, text, e)]
    BY DEF ScanRegexState
  <2>2. PICK e \in MatchEnds(rules[i], s.stack, text, s.offset) :
          c = [rule |-> rules[i], index |-> i, end |-> RecoverMatchEnd(rules[i], s.stack, text, e)]
    BY <2>1
  <2>3. e \in s.offset..Len(text)
    BY DEF MatchEnds
  <2>4. e \in 0..Len(text)
    BY <2>3
  <2>5. RecoverMatchEnd(rules[i], s.stack, text, e) \in e..Len(text)
    BY <2>4, RecoveredEnds
  <2> QED
    BY <2>2, <2>3, <2>5
<1> HIDE DEF empties, matches
<1>4. n \in Nat /\ s.offset \in 0..n
  OBVIOUS
<1> HIDE DEF n
<1>5. CASE empties # {} \/ moment = "eof"
  <2>1. \A c \in empties : c.index \in Nat /\ c.end \in 0..n
    BY <1>2, <1>4
  <2>2. Choice(empties, empties, s, text).kind = "match"
    BY <1>1, <1>5
  <2>3. Choice(empties, empties, s, text).step \in empties
    BY <1>4, <2>1, <2>2, Choosing
  <2>4. SelectStep(s, text, moment).step.end = s.offset
    BY <1>1, <1>2, <1>5, <2>3
  <2> QED
    BY <2>4
<1>6. CASE ~(empties # {} \/ moment = "eof")
  <2>1. \A c \in free : c.index \in Nat /\ c.end \in 0..n
    BY <1>3, <1>4
  <2>2. Choice(matches, free, s, text).kind = "match"
    BY <1>1, <1>6
  <2>3. Choice(matches, free, s, text).step \in free
    <3> HIDE DEF free
    <3> QED
      BY <1>4, <2>1, <2>2, Choosing
  <2>4. SelectStep(s, text, moment).step \in matches
    BY <1>1, <1>6, <2>3
  <2> QED
    BY <1>3, <2>4 DEF n
<1> QED
  BY <1>5, <1>6

-----------------------------------------------------------------------------
(* Scanning *)

\* The window of a replay that starts behind the first R entries.
WindowOK(w, R) ==
  /\ Sized(w.tape) /\ w.oldEnd \in Int /\ w.newEnd \in Int /\ w.shift \in Int
  /\ R \in 0..Len(w.tape)
  /\ R > 0 => LexicalStart(w.tape, R) <= w.oldEnd

\* Where a scan may hand over to the old tape.
HandsOver(rank, w, R, offset) ==
  rank # Absent => rank \in R..Len(w.tape) /\ LexicalStart(w.tape, rank) = offset - w.shift

\* The replay converges behind its start, at a boundary of the old tape.
LEMMA Converging ==
  ASSUME NEW w, NEW R, WindowOK(w, R), NEW s, s.offset \in Int
  PROVE  HandsOver(ConvergedRank(w, s), w, R, s.offset)
<1> DEFINE old  == s.offset - w.shift
           rank == LexicalRankAtByte(w.tape, old)
<1>1. old \in Int /\ Sized(w.tape) /\ Len(w.tape) \in Nat /\ R \in 0..Len(w.tape) /\ w.oldEnd \in Int
  BY StartSteps DEF WindowOK
<1> HIDE DEF old
<1>2. /\ rank \in 0..Len(w.tape)
      /\ \A r \in 1..Len(w.tape) : LexicalStart(w.tape, r) <= old <=> r <= rank
  BY <1>1, RankAt
<1> HIDE DEF rank
<1>3. ConvergedRank(w, s) =
        IF /\ s.offset >= w.newEnd /\ old >= w.oldEnd /\ LexicalStart(w.tape, rank) = old
           /\ StackBeforeRank(w.tape, rank) = s.stack
        THEN rank ELSE Absent
  BY DEF ConvergedRank, old, rank
<1>4. CASE ConvergedRank(w, s) = Absent
  BY <1>4 DEF HandsOver
<1>5. CASE ConvergedRank(w, s) # Absent
  <2>1. ConvergedRank(w, s) = rank /\ old >= w.oldEnd /\ LexicalStart(w.tape, rank) = old
    BY <1>3, <1>5
  <2>2. rank >= R
    <3>1. CASE R = 0
      BY <1>1, <1>2, <3>1
    <3>2. CASE R > 0
      <4>1. R \in 1..Len(w.tape) /\ R \in 0..Len(w.tape) /\ LexicalStart(w.tape, R) <= w.oldEnd
        BY <1>1, <3>2 DEF WindowOK
      <4>2. LexicalStart(w.tape, R) \in Nat
        BY <1>1, <4>1, StartTypes
      <4>3. LexicalStart(w.tape, R) <= old
        BY <1>1, <2>1, <4>1, <4>2
      <4> QED
        BY <1>1, <1>2, <4>1, <4>3
    <3> QED
      BY <1>1, <3>1, <3>2
  <2> QED
    BY <1>1, <1>2, <2>1, <2>2 DEF HandsOver, old
<1> QED
  BY <1>4, <1>5

\* How far the tokens of a scan from an offset reach.
Reach(out, from) == from + LexicalStart(out, Len(out))

\* The invariant of a scan of text from an offset: the tokens reach up to the
\* lexer state, or to the unexpected input still pending, and a scan that
\* stopped has converged or is at the end of the text.
Scanned(L, w, R, from, text) ==
  /\ L.s.offset \in 0..Len(text)
  /\ Sized(L.out)
  /\ L.unexpected = Absent => Reach(L.out, from) = L.s.offset
  /\ L.unexpected # Absent => /\ L.unexpected \in 0..L.s.offset
                              /\ Reach(L.out, from) = L.unexpected
  /\ HandsOver(L.rank, w, R, L.s.offset)
  /\ L.phase \in {"scan", "eof", "stopped", "fail"}
  /\ L.phase \in {"scan", "eof"} => L.rank = Absent
  /\ L.phase = "eof" => L.s.offset = Len(text) /\ L.unexpected = Absent
  /\ L.phase = "stopped" => /\ L.unexpected = Absent
                            /\ L.rank = Absent => L.s.offset = Len(text)

\* The callback for a token that ends where the lexer state s is.
LEMMA Emitting ==
  ASSUME NEW w, NEW R, WindowOK(w, R), NEW from \in Nat, NEW L, Sized(L.out),
         NEW s, s.offset \in Nat, NEW token, token.width \in Nat,
         Reach(L.out, from) + token.width = s.offset
  PROVE  LET E == Emit(L, w, s, token)
         IN /\ E.s = s /\ E.unexpected = L.unexpected /\ Sized(E.out)
            /\ Reach(E.out, from) = s.offset /\ HandsOver(E.rank, w, R, s.offset)
            /\ E.phase = IF E.rank = Absent THEN L.phase ELSE "stopped"
<1> DEFINE a == Append(L.out, token)
<1>1. Sized(a) /\ LexicalStart(a, Len(a)) = LexicalStart(L.out, Len(L.out)) + token.width
  BY StartAppend
<1>2. LexicalStart(L.out, Len(L.out)) \in Nat
  BY StartSteps, StartTypes
<1>3. HandsOver(ConvergedRank(w, s), w, R, s.offset)
  BY Converging
<1>4. Emit(L, w, s, token) = Scan(s, L.unexpected, L.seen, a, ConvergedRank(w, s),
                                  IF ConvergedRank(w, s) = Absent THEN L.phase ELSE "stopped")
  BY DEF Emit
<1> HIDE DEF a
<1>5. Reach(a, from) = s.offset
  BY <1>1, <1>2 DEF Reach
<1> QED
  BY <1>1, <1>3, <1>4, <1>5 DEF Scan

\* Pending unexpected input becomes a token.
LEMMA Flushing ==
  ASSUME NEW w, NEW R, WindowOK(w, R), NEW from \in Nat, NEW text, Len(text) \in Nat,
         NEW L, Scanned(L, w, R, from, text), L.unexpected # Absent, L.phase = "scan"
  PROVE  LET F == FlushUnexpected(L, w)
         IN /\ F.s = L.s /\ F.unexpected = Absent /\ Sized(F.out)
            /\ Reach(F.out, from) = L.s.offset /\ HandsOver(F.rank, w, R, L.s.offset)
            /\ F.phase = IF F.rank = Absent THEN "scan" ELSE "stopped"
<1> DEFINE token == ErrorToken("unexpected", L.unexpected, L.s)
           E == Emit(L, w, L.s, token)
<1>1. /\ L.s.offset \in Nat /\ L.unexpected \in 0..L.s.offset /\ Sized(L.out)
      /\ Reach(L.out, from) = L.unexpected
  BY DEF Scanned
<1>2. token.width = L.s.offset - L.unexpected
  BY DEF ErrorToken
<1> HIDE DEF token
<1>3. token.width \in Nat /\ Reach(L.out, from) + token.width = L.s.offset
  BY <1>1, <1>2
<1>4. /\ E.s = L.s /\ E.unexpected = L.unexpected /\ Sized(E.out)
      /\ Reach(E.out, from) = L.s.offset /\ HandsOver(E.rank, w, R, L.s.offset)
      /\ E.phase = IF E.rank = Absent THEN L.phase ELSE "stopped"
  BY <1>1, <1>3, Emitting
<1>5. FlushUnexpected(L, w) = Scan(E.s, Absent, E.seen, E.out, E.rank, E.phase)
  BY DEF FlushUnexpected, token
<1> HIDE DEF E
<1> QED
  BY <1>4, <1>5 DEF Scan

\* A matched token.
LEMMA Committing ==
  ASSUME NEW w, NEW R, WindowOK(w, R), NEW from \in Nat, NEW text, Len(text) \in Nat,
         NEW L, Scanned(L, w, R, from, text), L.unexpected = Absent, L.phase \in {"scan", "eof"},
         NEW step, step.end \in L.s.offset..Len(text)
  PROVE  Scanned(CommitMatch(L, w, text, step, ApplyMatch(L.s, step, text)), w, R, from, text)
<1> DEFINE s == ApplyMatch(L.s, step, text)
           token == MatchedToken(L, text, step, s)
           E == Emit(L, w, s, token)
           empty == step.end = L.s.offset
           C == CommitMatch(L, w, text, step, s)
<1>1. /\ L.s.offset \in 0..Len(text) /\ Sized(L.out) /\ Reach(L.out, from) = L.s.offset
      /\ L.rank = Absent /\ (L.phase = "eof" => L.s.offset = Len(text))
  BY DEF Scanned
<1>2. s.offset = step.end
  BY DEF ApplyMatch
<1>3. token.width = step.end - L.s.offset
  BY DEF MatchedToken
<1>4. CASE empty /\ s = L.s
  <2>1. C = InPhase(L, "fail")
    BY <1>4 DEF CommitMatch
  <2> HIDE DEF C
  <2> QED
    BY <1>1, <2>1 DEF Scanned, InPhase, Scan, C, HandsOver
<1>5. CASE ~(empty /\ s = L.s)
  <2>1. C = Scan(E.s, E.unexpected, IF empty THEN E.seen \union {s} ELSE {s}, E.out, E.rank,
                 IF E.phase # "stopped" /\ empty /\ s \in L.seen THEN "fail" ELSE E.phase)
    BY <1>5 DEF CommitMatch
  <2> HIDE DEF s, token
  <2>2. token.width \in Nat /\ s.offset \in Nat /\ Reach(L.out, from) + token.width = s.offset
    BY <1>1, <1>2, <1>3
  <2>3. /\ E.s = s /\ E.unexpected = L.unexpected /\ Sized(E.out)
        /\ Reach(E.out, from) = s.offset /\ HandsOver(E.rank, w, R, s.offset)
        /\ E.phase = IF E.rank = Absent THEN L.phase ELSE "stopped"
    BY <1>1, <2>2, Emitting
  <2> HIDE DEF E
  <2>4. /\ C.s = s /\ C.unexpected = Absent /\ C.out = E.out /\ C.rank = E.rank
        /\ C.phase \in {"fail", E.phase}
    BY <2>1, <2>3 DEF Scan
  <2> HIDE DEF C
  <2>5. C.phase = "eof" => s.offset = Len(text) /\ C.rank = Absent
    BY <1>1, <1>2, <2>3, <2>4
  <2>6. C.phase = "scan" => C.rank = Absent
    BY <2>3, <2>4
  <2>7. C.phase = "stopped" => C.rank # Absent
    BY <2>3, <2>4
  <2>8. s.offset \in 0..Len(text)
    BY <1>1, <1>2
  <2>9. Scanned(C, w, R, from, text)
    BY <2>3, <2>4, <2>5, <2>6, <2>7, <2>8 DEF Scanned
  <2> QED
    BY <2>9 DEF C, s
<1> QED
  BY <1>4, <1>5

\* One turn with the step it chose.
LEMMA Advancing ==
  ASSUME NEW w, NEW R, WindowOK(w, R), NEW from \in Nat, NEW text, Len(text) \in Nat,
         NEW L, Scanned(L, w, R, from, text), L.phase \in {"scan", "eof"},
         L.phase = "scan" => L.s.offset < Len(text),
         NEW chosen, chosen.kind \in {"fail", "none", "match"},
         chosen.kind = "match" => chosen.step.end \in L.s.offset..Len(text)
  PROVE  Scanned(Advance(L, w, text, chosen), w, R, from, text)
<1> DEFINE A == Advance(L, w, text, chosen)
<1>0. /\ L.s.offset \in 0..Len(text) /\ Sized(L.out) /\ L.rank = Absent
      /\ (L.phase = "eof" => L.s.offset = Len(text) /\ L.unexpected = Absent)
      /\ (L.unexpected = Absent => Reach(L.out, from) = L.s.offset)
      /\ (L.unexpected # Absent => L.unexpected \in 0..L.s.offset /\ Reach(L.out, from) = L.unexpected)
  BY DEF Scanned
<1>1. CASE chosen.kind = "fail"
  <2>1. A = InPhase(L, "fail")
    BY <1>1 DEF Advance
  <2> HIDE DEF A
  <2> QED
    BY <1>0, <2>1 DEF Scanned, InPhase, Scan, A, HandsOver
<1>2. CASE chosen.kind = "none" /\ L.phase = "scan"
  <2> DEFINE s == [offset |-> L.s.offset + 1, stack |-> L.s.stack]
             at == IF L.unexpected = Absent THEN L.s.offset ELSE L.unexpected
  <2>1. A = Scan(s, at, {s}, L.out, L.rank, L.phase)
    BY <1>2 DEF Advance
  <2>2. s.offset = L.s.offset + 1 /\ s.offset \in 0..Len(text)
    BY <1>0, <1>2
  <2>3. at # Absent /\ at \in 0..s.offset /\ Reach(L.out, from) = at
    BY <1>0, <2>2, LexerAssumption
  <2> HIDE DEF A, s, at
  <2>4. A.s = s /\ A.unexpected = at /\ A.out = L.out /\ A.rank = Absent /\ A.phase = "scan"
    BY <1>0, <1>2, <2>1 DEF Scan
  <2>5. Scanned(A, w, R, from, text)
    BY <1>0, <2>2, <2>3, <2>4 DEF Scanned, HandsOver
  <2> QED
    BY <2>5 DEF A
<1>3. CASE chosen.kind = "none" /\ L.phase = "eof"
  <2> DEFINE token == ErrorToken("boundary", L.s.offset, L.s)
             E == Emit(L, w, L.s, token)
  <2>1. A = InPhase(IF Len(L.s.stack) > 1 THEN E ELSE L, "stopped")
    BY <1>3 DEF Advance
  <2>2. token.width = L.s.offset - L.s.offset
    BY DEF ErrorToken
  <2> HIDE DEF token
  <2>3. token.width \in Nat /\ Reach(L.out, from) + token.width = L.s.offset /\ L.s.offset \in Nat
    BY <1>0, <1>3, <2>2
  <2>4. /\ E.s = L.s /\ E.unexpected = L.unexpected /\ Sized(E.out)
        /\ Reach(E.out, from) = L.s.offset /\ HandsOver(E.rank, w, R, L.s.offset)
    BY <1>0, <2>3, Emitting
  <2> HIDE DEF E
  <2>5. /\ A.s = L.s /\ A.unexpected = Absent /\ Sized(A.out) /\ Reach(A.out, from) = L.s.offset
        /\ HandsOver(A.rank, w, R, L.s.offset) /\ A.phase = "stopped"
    <3>1. CASE Len(L.s.stack) > 1
      BY <1>0, <1>3, <2>1, <2>4, <3>1 DEF InPhase, Scan
    <3>2. CASE ~(Len(L.s.stack) > 1)
      BY <1>0, <1>3, <2>1, <3>2 DEF InPhase, Scan, HandsOver
    <3> QED
      BY <3>1, <3>2
  <2> HIDE DEF A
  <2>6. Scanned(A, w, R, from, text)
    BY <1>0, <1>3, <2>5 DEF Scanned
  <2> QED
    BY <2>6 DEF A
<1>4. CASE chosen.kind = "match" /\ L.unexpected # Absent
  <2> DEFINE F == FlushUnexpected(L, w)
  <2>1. A = F
    BY <1>4 DEF Advance
  <2>2. L.phase = "scan"
    BY <1>0, <1>4
  <2>3. /\ F.s = L.s /\ F.unexpected = Absent /\ Sized(F.out)
        /\ Reach(F.out, from) = L.s.offset /\ HandsOver(F.rank, w, R, L.s.offset)
        /\ F.phase = IF F.rank = Absent THEN "scan" ELSE "stopped"
    BY <1>4, <2>2, Flushing
  <2> HIDE DEF F
  <2>4. Scanned(F, w, R, from, text)
    BY <1>0, <2>3 DEF Scanned
  <2> QED
    BY <2>1, <2>4
<1>5. CASE chosen.kind = "match" /\ L.unexpected = Absent
  <2>1. A = CommitMatch(L, w, text, chosen.step, ApplyMatch(L.s, chosen.step, text))
    BY <1>5 DEF Advance
  <2>2. Scanned(CommitMatch(L, w, text, chosen.step, ApplyMatch(L.s, chosen.step, text)), w, R, from, text)
    BY <1>5, Committing
  <2> QED
    BY <2>1, <2>2
<1> QED
  BY <1>1, <1>2, <1>3, <1>4, <1>5

\* A selection fails, finds nothing or finds a step.
LEMMA SelectKinds ==
  ASSUME NEW s, NEW text, NEW moment
  PROVE  SelectStep(s, text, moment).kind \in {"fail", "none", "match"}
BY DEF SelectStep, Choice

\* One turn of the scanning loop.
LEMMA Stepping ==
  ASSUME NEW w, NEW R, WindowOK(w, R), NEW from \in Nat, NEW text, Len(text) \in Nat,
         NEW L, Scanned(L, w, R, from, text), L.phase \in {"scan", "eof"}
  PROVE  Scanned(LexStep(L, w, text), w, R, from, text)
<1> DEFINE A == LexStep(L, w, text)
<1>0. /\ L.s.offset \in 0..Len(text) /\ Sized(L.out) /\ L.rank = Absent
      /\ (L.phase = "eof" => L.s.offset = Len(text) /\ L.unexpected = Absent)
      /\ (L.unexpected = Absent => Reach(L.out, from) = L.s.offset)
      /\ (L.unexpected # Absent => L.unexpected \in 0..L.s.offset /\ Reach(L.out, from) = L.unexpected)
  BY DEF Scanned
<1>1. CASE L.phase = "eof"
  <2> DEFINE chosen == SelectStep(L.s, text, "eof")
  <2>1. A = Advance(L, w, text, chosen)
    BY <1>1 DEF LexStep
  <2>2. chosen.kind \in {"fail", "none", "match"}
    BY SelectKinds
  <2>3. chosen.kind = "match" => chosen.step.end \in L.s.offset..Len(text)
    BY <1>0, Selecting
  <2> HIDE DEF chosen
  <2>4. Scanned(Advance(L, w, text, chosen), w, R, from, text)
    BY <1>1, <2>2, <2>3, Advancing
  <2> QED
    BY <2>1, <2>4
<1>2. CASE L.phase = "scan" /\ L.s.offset < Len(text)
  <2> DEFINE chosen == SelectStep(L.s, text, "normal")
  <2>1. A = Advance(L, w, text, chosen)
    BY <1>2 DEF LexStep
  <2>2. chosen.kind \in {"fail", "none", "match"}
    BY SelectKinds
  <2>3. chosen.kind = "match" => chosen.step.end \in L.s.offset..Len(text)
    BY <1>0, Selecting
  <2> HIDE DEF chosen
  <2>4. Scanned(Advance(L, w, text, chosen), w, R, from, text)
    BY <1>2, <2>2, <2>3, Advancing
  <2> QED
    BY <2>1, <2>4
<1>3. CASE L.phase = "scan" /\ L.s.offset = Len(text) /\ L.unexpected # Absent
  <2> DEFINE F == FlushUnexpected(L, w)
  <2>1. A = IF F.phase = "stopped" THEN F ELSE InPhase(F, "eof")
    BY <1>0, <1>3 DEF LexStep
  <2>2. /\ F.s = L.s /\ F.unexpected = Absent /\ Sized(F.out)
        /\ Reach(F.out, from) = L.s.offset /\ HandsOver(F.rank, w, R, L.s.offset)
        /\ F.phase = IF F.rank = Absent THEN "scan" ELSE "stopped"
    BY <1>3, Flushing
  <2> HIDE DEF F
  <2>3. /\ A.s = L.s /\ A.unexpected = Absent /\ A.out = F.out /\ A.rank = F.rank
        /\ A.phase = IF F.rank = Absent THEN "eof" ELSE "stopped"
    <3>1. CASE F.phase = "stopped"
      BY <2>1, <2>2, <3>1
    <3>2. CASE F.phase # "stopped"
      BY <2>1, <2>2, <3>2 DEF InPhase, Scan
    <3> QED
      BY <3>1, <3>2
  <2> HIDE DEF A
  <2>4. Scanned(A, w, R, from, text)
    BY <1>0, <1>3, <2>2, <2>3 DEF Scanned
  <2> QED
    BY <2>4 DEF A
<1>4. CASE L.phase = "scan" /\ L.s.offset = Len(text) /\ L.unexpected = Absent
  <2>1. A = InPhase(L, "eof")
    BY <1>0, <1>4 DEF LexStep
  <2> HIDE DEF A
  <2>2. A.s = L.s /\ A.unexpected = Absent /\ A.out = L.out /\ A.rank = Absent /\ A.phase = "eof"
    BY <1>0, <1>4, <2>1 DEF InPhase, Scan
  <2>3. Scanned(A, w, R, from, text)
    BY <1>0, <1>4, <2>2 DEF Scanned, HandsOver
  <2> QED
    BY <2>3 DEF A
<1> QED
  BY <1>0, <1>1, <1>2, <1>3, <1>4

\* A scan keeps its invariant for as many turns as it takes.
LEMMA Scanning ==
  ASSUME NEW w, NEW R, WindowOK(w, R), NEW text, Len(text) \in Nat,
         NEW start, start.offset \in 0..Len(text)
  PROVE  Scanned(LexCont(w, start, text), w, R, start.offset, text)
<1> DEFINE from == start.offset
           L0 == Scan(start, Absent, {start}, <<>>, Absent, "scan")
           e  == [w |-> w, text |-> text]
           s  == [k \in 1..MaxTurns |-> e]
           A  == Turns!States(L0, s)
           S  == {n \in Nat : n <= MaxTurns => Scanned(A[n], w, R, from, text)}
<1>0. MaxTurns \in Nat /\ from \in Nat
  BY LexerAssumption
<1>1. Len(s) = MaxTurns /\ \A n \in 1..MaxTurns : s[n] = e
  <2> HIDE DEF e
  <2> QED
    BY <1>0
<1> HIDE DEF s
<1>2. A[0] = L0 /\ \A n \in 1..MaxTurns : A[n] = Turn(A[n - 1], e)
  <2>1. Len(s) \in Nat
    BY <1>0, <1>1
  <2> HIDE DEF L0, e
  <2>2. A[0] = L0 /\ \A n \in 1..Len(s) : A[n] = Turn(A[n - 1], s[n])
    BY <2>1, Turns!Iterates
  <2> QED
    BY <1>1, <2>2
<1> HIDE DEF A
<1>3. 0 \in S
  <2>1. Sized(<<>>) /\ Reach(<<>>, from) = from
    <3>1. Sized(<<>>)
      BY SeqEmpty DEF Sized
    <3>2. LexicalStart(<<>>, Len(<<>>)) = 0
      BY <3>1, SeqEmpty, StartSteps
    <3> QED
      BY <1>0, <3>1, <3>2 DEF Reach
  <2>2. L0.s = start /\ L0.unexpected = Absent /\ L0.out = <<>> /\ L0.rank = Absent /\ L0.phase = "scan"
    BY DEF Scan
  <2> HIDE DEF L0
  <2>3. Scanned(L0, w, R, from, text)
    BY <2>1, <2>2 DEF Scanned, HandsOver
  <2> QED
    BY <1>2, <2>3
<1>4. ASSUME NEW n \in Nat, n \in S PROVE n + 1 \in S
  <2> SUFFICES ASSUME n + 1 <= MaxTurns PROVE Scanned(A[n + 1], w, R, from, text)
    OBVIOUS
  <2>1. n + 1 \in 1..MaxTurns /\ (n + 1) - 1 = n /\ n <= MaxTurns
    BY <1>0
  <2>2. Scanned(A[n], w, R, from, text) /\ A[n + 1] = Turn(A[n], e)
    BY <1>2, <1>4, <2>1
  <2>3. A[n + 1] = IF A[n].phase \in {"stopped", "fail"} THEN A[n] ELSE LexStep(A[n], w, text)
    BY <2>2 DEF Turn
  <2>4. CASE A[n].phase \in {"stopped", "fail"}
    BY <2>2, <2>3, <2>4
  <2>5. CASE A[n].phase \in {"scan", "eof"}
    <3>1. Scanned(LexStep(A[n], w, text), w, R, from, text)
      <4> HIDE DEF from
      <4> QED
        BY <1>0, <2>2, <2>5, Stepping
    <3> QED
      BY <2>3, <2>5, <3>1
  <2> QED
    BY <2>2, <2>4, <2>5 DEF Scanned
<1>5. \A n \in Nat : n \in S
  <2> HIDE DEF S
  <2> QED
    BY <1>3, <1>4, Refs!SetInduction
<1>6. Scanned(A[MaxTurns], w, R, from, text)
  BY <1>0, <1>5
<1> QED
  BY <1>1, <1>6 DEF LexCont, Turns!After, A, s

-----------------------------------------------------------------------------
(* Replaying a splice *)

\* A tape that covers a text.
Covers(tape, text) ==
  /\ Sized(tape) /\ IsSeq(text)
  /\ LexicalStart(tape, Len(tape)) = Len(text)

\* The tokens of a replay lie between a prefix and a suffix of the old tape, and
\* together with these they cover the new text.
Replays(doc, text, r) ==
  /\ Sized(r.out)
  /\ r.restart \in 0..Len(doc.lexical) /\ r.suffix \in r.restart..Len(doc.lexical)
  /\ LexicalStart(doc.lexical, r.restart) + LexicalStart(r.out, Len(r.out))
       + (Len(doc.text) - LexicalStart(doc.lexical, r.suffix)) = Len(text)

\* A replay that does not fail is such a replay.
LEMMA Replaying ==
  ASSUME NEW doc, Covers(doc.lexical, doc.text), NEW text, IsSeq(text),
         NEW splice, splice.os \in Nat, splice.oe \in Int, splice.ne \in Int,
         splice.os <= splice.oe, splice.os <= Len(text), Replay(doc, text, splice).ok
  PROVE  Replays(doc, text, Replay(doc, text, splice))
<1> DEFINE tape == doc.lexical
           R == LexicalRankAtByte(tape, splice.os)
           w == [tape |-> tape, oldEnd |-> splice.oe, newEnd |-> splice.ne,
                 shift |-> Len(text) - Len(doc.text)]
           start == [offset |-> LexicalStart(tape, R), stack |-> StackBeforeRank(tape, R)]
           L == LexCont(w, start, text)
           final == IF L.rank # Absent THEN L.rank ELSE ConvergedRank(w, L.s)
           r == Replay(doc, text, splice)
<1>1. r = [ok |-> L.phase = "stopped", out |-> L.out, restart |-> R,
           suffix |-> IF final = Absent THEN Len(tape) ELSE final]
  BY DEF Replay
<1>2. /\ Sized(tape) /\ Len(tape) \in Nat /\ Len(text) \in Nat /\ Len(doc.text) \in Nat
      /\ LexicalStart(tape, Len(tape)) = Len(doc.text)
      /\ \A n \in 0..Len(tape) : LexicalStart(tape, n) \in Nat
  BY SeqParts, StartSteps, StartTypes DEF Covers
<1>3. /\ R \in 0..Len(tape)
      /\ \A k \in 1..Len(tape) : LexicalStart(tape, k) <= splice.os <=> k <= R
  <2>1. Sized(tape) /\ splice.os \in Int
    BY <1>2
  <2> HIDE DEF tape
  <2> QED
    BY <2>1, RankAt
<1> HIDE DEF R, tape
<1>4. LexicalStart(tape, R) \in Nat /\ LexicalStart(tape, R) <= splice.os
  <2>1. CASE R = 0
    BY <1>2, <2>1, StartSteps
  <2>2. CASE R # 0
    <3>1. R \in 1..Len(tape) /\ R <= R
      BY <1>2, <1>3, <2>2
    <3> QED
      BY <1>2, <1>3, <3>1
  <2> QED
    BY <2>1, <2>2
<1>5. w.tape = tape /\ w.oldEnd = splice.oe /\ w.newEnd = splice.ne /\ w.shift = Len(text) - Len(doc.text)
  OBVIOUS
<1>6. start.offset = LexicalStart(tape, R)
  OBVIOUS
<1> HIDE DEF w, start
<1>7. WindowOK(w, R)
  BY <1>2, <1>3, <1>4, <1>5 DEF WindowOK
<1>8. start.offset \in 0..Len(text)
  BY <1>2, <1>4, <1>6
<1>9. Scanned(L, w, R, start.offset, text)
  BY <1>2, <1>7, <1>8, Scanning
<1> HIDE DEF L
<1>10. L.phase = "stopped"
  <2>1. r.ok
    OBVIOUS
  <2> HIDE DEF r, final
  <2>2. r.ok = (L.phase = "stopped")
    BY <1>1, Zenon
  <2> QED
    BY <2>1, <2>2, Zenon
<1>11. /\ L.s.offset \in 0..Len(text) /\ Sized(L.out) /\ Reach(L.out, start.offset) = L.s.offset
       /\ HandsOver(L.rank, w, R, L.s.offset) /\ (L.rank = Absent => L.s.offset = Len(text))
  BY <1>9, <1>10 DEF Scanned
<1>12. HandsOver(final, w, R, L.s.offset)
  <2>1. HandsOver(ConvergedRank(w, L.s), w, R, L.s.offset)
    BY <1>7, <1>11, Converging
  <2> QED
    BY <1>11, <2>1
<1>13. r.suffix \in R..Len(tape) /\ LexicalStart(tape, r.suffix) = L.s.offset - w.shift
  <2>1. CASE final = Absent
    <3>1. L.s.offset = Len(text) /\ r.suffix = Len(tape)
      BY <1>1, <1>11, <2>1
    <3> HIDE DEF r
    <3> QED
      BY <1>2, <1>3, <1>5, <3>1
  <2>2. CASE final # Absent
    BY <1>1, <1>5, <1>12, <2>2 DEF HandsOver
  <2> QED
    BY <2>1, <2>2
<1>14. r.restart = R /\ r.out = L.out
  BY <1>1
<1> HIDE DEF r
<1>15. LexicalStart(L.out, Len(L.out)) \in Nat
  BY <1>11, StartSteps, StartTypes
<1>16. LexicalStart(tape, R) + LexicalStart(L.out, Len(L.out)) = L.s.offset
  BY <1>6, <1>11 DEF Reach
<1>17. LexicalStart(tape, R) + LexicalStart(L.out, Len(L.out))
         + (Len(doc.text) - LexicalStart(tape, r.suffix)) = Len(text)
  BY <1>2, <1>4, <1>5, <1>11, <1>13, <1>15, <1>16
<1>18. Replays(doc, text, r)
  BY <1>3, <1>11, <1>13, <1>14, <1>17 DEF Replays, tape
<1> QED
  BY <1>18 DEF r

-----------------------------------------------------------------------------
(* What a patch says of the semantic tapes *)

\* Tapes whose semantic entries have equal references have equal semantic tapes.
LEMMA SemanticSame ==
  ASSUME NEW a, NEW b, IsSeq(a), IsSeq(b), Len(a) = Len(b),
         \A k \in 1..Len(a) : /\ IsSemantic(a[k]) = IsSemantic(b[k])
                              /\ IsSemantic(a[k]) => ParseTokenRef(a[k]) = ParseTokenRef(b[k])
  PROVE  Semantic(a) = Semantic(b)
<1> DEFINE A == Refs!States(<<>>, a)
           B == Refs!States(<<>>, b)
           S == {n \in Nat : n <= Len(a) => A[n] = B[n]}
<1>0. Len(a) \in Nat
  BY SeqParts
<1>1. /\ A[0] = <<>> /\ \A n \in 1..Len(a) : A[n] = AddRef(A[n - 1], a[n])
      /\ B[0] = <<>> /\ \A n \in 1..Len(a) : B[n] = AddRef(B[n - 1], b[n])
  BY <1>0, Refs!Iterates
<1>2. Semantic(a) = A[Len(a)] /\ Semantic(b) = B[Len(a)]
  BY DEF Semantic, Refs!After
<1> HIDE DEF A, B
<1>3. 0 \in S
  BY <1>1
<1>4. ASSUME NEW n \in Nat, n \in S PROVE n + 1 \in S
  <2> SUFFICES ASSUME n + 1 <= Len(a) PROVE A[n + 1] = B[n + 1]
    OBVIOUS
  <2>1. n + 1 \in 1..Len(a) /\ (n + 1) - 1 = n
    BY <1>0
  <2>2. A[n + 1] = AddRef(A[n], a[n + 1]) /\ B[n + 1] = AddRef(B[n], b[n + 1])
    BY <1>1, <2>1
  <2>3. A[n] = B[n]
    BY <1>4, <2>1
  <2>4. CASE IsSemantic(a[n + 1])
    <3>1. IsSemantic(b[n + 1]) /\ ParseTokenRef(a[n + 1]) = ParseTokenRef(b[n + 1])
      BY <2>1, <2>4
    <3> QED
      BY <2>2, <2>3, <2>4, <3>1 DEF AddRef
  <2>5. CASE ~IsSemantic(a[n + 1])
    <3>1. ~IsSemantic(b[n + 1])
      BY <2>1, <2>5
    <3> QED
      BY <2>2, <2>3, <2>5, <3>1 DEF AddRef
  <2> QED
    BY <2>4, <2>5
<1>5. \A n \in Nat : n \in S
  <2> HIDE DEF S
  <2> QED
    BY <1>3, <1>4, Refs!SetInduction
<1> QED
  BY <1>0, <1>2, <1>5

\* No occurrence is on a semantic tape twice, and all were drawn before next.
DistinctRefs(refs, next) ==
  /\ IsSeq(refs) /\ next \in Nat
  /\ \A k \in 1..Len(refs) : refs[k].occurrence \in Nat /\ refs[k].occurrence < next
  /\ \A j, k \in 1..Len(refs) : refs[j].occurrence = refs[k].occurrence => j = k

\* Such is the semantic tape of a tape with identities.
LEMMA SemanticDistinct ==
  ASSUME NEW tape, NEW next, Ided(tape, next)
  PROVE  DistinctRefs(Semantic(tape), next)
<1> DEFINE A == Refs!States(<<>>, tape)
           Good(n) == /\ IsSeq(A[n])
                      /\ \A k \in 1..Len(A[n]) : \E i \in 1..n : A[n][k].occurrence = tape[i].id
                      /\ \A j, k \in 1..Len(A[n]) : A[n][j].occurrence = A[n][k].occurrence => j = k
           S == {n \in Nat : n <= Len(tape) => Good(n)}
<1>0. Len(tape) \in Nat /\ next \in Nat
  BY SeqParts DEF Ided
<1>1. A[0] = <<>> /\ \A n \in 1..Len(tape) : A[n] = AddRef(A[n - 1], tape[n])
  <2> HIDE DEF S, Good
  <2>1. Len(tape) \in Nat
    BY <1>0
  <2> QED
    BY <2>1, Refs!Iterates
<1>2. Semantic(tape) = A[Len(tape)]
  BY DEF Semantic, Refs!After
<1> HIDE DEF A
<1>3. 0 \in S
  BY <1>1, SeqEmpty
<1>4. ASSUME NEW n \in Nat, n \in S PROVE n + 1 \in S
  <2> SUFFICES ASSUME n + 1 <= Len(tape) PROVE Good(n + 1)
    <3> HIDE DEF Good
    <3> QED
      OBVIOUS
  <2>1. n + 1 \in 1..Len(tape) /\ (n + 1) - 1 = n /\ n <= Len(tape)
    BY <1>0
  <2>2. A[n + 1] = AddRef(A[n], tape[n + 1])
    BY <1>1, <2>1
  <2>3. Good(n)
    BY <1>4, <2>1
  <2>4. CASE IsSemantic(tape[n + 1])
    <3> DEFINE x == ParseTokenRef(tape[n + 1])
               m == Len(A[n])
    <3>1. A[n + 1] = Append(A[n], x) /\ x.occurrence = tape[n + 1].id
      BY <2>2, <2>4 DEF AddRef, ParseTokenRef
    <3> HIDE DEF x
    <3>2. /\ IsSeq(A[n + 1]) /\ Len(A[n + 1]) = m + 1 /\ m \in Nat
          /\ \A k \in 1..m : A[n + 1][k] = A[n][k]
          /\ A[n + 1][m + 1] = x
      BY <2>3, <3>1, SeqAppend, SeqParts
    <3> HIDE DEF m
    <3>3. \A k \in 1..(m + 1) : k \in 1..m \/ k = m + 1
      BY <3>2
    <3>4. \A k \in 1..m : \E i \in 1..n : A[n + 1][k].occurrence = tape[i].id
      BY <2>3, <3>2 DEF m
    <3>5. \A k \in 1..(m + 1) : \E i \in 1..(n + 1) : A[n + 1][k].occurrence = tape[i].id
      <4>1. \A i \in 1..n : i \in 1..(n + 1)
        OBVIOUS
      <4> QED
        BY <2>1, <3>1, <3>2, <3>3, <3>4, <4>1
    <3>6. \A i \in 1..n : i \in 1..Len(tape) /\ i # n + 1
      BY <1>0, <2>1
    <3>7. \A k \in 1..m : A[n + 1][k].occurrence # tape[n + 1].id
      BY <2>1, <3>4, <3>6 DEF Ided
    <3>8. \A j, k \in 1..m : A[n + 1][j].occurrence = A[n + 1][k].occurrence => j = k
      BY <2>3, <3>2 DEF m
    <3>9. \A j, k \in 1..(m + 1) : A[n + 1][j].occurrence = A[n + 1][k].occurrence => j = k
      BY <3>1, <3>2, <3>3, <3>7, <3>8
    <3> QED
      BY <3>2, <3>5, <3>9
  <2>5. CASE ~IsSemantic(tape[n + 1])
    <3>1. A[n + 1] = A[n]
      BY <2>2, <2>5 DEF AddRef
    <3>2. \A i \in 1..n : i \in 1..(n + 1)
      OBVIOUS
    <3> QED
      BY <2>3, <3>1, <3>2
  <2> QED
    BY <2>4, <2>5
<1>5. \A n \in Nat : n \in S
  <2> HIDE DEF S
  <2> QED
    BY <1>3, <1>4, Refs!SetInduction
<1>6. Good(Len(tape))
  BY <1>0, <1>5
<1>7. \A i \in 1..Len(tape) : tape[i].id \in Nat /\ tape[i].id < next
  BY DEF Ided
<1>8. \A k \in 1..Len(A[Len(tape)]) : A[Len(tape)][k].occurrence \in Nat /\ A[Len(tape)][k].occurrence < next
  BY <1>6, <1>7
<1> QED
  BY <1>0, <1>2, <1>6, <1>8 DEF DistinctRefs

\* The common prefix is one, and the longest.
LEMMA PrefixLongest ==
  ASSUME NEW a, NEW b, IsSeq(a), IsSeq(b)
  PROVE  LET p == CommonPrefix(a, b)
         IN SharePrefix(a, b, p) /\ (p < Len(a) /\ p < Len(b) => a[p + 1] # b[p + 1])
<1>0. Len(a) \in Nat /\ Len(b) \in Nat
  BY SeqParts
<1> DEFINE E == {n \in Nat : n >= Len(a) \/ n >= Len(b) \/ a[n + 1] # b[n + 1]}
<1>1. Len(a) \in E /\ Len(b) \in E
  BY <1>0
<1>2. PICK n \in E : \A m \in E : ~(m < n)
  <2>1. E \in SUBSET Nat /\ E # {}
    BY <1>1
  <2> HIDE DEF E
  <2> QED
    BY <2>1, Refs!NatLeast
<1>3. n \in 0..Len(a) /\ n <= Len(b) /\ (n < Len(a) /\ n < Len(b) => a[n + 1] # b[n + 1])
  BY <1>0, <1>1, <1>2
<1>4. ASSUME NEW k \in 1..n PROVE a[k] = b[k]
  <2>1. k - 1 \in Nat /\ k - 1 < n /\ (k - 1) + 1 = k
    BY <1>2
  <2>2. k - 1 \notin E
    BY <1>2, <2>1
  <2> QED
    BY <2>1, <2>2
<1> QED
  BY <1>3, <1>4 DEF CommonPrefix, SharePrefix

\* So is the common suffix.
LEMMA SuffixLongest ==
  ASSUME NEW a, NEW b, IsSeq(a), IsSeq(b), NEW p, SharePrefix(a, b, p)
  PROVE  LET q == CommonSuffix(a, b, p)
         IN /\ ShareSuffix(a, b, p, q)
            /\ q < Len(a) - p /\ q < Len(b) - p => a[Len(a) - q] # b[Len(b) - q]
<1>0. Len(a) \in Nat /\ Len(b) \in Nat /\ p \in Nat /\ Len(a) - p \in Nat /\ Len(b) - p \in Nat
  <2>1. Len(a) \in Nat /\ Len(b) \in Nat
    BY SeqParts
  <2> QED
    BY <2>1 DEF SharePrefix
<1> DEFINE E == {n \in Nat : n >= Len(a) - p \/ n >= Len(b) - p \/ a[Len(a) - n] # b[Len(b) - n]}
<1>1. Len(a) - p \in E /\ Len(b) - p \in E
  BY <1>0
<1>2. PICK n \in E : \A m \in E : ~(m < n)
  <2>1. E \in SUBSET Nat /\ E # {}
    BY <1>1
  <2> HIDE DEF E
  <2> QED
    BY <2>1, Refs!NatLeast
<1>3. /\ n \in 0..(Len(a) - p) /\ n <= Len(b) - p
      /\ (n < Len(a) - p /\ n < Len(b) - p => a[Len(a) - n] # b[Len(b) - n])
  <2>1. ~(Len(a) - p < n) /\ ~(Len(b) - p < n)
    BY <1>1, <1>2
  <2>2. n \in Nat /\ (n >= Len(a) - p \/ n >= Len(b) - p \/ a[Len(a) - n] # b[Len(b) - n])
    OBVIOUS
  <2> QED
    BY <1>0, <2>1, <2>2
<1>4. ASSUME NEW k \in 0..(n - 1) PROVE a[Len(a) - k] = b[Len(b) - k]
  <2>1. k \in Nat /\ k < n
    BY <1>2
  <2>2. k \notin E
    BY <1>2, <2>1
  <2> QED
    BY <2>1, <2>2
<1> QED
  BY <1>3, <1>4 DEF CommonSuffix, ShareSuffix

\* b is a with a middle of its own, whose occurrences were drawn from next on.
Regrown(a, b, next) ==
  \E p, q : /\ SharePrefix(a, b, p) /\ ShareSuffix(a, b, p, q)
            /\ \A k \in (p + 1)..(Len(b) - q) : b[k].occurrence \in Nat /\ b[k].occurrence >= next

\* So it is when only a middle is replaced.
LEMMA GrownParts ==
  ASSUME NEW x, NEW y, NEW m, NEW z, IsSeq(x), IsSeq(y), IsSeq(m), IsSeq(z), NEW next,
         \A k \in 1..Len(m) : m[k].occurrence \in Nat /\ m[k].occurrence >= next
  PROVE  Regrown((x \o y) \o z, (x \o m) \o z, next)
<1> DEFINE s == x \o y
           t == x \o m
           a == s \o z
           b == t \o z
           p == Len(x)
           q == Len(z)
<1>0. Len(x) \in Nat /\ Len(y) \in Nat /\ Len(m) \in Nat /\ Len(z) \in Nat
  BY SeqParts
<1>1. /\ IsSeq(s) /\ Len(s) = Len(x) + Len(y) /\ (\A k \in 1..Len(x) : s[k] = x[k])
      /\ IsSeq(t) /\ Len(t) = Len(x) + Len(m) /\ (\A k \in 1..Len(x) : t[k] = x[k])
      /\ \A k \in 1..Len(m) : t[Len(x) + k] = m[k]
  BY SeqConcat
<1> HIDE DEF s, t
<1>2. /\ IsSeq(a) /\ Len(a) = Len(s) + Len(z) /\ (\A k \in 1..Len(s) : a[k] = s[k])
      /\ (\A k \in 1..Len(z) : a[Len(s) + k] = z[k])
      /\ IsSeq(b) /\ Len(b) = Len(t) + Len(z) /\ (\A k \in 1..Len(t) : b[k] = t[k])
      /\ (\A k \in 1..Len(z) : b[Len(t) + k] = z[k])
  <2>1. IsSeq(s) /\ IsSeq(t)
    BY <1>1
  <2>2. /\ IsSeq(a) /\ Len(a) = Len(s) + Len(z) /\ (\A k \in 1..Len(s) : a[k] = s[k])
        /\ (\A k \in 1..Len(z) : a[Len(s) + k] = z[k])
    BY <2>1, SeqConcat
  <2>3. /\ IsSeq(b) /\ Len(b) = Len(t) + Len(z) /\ (\A k \in 1..Len(t) : b[k] = t[k])
        /\ (\A k \in 1..Len(z) : b[Len(t) + k] = z[k])
    BY <2>1, SeqConcat
  <2> QED
    BY <2>2, <2>3
<1> HIDE DEF a, b
<1>3. Len(a) = Len(x) + Len(y) + Len(z) /\ Len(b) = Len(x) + Len(m) + Len(z)
  BY <1>1, <1>2
<1>4. ASSUME NEW k \in 1..p PROVE a[k] = b[k]
  <2>1. k \in 1..Len(x) /\ k \in 1..Len(s) /\ k \in 1..Len(t)
    BY <1>0, <1>1
  <2> QED
    BY <1>1, <1>2, <2>1
<1>5. SharePrefix(a, b, p)
  BY <1>0, <1>3, <1>4 DEF SharePrefix
<1>6. ASSUME NEW k \in 0..(q - 1) PROVE a[Len(a) - k] = b[Len(b) - k]
  <2>1. /\ Len(z) - k \in 1..Len(z)
        /\ Len(a) - k = Len(s) + (Len(z) - k) /\ Len(b) - k = Len(t) + (Len(z) - k)
    BY <1>0, <1>1, <1>2
  <2>2. a[Len(s) + (Len(z) - k)] = z[Len(z) - k] /\ b[Len(t) + (Len(z) - k)] = z[Len(z) - k]
    BY <1>2, <2>1
  <2> QED
    BY <2>1, <2>2
<1>7. ShareSuffix(a, b, p, q)
  BY <1>0, <1>3, <1>6 DEF ShareSuffix
<1>8. ASSUME NEW k \in (p + 1)..(Len(b) - q) PROVE b[k].occurrence \in Nat /\ b[k].occurrence >= next
  <2>1. k - Len(x) \in 1..Len(m) /\ Len(x) + (k - Len(x)) = k /\ k \in 1..Len(t)
    BY <1>0, <1>1, <1>3
  <2>2. b[k] = m[k - Len(x)]
    BY <1>1, <1>2, <2>1
  <2> QED
    BY <2>1, <2>2
<1>9. Regrown(a, b, next)
  <2> HIDE DEF p, q
  <2> QED
    BY <1>5, <1>7, <1>8 DEF Regrown
<1> QED
  BY <1>9 DEF a, b, s, t

\* A tape is such of itself.
LEMMA GrownSame ==
  ASSUME NEW a, IsSeq(a), NEW next
  PROVE  Regrown(a, a, next)
<1>0. Len(a) \in Nat
  BY SeqParts
<1> DEFINE p == Len(a)
<1>1. SharePrefix(a, a, p) /\ ShareSuffix(a, a, p, 0)
  BY <1>0 DEF SharePrefix, ShareSuffix
<1>2. ~(\E k \in (p + 1)..(Len(a) - 0) : TRUE)
  BY <1>0
<1> QED
  BY <1>1, <1>2 DEF Regrown

\* Entries that make the same of the semantic tape.
SameRef(s, t) ==
  /\ IsSemantic(s) = IsSemantic(t)
  /\ IsSemantic(s) => ParseTokenRef(s) = ParseTokenRef(t)

\* An entry and one that is identified as it, of equal segments or equal structure.
LEMMA IdentifiedRef ==
  ASSUME NEW s, NEW t, Segment(s) = Segment(t) \/ StructuralEq(s, t)
  PROVE  SameRef(s, Identified(t, s.id))
<1> DEFINE r == Identified(t, s.id)
<1>1. r.id = s.id /\ r.terminal = t.terminal /\ r.skip = t.skip /\ r.error = t.error
  BY DEF Identified
<1> HIDE DEF r
<1>2. s.terminal = t.terminal /\ s.skip = t.skip /\ (s.error # Absent) = (t.error # Absent)
  BY DEF Segment, Payload, StructuralEq
<1>3. SameRef(s, r)
  BY <1>1, <1>2 DEF SameRef, IsSemantic, ParseTokenRef
<1> QED
  BY <1>3 DEF r

\* Reconciling leaves the references at both ends as they are; those between are
\* new, unless all stay.
LEMMA ReconcilingGrows ==
  ASSUME NEW old, NEW new, NEW next, Ided(old, next), IsSeq(new)
  PROVE  Regrown(Semantic(old), Semantic(ReconcileOccurrenceIds(old, new, next).tokens), next)
<1> DEFINE a == Segments(old)
           b == Segments(new)
           p == CommonPrefix(a, b)
           q == CommonSuffix(a, b, p)
           n == Len(new)
           m == Len(old)
           shape == m = n /\ \A k \in (p + 1)..(n - q) : StructuralEq(old[k], new[k])
           kept == IF shape THEN 1..n ELSE 1..p \union (n - q + 1)..n
           partner == [k \in kept |-> IF k <= p \/ shape THEN k ELSE k - n + m]
           T == Numbered(old, new, next, kept, partner).tokens
<1>0. n \in Nat /\ m \in Nat /\ DOMAIN old = 1..m /\ DOMAIN new = 1..n /\ IsSeq(old) /\ next \in Nat
  BY SeqParts DEF Ided
<1>1. IsSeq(a) /\ Len(a) = m /\ IsSeq(b) /\ Len(b) = n
  <2>1. DOMAIN a = 1..m /\ a = [k \in 1..m |-> a[k]] /\ DOMAIN b = 1..n /\ b = [k \in 1..n |-> b[k]]
    BY <1>0 DEF Segments
  <2> HIDE DEF a, b
  <2> QED
    BY <1>0, <2>1, SeqOfFunction
<1>2. (\A k \in 1..m : a[k] = Segment(old[k])) /\ \A k \in 1..n : b[k] = Segment(new[k])
  BY <1>0 DEF Segments
<1>3. ReconcileOccurrenceIds(old, new, next).tokens = T
  BY DEF ReconcileOccurrenceIds, KeepEnds
<1> HIDE DEF a, b
<1>4. SharePrefix(a, b, p)
  BY <1>1, PrefixExists
<1> HIDE DEF p
<1>5. ShareSuffix(a, b, p, q)
  BY <1>1, <1>4, SuffixExists
<1> HIDE DEF q
<1>6. /\ p \in Nat /\ q \in Nat /\ p + q <= m /\ p + q <= n
      /\ \A k \in 1..p : a[k] = b[k]
      /\ \A k \in 0..(q - 1) : a[m - k] = b[n - k]
  BY <1>0, <1>1, <1>4, <1>5 DEF SharePrefix, ShareSuffix
<1>7. \A k \in 1..p : Segment(old[k]) = Segment(new[k])
  BY <1>0, <1>2, <1>6
<1>8. ASSUME NEW k \in (n - q + 1)..n PROVE k - n + m \in 1..m /\ Segment(old[k - n + m]) = Segment(new[k])
  <2>1. n - k \in 0..(q - 1) /\ m - (n - k) = k - n + m /\ n - (n - k) = k
    BY <1>0, <1>6
  <2>2. k - n + m \in 1..m /\ k \in 1..n
    BY <1>0, <1>6
  <2>3. a[k - n + m] = b[k]
    BY <1>6, <2>1
  <2> QED
    BY <1>2, <2>2, <2>3
<1>9. kept = IF shape THEN 1..n ELSE 1..p \union (n - q + 1)..n
  OBVIOUS
<1>10. kept \in SUBSET (1..n)
  <2> HIDE DEF shape, kept
  <2>1. CASE shape
    BY <1>9, <2>1
  <2>2. CASE ~shape
    BY <1>0, <1>6, <1>9, <2>2
  <2> QED
    BY <2>1, <2>2
<1> DEFINE F(k) == Cardinality(1..(k - 1) \ kept)
<1>11. T = [k \in 1..n |-> Identified(new[k], IF k \in kept THEN old[partner[k]].id ELSE next + F(k))]
  BY DEF Numbered
<1>12. \A k \in kept : partner[k] = IF k <= p \/ shape THEN k ELSE k - n + m
  <2> HIDE DEF kept, shape
  <2> QED
    OBVIOUS
<1>13. shape => m = n /\ \A k \in (p + 1)..(n - q) : StructuralEq(old[k], new[k])
  OBVIOUS
<1>14. \A k \in 1..n : F(k) \in Nat
  <2> HIDE DEF kept, T
  <2> QED
    BY <1>0, <1>10, Counting
<1> HIDE DEF T, F, kept, partner, shape
<1>15. IsSeq(T) /\ Len(T) = n
  <2>1. DOMAIN T = 1..n /\ T = [k \in 1..n |-> T[k]]
    BY <1>11
  <2> QED
    BY <1>0, <2>1, SeqOfFunction
<1>16. CASE shape
  <2>1. ASSUME NEW k \in 1..n PROVE SameRef(old[k], T[k])
    <3>1. k \in kept /\ partner[k] = k
      BY <1>9, <1>12, <1>16
    <3>2. T[k] = Identified(new[k], old[k].id)
      BY <1>11, <3>1
    <3>3. k \in 1..p \/ k \in (p + 1)..(n - q) \/ k \in (n - q + 1)..n
      BY <1>0, <1>6
    <3>4. Segment(old[k]) = Segment(new[k]) \/ StructuralEq(old[k], new[k])
      <4>1. CASE k \in 1..p
        BY <1>7, <4>1
      <4>2. CASE k \in (p + 1)..(n - q)
        BY <1>13, <1>16, <4>2
      <4>3. CASE k \in (n - q + 1)..n
        <5>1. k - n + m = k
          BY <1>0, <1>13, <1>16
        <5> QED
          BY <1>8, <4>3, <5>1
      <4> QED
        BY <3>3, <4>1, <4>2, <4>3
    <3> QED
      BY <3>2, <3>4, IdentifiedRef
  <2>2. Semantic(old) = Semantic(T)
    <3>1. Len(old) = Len(T) /\ IsSeq(T)
      BY <1>13, <1>15, <1>16
    <3>2. \A k \in 1..Len(old) : /\ IsSemantic(old[k]) = IsSemantic(T[k])
                                 /\ IsSemantic(old[k]) => ParseTokenRef(old[k]) = ParseTokenRef(T[k])
      BY <1>13, <1>16, <2>1 DEF SameRef
    <3> QED
      BY <1>0, <3>1, <3>2, SemanticSame
  <2>3. IsSeq(Semantic(old))
    BY <1>0, SemanticParts
  <2>4. Regrown(Semantic(old), Semantic(T), next)
    BY <2>2, <2>3, GrownSame
  <2> QED
    BY <1>3, <2>4
<1>17. CASE ~shape
  <2> DEFINE o1 == SubSeq(old, 1, p)
             o2 == SubSeq(old, p + 1, m - q)
             o3 == SubSeq(old, (m - q) + 1, m)
             t1 == SubSeq(T, 1, p)
             t2 == SubSeq(T, p + 1, n - q)
             t3 == SubSeq(T, (n - q) + 1, n)
  <2>1. /\ p \in 0..m /\ m - q \in p..m /\ m - q \in 0..m /\ m \in (m - q)..m
        /\ p \in 0..n /\ n - q \in p..n /\ n - q \in 0..n /\ n \in (n - q)..n
        /\ 0 + 1 = 1 /\ 0 \in 0..m /\ 0 \in 0..n /\ p \in 0..p
        /\ m - (m - q) = q /\ n - (n - q) = q /\ p - 0 = p
    BY <1>0, <1>6
  <2>2. /\ IsSeq(o1) /\ IsSeq(o2) /\ IsSeq(o3) /\ old = (o1 \o o2) \o o3
    <3>1. m - q \in p..Len(old) /\ p \in 0..Len(old)
      BY <2>1
    <3>2. m = Len(old)
      OBVIOUS
    <3> HIDE DEF m
    <3> QED
      BY <1>0, <3>1, <3>2, Windowed
  <2>3. /\ IsSeq(t1) /\ IsSeq(t2) /\ IsSeq(t3) /\ T = (t1 \o t2) \o t3
    <3>1. n - q \in p..Len(T) /\ p \in 0..Len(T)
      BY <1>15, <2>1
    <3>2. n = Len(T)
      BY <1>15
    <3> HIDE DEF n
    <3> QED
      BY <1>15, <3>1, <3>2, Windowed
  <2>4. /\ Len(o1) = p /\ (\A k \in 1..p : o1[k] = old[k])
        /\ Len(t1) = p /\ (\A k \in 1..p : t1[k] = T[k])
    <3>1. /\ Len(SubSeq(old, 0 + 1, p)) = p - 0 /\ (\A k \in 1..(p - 0) : SubSeq(old, 0 + 1, p)[k] = old[0 + k])
          /\ Len(SubSeq(T, 0 + 1, p)) = p - 0 /\ (\A k \in 1..(p - 0) : SubSeq(T, 0 + 1, p)[k] = T[0 + k])
      <4>1. 0 \in 0..Len(old) /\ p \in 0..Len(old) /\ 0 \in 0..Len(T) /\ p \in 0..Len(T)
        BY <1>15, <2>1
      <4> QED
        BY <1>0, <1>15, <4>1, SeqSub
    <3>2. \A k \in 1..p : 0 + k = k
      OBVIOUS
    <3> QED
      BY <2>1, <3>1, <3>2
  <2>5. /\ Len(o3) = q /\ (\A k \in 1..q : o3[k] = old[(m - q) + k])
        /\ Len(t3) = q /\ (\A k \in 1..q : t3[k] = T[(n - q) + k])
    <3>1. /\ Len(o3) = m - (m - q) /\ (\A k \in 1..(m - (m - q)) : o3[k] = old[(m - q) + k])
      <4>1. m - q \in 0..Len(old) /\ m \in (m - q)..Len(old)
        BY <2>1
      <4> HIDE DEF m
      <4> QED
        BY <1>0, <4>1, SeqSub
    <3>2. /\ Len(t3) = n - (n - q) /\ (\A k \in 1..(n - (n - q)) : t3[k] = T[(n - q) + k])
      <4>1. n - q \in 0..Len(T) /\ n \in (n - q)..Len(T)
        BY <1>15, <2>1
      <4> HIDE DEF n
      <4> QED
        BY <1>15, <4>1, SeqSub
    <3> HIDE DEF o3, t3
    <3> QED
      BY <2>1, <3>1, <3>2
  <2>6. Len(t2) = (n - q) - p /\ \A k \in 1..((n - q) - p) : t2[k] = T[p + k]
    <3>1. p \in 0..Len(T) /\ n - q \in p..Len(T)
      BY <1>15, <2>1
    <3> QED
      BY <1>15, <3>1, SeqSub
  <2> HIDE DEF o1, o2, o3, t1, t2, t3
  <2>7. Semantic(o1) = Semantic(t1)
    <3>1. ASSUME NEW k \in 1..p PROVE SameRef(o1[k], t1[k])
      <4>1. k \in kept /\ k \in 1..n /\ partner[k] = k
        <5>1. k \in 1..n /\ k <= p
          BY <1>0, <1>6
        <5> QED
          BY <1>9, <1>12, <1>17, <5>1
      <4>2. T[k] = Identified(new[k], old[k].id)
        BY <1>11, <4>1
      <4> QED
        BY <1>7, <2>4, <4>2, IdentifiedRef
    <3>2. Len(o1) = Len(t1) /\ \A k \in 1..Len(o1) :
            /\ IsSemantic(o1[k]) = IsSemantic(t1[k])
            /\ IsSemantic(o1[k]) => ParseTokenRef(o1[k]) = ParseTokenRef(t1[k])
      BY <2>4, <3>1 DEF SameRef
    <3> QED
      BY <2>2, <2>3, <3>2, SemanticSame
  <2>8. Semantic(o3) = Semantic(t3)
    <3>1. ASSUME NEW k \in 1..q PROVE SameRef(o3[k], t3[k])
      <4> DEFINE j == (n - q) + k
      <4>1. j \in (n - q + 1)..n /\ ~(j <= p) /\ j - n + m = (m - q) + k /\ j \in 1..n
        BY <1>0, <1>6
      <4> HIDE DEF j
      <4>2. j \in kept /\ partner[j] = j - n + m
        BY <1>9, <1>12, <1>17, <4>1
      <4>3. T[j] = Identified(new[j], old[j - n + m].id)
        BY <1>11, <4>1, <4>2
      <4>4. Segment(old[j - n + m]) = Segment(new[j])
        BY <1>8, <4>1
      <4>5. SameRef(old[j - n + m], T[j])
        BY <4>3, <4>4, IdentifiedRef
      <4>6. o3[k] = old[j - n + m] /\ t3[k] = T[j]
        BY <2>5, <4>1 DEF j
      <4> QED
        BY <4>5, <4>6
    <3>2. Len(o3) = Len(t3) /\ \A k \in 1..Len(o3) :
            /\ IsSemantic(o3[k]) = IsSemantic(t3[k])
            /\ IsSemantic(o3[k]) => ParseTokenRef(o3[k]) = ParseTokenRef(t3[k])
      BY <2>5, <3>1 DEF SameRef
    <3> QED
      BY <2>2, <2>3, <3>2, SemanticSame
  <2>9. ASSUME NEW k \in 1..Len(t2) PROVE t2[k].id \in Nat /\ t2[k].id >= next
    <3> DEFINE j == p + k
    <3>1. j \in 1..n /\ ~(j <= p) /\ ~(j >= n - q + 1) /\ k \in 1..((n - q) - p)
      BY <1>0, <1>6, <2>6
    <3>2. t2[k] = T[j]
      BY <2>6, <3>1
    <3> HIDE DEF j
    <3>3. j \notin kept
      BY <1>9, <1>17, <3>1
    <3>4. T[j].id = next + F(j) /\ F(j) \in Nat
      BY <1>11, <1>14, <3>1, <3>3 DEF Identified
    <3> QED
      BY <1>0, <3>2, <3>4
  <2>10. /\ Semantic(old) = (Semantic(o1) \o Semantic(o2)) \o Semantic(o3)
         /\ Semantic(T) = (Semantic(t1) \o Semantic(t2)) \o Semantic(t3)
    <3>1. IsSeq(o1 \o o2) /\ IsSeq(t1 \o t2)
      BY <2>2, <2>3, SeqConcat
    <3>2. Semantic(o1 \o o2) = Semantic(o1) \o Semantic(o2) /\ Semantic(t1 \o t2) = Semantic(t1) \o Semantic(t2)
      BY <2>2, <2>3, SemanticConcat
    <3> DEFINE c == o1 \o o2
               d == t1 \o t2
    <3>3. IsSeq(c) /\ IsSeq(d) /\ old = c \o o3 /\ T = d \o t3
      BY <2>2, <2>3, <3>1
    <3> HIDE DEF c, d
    <3>4. Semantic(c \o o3) = Semantic(c) \o Semantic(o3) /\ Semantic(d \o t3) = Semantic(d) \o Semantic(t3)
      BY <2>2, <2>3, <3>3, SemanticConcat
    <3> QED
      BY <3>2, <3>3, <3>4 DEF c, d
  <2> DEFINE x == Semantic(o1)
             y == Semantic(o2)
             z == Semantic(o3)
             w == Semantic(t2)
  <2>11. IsSeq(x) /\ IsSeq(y) /\ IsSeq(z) /\ IsSeq(w)
    BY <2>2, <2>3, SemanticParts
  <2>12. \A k \in 1..Len(w) : w[k].occurrence \in Nat /\ w[k].occurrence >= next
    <3>1. Range(w) = {ParseTokenRef(t2[j]) : j \in {i \in 1..Len(t2) : IsSemantic(t2[i])}}
      BY <2>3, SemanticParts
    <3> HIDE DEF w
    <3>2. ASSUME NEW k \in 1..Len(w) PROVE w[k].occurrence \in Nat /\ w[k].occurrence >= next
      <4>1. w[k] \in Range(w)
        BY <2>11, SeqParts DEF Range
      <4>2. PICK j \in 1..Len(t2) : w[k] = ParseTokenRef(t2[j])
        BY <3>1, <4>1
      <4>3. w[k].occurrence = t2[j].id
        BY <4>2 DEF ParseTokenRef
      <4> QED
        BY <2>9, <4>3
    <3> QED
      BY <3>2
  <2>13. Semantic(old) = (x \o y) \o z /\ Semantic(T) = (x \o w) \o z
    BY <2>7, <2>8, <2>10
  <2> HIDE DEF x, y, z, w
  <2>14. Regrown((x \o y) \o z, (x \o w) \o z, next)
    BY <2>11, <2>12, GrownParts
  <2> QED
    BY <1>3, <2>13, <2>14
<1> QED
  BY <1>16, <1>17

\* What differs between the longest common ends was drawn from next on.
LEMMA MiddleFresh ==
  ASSUME NEW a, NEW b, NEW next, DistinctRefs(a, next), IsSeq(b), Regrown(a, b, next),
         NEW p, p = CommonPrefix(a, b), NEW q, q = CommonSuffix(a, b, p)
  PROVE  /\ SharePrefix(a, b, p) /\ ShareSuffix(a, b, p, q)
         /\ \A k \in (p + 1)..(Len(b) - q) : b[k].occurrence \in Nat /\ b[k].occurrence >= next
<1> DEFINE M == Len(a)
           N == Len(b)
<1>0. M \in Nat /\ N \in Nat /\ IsSeq(a) /\ next \in Nat
  BY SeqParts DEF DistinctRefs
<1>1. SharePrefix(a, b, p) /\ (p < M /\ p < N => a[p + 1] # b[p + 1])
  BY <1>0, PrefixLongest
<1>2. ShareSuffix(a, b, p, q) /\ (q < M - p /\ q < N - p => a[M - q] # b[N - q])
  BY <1>0, <1>1, SuffixLongest
<1>3. PICK x, y : /\ SharePrefix(a, b, x) /\ ShareSuffix(a, b, x, y)
                  /\ \A k \in (x + 1)..(N - y) : b[k].occurrence \in Nat /\ b[k].occurrence >= next
  BY DEF Regrown
<1>4. /\ p \in Nat /\ q \in Nat /\ p + q <= M /\ p + q <= N
      /\ x \in Nat /\ y \in Nat /\ x + y <= M /\ x + y <= N
      /\ \A k \in 1..p : a[k] = b[k]
      /\ \A k \in 1..x : a[k] = b[k]
      /\ \A k \in 0..(y - 1) : a[M - k] = b[N - k]
  BY <1>0, <1>1, <1>2, <1>3 DEF SharePrefix, ShareSuffix
<1>5. /\ \A k \in 1..M : a[k].occurrence \in Nat /\ a[k].occurrence < next
      /\ \A j, k \in 1..M : a[j].occurrence = a[k].occurrence => j = k
  BY DEF DistinctRefs
<1> HIDE DEF M, N
<1>6. x <= p
  <2> SUFFICES ASSUME p < x PROVE FALSE
    BY <1>4
  <2>1. p + 1 \in 1..x /\ p < M /\ p < N
    BY <1>0, <1>4
  <2> QED
    BY <1>1, <1>4, <2>1
<1>7. ASSUME NEW k \in (p + 1)..(N - q) PROVE k <= N - y
  <2> SUFFICES ASSUME k > N - y PROVE FALSE
    BY <1>0, <1>4
  <2>1. q < y /\ p < N - q /\ q \in 0..(y - 1)
    BY <1>0, <1>4
  <2>2. q >= M - p
    BY <1>0, <1>2, <1>4, <2>1
  <2>3. q = M - p /\ x < p /\ x + 1 \in 1..p /\ x + 1 \in 1..M
    BY <1>0, <1>4, <2>1, <2>2
  <2>4. a[x + 1] = b[x + 1]
    BY <1>4, <2>3
  <2>5. N = x + y
    <3> SUFFICES ASSUME x + y < N PROVE FALSE
      BY <1>0, <1>4
    <3>1. x + 1 \in (x + 1)..(N - y)
      BY <1>0, <1>4
    <3>2. b[x + 1].occurrence >= next /\ a[x + 1].occurrence < next /\ a[x + 1].occurrence \in Nat
      BY <1>3, <1>5, <2>3, <3>1 DEF N
    <3> QED
      BY <1>0, <2>4, <3>2
  <2>6. y - 1 \in 0..(y - 1) /\ N - (y - 1) = x + 1 /\ M - (y - 1) \in 1..M
    BY <1>0, <1>4, <2>1, <2>5
  <2>7. a[M - (y - 1)] = a[x + 1]
    BY <1>4, <2>4, <2>6
  <2>8. M - (y - 1) = x + 1
    BY <1>5, <2>3, <2>6, <2>7
  <2>9. M = N
    BY <1>0, <1>4, <2>5, <2>8
  <2> QED
    BY <1>0, <1>4, <2>1, <2>3, <2>9
<1>8. \A k \in (p + 1)..(N - q) : k \in (x + 1)..(N - y)
  BY <1>0, <1>4, <1>6, <1>7
<1> QED
  BY <1>1, <1>2, <1>3, <1>8 DEF N

\* The window of the semantic tape that a window of the lexical tape projects to.
LEMMA SemanticWindow ==
  ASSUME NEW a, IsSeq(a), NEW m \in 0..Len(a), NEW n \in m..Len(a)
  PROVE  LET s == Semantic(a)
             from == Len(Semantic(SubSeq(a, 1, m)))
             to == Len(Semantic(SubSeq(a, 1, n)))
         IN /\ from \in 0..Len(s) /\ to \in from..Len(s)
            /\ Semantic(SubSeq(a, m + 1, n)) = SubSeq(s, from + 1, to)
<1> DEFINE p == SubSeq(a, 1, m)
           w == SubSeq(a, m + 1, n)
           q == SubSeq(a, n + 1, Len(a))
           sp == Semantic(p)
           sw == Semantic(w)
           sq == Semantic(q)
           c == sp \o sw
           s == c \o sq
<1>1. /\ IsSeq(p) /\ IsSeq(w) /\ IsSeq(q)
      /\ SubSeq(a, 1, n) = p \o w /\ a = (p \o w) \o q
  BY Windowed
<1> HIDE DEF p, w, q
<1>2. IsSeq(p \o w)
  BY <1>1, SeqConcat
<1>3. IsSeq(sp) /\ IsSeq(sw) /\ IsSeq(sq)
  BY <1>1, SemanticParts
<1>4. Semantic(p \o w) = c
  BY <1>1, SemanticConcat
<1>5. Semantic(a) = s
  <2> DEFINE d == p \o w
  <2>1. a = d \o q /\ IsSeq(d) /\ Semantic(d) = c
    BY <1>1, <1>2, <1>4
  <2> HIDE DEF d, c
  <2> QED
    BY <1>1, <2>1, SemanticConcat
<1>6. Semantic(SubSeq(a, 1, m)) = sp /\ Semantic(SubSeq(a, 1, n)) = c /\ Semantic(SubSeq(a, m + 1, n)) = sw
  BY <1>1, <1>4 DEF p, w
<1> HIDE DEF sp, sw, sq
<1>7. /\ IsSeq(c) /\ Len(c) = Len(sp) + Len(sw)
      /\ \A k \in 1..Len(sw) : c[Len(sp) + k] = sw[k]
  BY <1>3, SeqConcat
<1> HIDE DEF c
<1>8. /\ IsSeq(s) /\ Len(s) = Len(c) + Len(sq)
      /\ \A k \in 1..Len(c) : s[k] = c[k]
  BY <1>3, <1>7, SeqConcat
<1> HIDE DEF s
<1>9. Len(sp) \in Nat /\ Len(sw) \in Nat /\ Len(sq) \in Nat
  BY <1>3, SeqParts
<1> DEFINE from == Len(sp)
           to == Len(c)
           r == SubSeq(s, from + 1, to)
<1>10. from \in 0..Len(s) /\ to \in from..Len(s)
  BY <1>7, <1>8, <1>9
<1>11. IsSeq(r) /\ Len(r) = to - from /\ \A k \in 1..(to - from) : r[k] = s[from + k]
  <2> HIDE DEF from, to
  <2> QED
    BY <1>8, <1>10, SeqSub
<1> HIDE DEF r
<1>12. Len(r) = Len(sw)
  BY <1>7, <1>9, <1>11
<1>13. ASSUME NEW k \in 1..Len(sw) PROVE sw[k] = r[k]
  <2>1. k \in 1..(to - from) /\ from + k \in 1..Len(c)
    BY <1>7, <1>9
  <2> QED
    BY <1>7, <1>8, <1>11, <2>1
<1>14. sw = r
  BY <1>3, <1>11, <1>12, <1>13, SeqSame
<1> QED
  BY <1>5, <1>6, <1>10, <1>14 DEF r

\* The occurrence at a place of a semantic tape, the anchor of a splice.
Anchor(refs, k) == IF k \in 1..Len(refs) THEN refs[k].occurrence ELSE Absent

\* a behind m entries is b behind n entries.
SameFrom(a, b, m, n) ==
  /\ m \in 0..Len(a) /\ n \in 0..Len(b) /\ Len(a) - m = Len(b) - n
  /\ \A k \in 1..(Len(a) - m) : a[m + k] = b[n + k]

\* What a patch with a splice says of the step from one semantic tape to another:
\* where they agree in front and behind, that what lies between is new, and the
\* anchors.
Alters(a, b, next, patch) ==
  /\ patch.at \in Nat
  /\ patch.splices # <<>> =>
       \E m, n \in Nat :
         /\ SharePrefix(a, b, patch.at) /\ patch.at <= m /\ patch.at <= n /\ SameFrom(a, b, m, n)
         /\ \A k \in (patch.at + 1)..n : b[k].occurrence \in Nat /\ b[k].occurrence >= next
         /\ patch.splices[1].before = Anchor(a, patch.at)
         /\ patch.splices[1].after = Anchor(a, m + 1)

\* r is the window [from, to) of a and shares its ends, of p and q entries, with b,
\* which takes its place in c.
Window(a, b, c, r, from, to, p, q) ==
  /\ Len(a) \in Nat /\ Len(b) \in Nat /\ from \in Nat /\ to \in Nat /\ from <= to /\ to <= Len(a)
  /\ p \in Nat /\ q \in Nat /\ p + q <= to - from /\ p + q <= Len(b)
  /\ Len(c) = Len(a) - (to - from) + Len(b)
  /\ \A k \in 1..(to - from) : r[k] = a[from + k]
  /\ \A k \in 1..p : r[k] = b[k]
  /\ \A k \in 0..(q - 1) : r[(to - from) - k] = b[Len(b) - k]
  /\ \A k \in 1..from : c[k] = a[k]
  /\ \A k \in 1..Len(b) : c[from + k] = b[k]
  /\ \A k \in 1..(Len(a) - to) : c[from + Len(b) + k] = a[to + k]

\* The ends then extend to the whole of a and c.
LEMMA WindowEnds ==
  ASSUME NEW a, NEW b, NEW c, NEW r, NEW from, NEW to, NEW p, NEW q, Window(a, b, c, r, from, to, p, q)
  PROVE  LET m == to - q
             n == from + Len(b) - q
         IN /\ m \in Nat /\ n \in Nat /\ from + p <= m /\ from + p <= n
            /\ SharePrefix(a, c, from + p) /\ SameFrom(a, c, m, n)
            /\ \A k \in (from + p + 1)..n : k - from \in (p + 1)..(Len(b) - q) /\ c[k] = b[k - from]
<1> DEFINE N == Len(a)
           B == Len(b)
<1>a. /\ N \in Nat /\ B \in Nat /\ from \in Nat /\ to \in Nat /\ from <= to /\ to <= N
      /\ p \in Nat /\ q \in Nat /\ p + q <= to - from /\ p + q <= B
      /\ Len(c) = N - (to - from) + B
  BY DEF Window
<1>b. /\ \A k \in 1..(to - from) : r[k] = a[from + k]
      /\ \A k \in 1..p : r[k] = b[k]
      /\ \A k \in 0..(q - 1) : r[(to - from) - k] = b[B - k]
      /\ \A k \in 1..from : c[k] = a[k]
      /\ \A k \in 1..B : c[from + k] = b[k]
      /\ \A k \in 1..(N - to) : c[from + B + k] = a[to + k]
  BY DEF Window
<1>c. Len(a) = N
  OBVIOUS
<1> HIDE DEF N, B
<1> DEFINE m == to - q
           n == from + B - q
<1>1. m \in Nat /\ n \in Nat /\ from + p <= m /\ from + p <= n /\ m <= N /\ n <= Len(c) /\ N - m = Len(c) - n
  BY <1>a
<1>2. ASSUME NEW k \in 1..(from + p) PROVE a[k] = c[k]
  <2>1. CASE k \in 1..from
    BY <1>b, <2>1
  <2>2. CASE k > from
    <3>1. k - from \in 1..p /\ k - from \in 1..(to - from) /\ k - from \in 1..B /\ from + (k - from) = k
      BY <1>a, <2>2
    <3>2. r[k - from] = a[k] /\ c[k] = b[k - from]
      BY <1>b, <3>1
    <3> QED
      BY <1>b, <3>1, <3>2
  <2> QED
    BY <1>a, <2>1, <2>2
<1>3. SharePrefix(a, c, from + p)
  <2>1. from + p \in 0..N /\ from + p <= Len(c)
    BY <1>a
  <2> QED
    BY <1>2, <1>c, <2>1 DEF SharePrefix
<1>4. ASSUME NEW k \in 1..(N - m) PROVE a[m + k] = c[n + k]
  <2>1. CASE k <= q
    <3> DEFINE i == (to - from) - (q - k)
               j == B - (q - k)
    <3>1. q - k \in 0..(q - 1) /\ i \in 1..(to - from) /\ j \in 1..B /\ from + i = m + k /\ from + j = n + k
      BY <1>a, <2>1
    <3>2. r[i] = b[j]
      BY <1>b, <3>1
    <3> HIDE DEF i, j
    <3>3. r[i] = a[from + i] /\ c[from + j] = b[j]
      BY <1>b, <3>1
    <3> QED
      BY <3>1, <3>2, <3>3
  <2>2. CASE k > q
    <3>1. k - q \in 1..(N - to) /\ to + (k - q) = m + k /\ from + B + (k - q) = n + k
      BY <1>a, <2>2
    <3> QED
      BY <1>b, <3>1
  <2> QED
    BY <1>a, <2>1, <2>2
<1>5. SameFrom(a, c, m, n)
  <2>1. m \in 0..N /\ n \in 0..Len(c)
    BY <1>1, <1>a
  <2> HIDE DEF m, n
  <2> QED
    BY <1>1, <1>4, <1>c, <2>1 DEF SameFrom
<1>6. ASSUME NEW k \in (from + p + 1)..n PROVE k - from \in (p + 1)..(B - q) /\ c[k] = b[k - from]
  <2>1. k - from \in (p + 1)..(B - q) /\ k - from \in 1..B /\ from + (k - from) = k
    BY <1>a
  <2> QED
    BY <1>b, <2>1
<1> QED
  BY <1>1, <1>3, <1>5, <1>6 DEF B

\* b replaces the window r, [from, to) of the semantic tape a of doc, with which it
\* shares ends of p and q entries.
Replaces(doc, a, next, from, to, r, b, p, q) ==
  /\ a = doc.semantic /\ DistinctRefs(a, next)
  /\ from \in 0..Len(a) /\ to \in from..Len(a) /\ r = SubSeq(a, from + 1, to)
  /\ IsSeq(b) /\ Regrown(r, b, next)
  /\ p = CommonPrefix(r, b) /\ q = CommonSuffix(r, b, p)

\* A patch of a window that is replaced says so.
LEMMA Changing ==
  ASSUME NEW doc, NEW a, NEW next, NEW from, NEW to, NEW r, NEW b, NEW p, NEW q,
         Replaces(doc, a, next, from, to, r, b, p, q), NEW old, NEW new
  PROVE  Alters(a, ReplaceRange(a, from, to, b), next, PatchBetween(doc, old, new, r, b, from, to, p, q))
<1> DEFINE c == ReplaceRange(a, from, to, b)
           patch == PatchBetween(doc, old, new, r, b, from, to, p, q)
           N == Len(a)
           B == Len(b)
           m == to - q
           n == from + B - q
<1>a. a = doc.semantic /\ DistinctRefs(a, next) /\ IsSeq(b)
  BY DEF Replaces
<1>b. from \in 0..Len(a) /\ to \in from..Len(a) /\ r = SubSeq(a, from + 1, to)
  BY DEF Replaces
<1>c. Regrown(r, b, next) /\ p = CommonPrefix(r, b) /\ q = CommonSuffix(r, b, p)
  BY DEF Replaces
<1>0. IsSeq(a) /\ N \in Nat /\ B \in Nat /\ from \in Nat /\ to \in Nat /\ from <= to /\ to <= N /\ next \in Nat
  BY <1>a, <1>b, SeqParts DEF DistinctRefs
<1>1. IsSeq(r) /\ Len(r) = to - from /\ \A k \in 1..(to - from) : r[k] = a[from + k]
  BY <1>0, <1>b, SeqSub
<1>2. DistinctRefs(r, next)
  <2>1. \A k \in 1..Len(r) : from + k \in 1..N
    BY <1>0, <1>1
  <2>2. \A k \in 1..Len(r) : r[k].occurrence \in Nat /\ r[k].occurrence < next
    BY <1>1, <1>a, <2>1 DEF DistinctRefs
  <2>3. ASSUME NEW j \in 1..Len(r), NEW k \in 1..Len(r), r[j].occurrence = r[k].occurrence PROVE j = k
    <3>1. from + j \in 1..N /\ from + k \in 1..N /\ a[from + j].occurrence = a[from + k].occurrence
      BY <1>1, <2>1, <2>3
    <3>2. from + j = from + k
      BY <1>a, <3>1 DEF DistinctRefs
    <3> QED
      BY <1>0, <3>2
  <2> QED
    BY <1>0, <1>1, <2>2, <2>3 DEF DistinctRefs
<1>3. /\ SharePrefix(r, b, p) /\ ShareSuffix(r, b, p, q)
      /\ \A k \in (p + 1)..(B - q) : b[k].occurrence \in Nat /\ b[k].occurrence >= next
  BY <1>2, <1>a, <1>c, MiddleFresh
<1>4. p \in Nat /\ q \in Nat /\ p + q <= to - from /\ p + q <= B
  <2>1. /\ p \in 0..Len(r) /\ q \in 0..(Len(r) - p) /\ p <= B /\ q <= B - p
    BY <1>3 DEF SharePrefix, ShareSuffix
  <2>2. Len(r) = to - from
    BY <1>1
  <2> QED
    BY <1>0, <2>1, <2>2
<1>4a. \A k \in 1..p : r[k] = b[k]
  BY <1>3 DEF SharePrefix
<1>4b. \A k \in 0..(q - 1) : r[(to - from) - k] = b[B - k]
  <2>1. \A k \in 0..(q - 1) : r[Len(r) - k] = b[B - k]
    BY <1>3 DEF ShareSuffix
  <2> QED
    BY <1>1, <2>1
<1>5. Replaced(a, from, to, b, c)
  <2> HIDE DEF N, B
  <2> QED
    BY <1>0, <1>a, <1>b, Replacing
<1> HIDE DEF c
<1>6. /\ Len(c) = N - (to - from) + B /\ (\A k \in 1..from : c[k] = a[k])
      /\ (\A k \in 1..B : c[from + k] = b[k])
      /\ \A k \in 1..(N - to) : c[from + B + k] = a[to + k]
  BY <1>5 DEF Replaced
<1>6a. Len(c) = N - (to - from) + B
  BY <1>6
<1>7. patch.at = from + p
  BY DEF PatchBetween
<1>8. patch.splices # <<>> => /\ patch.splices[1].before = Anchor(a, from + p)
                              /\ patch.splices[1].after = Anchor(a, m + 1)
  <2> DEFINE oldMid == SubSeq(r, p + 1, Len(r) - q)
             newMid == SubSeq(b, p + 1, Len(b) - q)
             At(rank)  == IF rank + 1 \in DOMAIN doc.semantic
                          THEN doc.semantic[rank + 1].occurrence ELSE Absent
             S == [before   |-> At(from + p - 1),
                   removed  |-> [k \in DOMAIN oldMid |-> oldMid[k].occurrence],
                   inserted |-> [k \in DOMAIN newMid |-> newMid[k].occurrence],
                   after    |-> At(to - q)]
  <2>1. patch.splices = IF oldMid = <<>> /\ newMid = <<>> THEN <<>> ELSE <<S>>
    BY DEF PatchBetween
  <2>2. S.before = At(from + p - 1) /\ S.after = At(to - q)
    OBVIOUS
  <2>3. (from + p - 1) + 1 = from + p /\ (to - q) + 1 = m + 1
    BY <1>0, <1>4
  <2>4. DOMAIN doc.semantic = 1..Len(a)
    BY <1>0, <1>a, SeqParts
  <2>5. At(from + p - 1) = Anchor(a, from + p)
    <3>1. At(from + p - 1) = IF from + p \in DOMAIN doc.semantic THEN doc.semantic[from + p].occurrence ELSE Absent
      BY <2>3
    <3> QED
      BY <1>a, <2>4, <3>1 DEF Anchor
  <2>6. At(to - q) = Anchor(a, m + 1)
    <3>1. At(to - q) = IF m + 1 \in DOMAIN doc.semantic THEN doc.semantic[m + 1].occurrence ELSE Absent
      BY <2>3
    <3> QED
      BY <1>a, <2>4, <3>1 DEF Anchor
  <2> HIDE DEF S, At, oldMid, newMid, patch
  <2>7. patch.splices # <<>> => patch.splices = <<S>>
    BY <2>1
  <2>8. <<S>>[1] = S
    OBVIOUS
  <2> QED
    BY <2>2, <2>5, <2>6, <2>7, <2>8
<1> HIDE DEF patch
<1>9. /\ m \in Nat /\ n \in Nat /\ from + p <= m /\ from + p <= n
      /\ SharePrefix(a, c, from + p) /\ SameFrom(a, c, m, n)
      /\ \A k \in (from + p + 1)..n : k - from \in (p + 1)..(B - q) /\ c[k] = b[k - from]
  <2>1. Window(a, b, c, r, from, to, p, q)
    BY <1>0, <1>1, <1>4, <1>4a, <1>4b, <1>6, <1>6a DEF Window
  <2> QED
    BY <2>1, WindowEnds
<1>10. \A k \in (from + p + 1)..n : c[k].occurrence \in Nat /\ c[k].occurrence >= next
  BY <1>3, <1>9
<1>11. from + p \in Nat
  BY <1>0, <1>4
<1> HIDE DEF m, n
<1>12. Alters(a, c, next, patch)
  BY <1>7, <1>8, <1>9, <1>10, <1>11 DEF Alters
<1> QED
  BY <1>12 DEF c, patch

\* The first and the last splice after one is added: the first keeps its anchor in
\* front, and the last has the anchor behind the new one.
LEMMA AddingAnchors ==
  ASSUME NEW splices, IsSeq(splices), NEW splice
  PROVE  LET s == AddSplice(splices, splice)
         IN /\ IsSeq(s) /\ Len(s) \in Nat \ {0}
            /\ s[1].before = IF splices = <<>> THEN splice.before ELSE splices[1].before
            /\ s[Len(s)].after = splice.after
<1> DEFINE s == AddSplice(splices, splice)
           n == Len(splices)
           join == [before   |-> Last(splices).before,
                    removed  |-> Last(splices).removed \o splice.removed,
                    inserted |-> Last(splices).inserted \o splice.inserted,
                    after    |-> splice.after]
<1>0. n \in Nat /\ (n = 0 <=> splices = <<>>)
  BY SeqParts, SeqEmpty DEF IsSeq
<1>1. CASE splices # <<>> /\ Last(splices).after = splice.before
  <2>1. s = Append(Front(splices), join)
    BY <1>1 DEF AddSplice
  <2>2. join.before = splices[n].before /\ join.after = splice.after
    BY DEF Last
  <2> HIDE DEF join, s
  <2>3. n - 1 \in 0..n /\ 0 \in 0..n /\ n # 0
    BY <1>0, <1>1
  <2>4. Front(splices) = SubSeq(splices, 0 + 1, n - 1)
    BY DEF Front
  <2> DEFINE f == Front(splices)
  <2>5. IsSeq(f) /\ Len(f) = n - 1 /\ \A k \in 1..(n - 1) : f[k] = splices[k]
    <3> DEFINE e == n - 1
    <3>1. e \in 0..n
      BY <2>3
    <3> HIDE DEF e
    <3>2. LET g == SubSeq(splices, 0 + 1, e) IN IsSeq(g) /\ Len(g) = e - 0 /\ \A k \in 1..(e - 0) : g[k] = splices[0 + k]
      BY <2>3, <3>1, SeqSub
    <3> QED
      BY <1>0, <2>4, <3>2 DEF e
  <2> HIDE DEF f, n
  <2>6. IsSeq(s) /\ Len(s) = Len(f) + 1 /\ (\A k \in 1..Len(f) : s[k] = f[k]) /\ s[Len(f) + 1] = join
    BY <2>1, <2>5, SeqAppend DEF f
  <2>7. Len(s) = n /\ s[n] = join
    BY <1>0, <2>3, <2>5, <2>6
  <2>8. s[1].before = splices[1].before
    <3>1. CASE n = 1
      BY <2>2, <2>7, <3>1
    <3>2. CASE n # 1
      <4>1. 1 \in 1..Len(f) /\ 1 \in 1..(n - 1)
        BY <1>0, <2>3, <2>5, <3>2
      <4> QED
        BY <2>5, <2>6, <4>1
    <3> QED
      BY <3>1, <3>2
  <2> QED
    BY <1>0, <1>1, <2>2, <2>3, <2>6, <2>7, <2>8 DEF s
<1>2. CASE ~(splices # <<>> /\ Last(splices).after = splice.before)
  <2>1. s = Append(splices, splice)
    BY <1>2 DEF AddSplice
  <2> HIDE DEF s, n
  <2>2. IsSeq(s) /\ Len(s) = n + 1 /\ (\A k \in 1..n : s[k] = splices[k]) /\ s[n + 1] = splice
    BY <2>1, SeqAppend DEF n
  <2>3. s[1].before = IF splices = <<>> THEN splice.before ELSE splices[1].before
    <3>1. CASE n = 0
      BY <1>0, <2>2, <3>1
    <3>2. CASE n # 0
      <4>1. 1 \in 1..n
        BY <1>0, <3>2
      <4> QED
        BY <1>0, <2>2, <3>2, <4>1
    <3> QED
      BY <3>1, <3>2
  <2> QED
    BY <1>0, <2>2, <2>3 DEF s
<1> QED
  BY <1>1, <1>2

\* What the anchors of a patch say of the step from the tape o to c, if no splice
\* changed the tape in front of at, where the last of them began: the first is
\* anchored at the end of a common prefix, and what is behind at and was on o is
\* followed by the same on both.
Traces(o, c, patch, at) ==
  /\ at \in Nat
  /\ patch.splices # <<>> /\ patch.ordered =>
       \E P \in Nat :
         /\ SharePrefix(o, c, P) /\ P <= at
         /\ patch.splices[1].before = Anchor(o, P)
         /\ \A i \in 1..Len(o), j \in 1..Len(c) :
              j > at /\ c[j].occurrence = o[i].occurrence => i > P /\ SameFrom(o, c, i - 1, j - 1)
         /\ \E j \in Nat : j > at /\ Last(patch.splices).after = Anchor(c, j)

\* The step of the next splice, whose middle is new and whose end is that of b.
Follower(b, c, next, a, m, n) ==
  /\ SharePrefix(b, c, a) /\ a <= m /\ a <= n /\ SameFrom(b, c, m, n)
  /\ \A k \in (a + 1)..n : c[k].occurrence \in Nat /\ c[k].occurrence >= next

\* The place j of c, behind a, with an occurrence drawn before next.
Recurs(c, j, a, x, next) == j \in 1..Len(c) /\ j > a /\ x \in Nat /\ x < next /\ c[j].occurrence = x

\* What lies on c behind a and was drawn before is from behind m on b.
LEMMA Traced ==
  ASSUME NEW b, NEW c, NEW next \in Nat, NEW a \in Nat, NEW m \in Nat, NEW n \in Nat, IsSeq(b), IsSeq(c),
         Follower(b, c, next, a, m, n),
         NEW j, NEW x, Recurs(c, j, a, x, next)
  PROVE  LET i == m + (j - n) IN i \in 1..Len(b) /\ i > m /\ b[i].occurrence = x /\ SameFrom(b, c, i - 1, j - 1)
<1> DEFINE M == Len(b)
           N == Len(c)
           i == m + (j - n)
<1>0. M \in Nat /\ N \in Nat /\ j \in 1..N /\ j > a /\ x < next /\ x \in Nat /\ c[j].occurrence = x
  BY SeqParts DEF Recurs
<1>1. j > n
  <2> SUFFICES ASSUME ~(j > n) PROVE FALSE
    OBVIOUS
  <2>1. j \in (a + 1)..n
    BY <1>0
  <2>2. c[j].occurrence >= next
    BY <2>1 DEF Follower
  <2> QED
    BY <1>0, <2>2
<1>2. m \in 0..M /\ n \in 0..N /\ M - m = N - n
  BY DEF Follower, SameFrom
<1>3. \A k \in 1..(M - m) : b[m + k] = c[n + k]
  BY DEF Follower, SameFrom
<1>c. Len(b) = M /\ Len(c) = N
  OBVIOUS
<1> HIDE DEF M, N
<1>4. i \in 1..M /\ i > m /\ j - n \in 1..(M - m) /\ m + (j - n) = i /\ n + (j - n) = j
      /\ i - 1 \in 0..M /\ j - 1 \in 0..N /\ M - (i - 1) = N - (j - 1)
  BY <1>0, <1>1, <1>2, <1>c
<1>5. b[i] = c[j]
  BY <1>3, <1>4
<1>6. ASSUME NEW k \in 1..(M - (i - 1)) PROVE b[(i - 1) + k] = c[(j - 1) + k]
  <2> DEFINE l == (j - n) + k - 1
  <2>1. l \in 1..(M - m) /\ m + l = (i - 1) + k /\ n + l = (j - 1) + k
    BY <1>0, <1>1, <1>2, <1>c
  <2> HIDE DEF l, i
  <2>2. b[m + l] = c[n + l]
    BY <1>3, <2>1
  <2> QED
    BY <2>1, <2>2
<1>7. SameFrom(b, c, i - 1, j - 1)
  <2> DEFINE u == i - 1
             v == j - 1
  <2>1. u \in 0..M /\ v \in 0..N /\ M - u = N - v /\ \A k \in 1..(M - u) : b[u + k] = c[v + k]
    BY <1>4, <1>6
  <2> HIDE DEF u, v
  <2>2. SameFrom(b, c, u, v)
    BY <1>c, <2>1 DEF SameFrom
  <2> QED
    BY <2>2 DEF u, v
<1> QED
  BY <1>0, <1>4, <1>5, <1>7, <1>c

\* Ends in common with a third tape.
LEMMA SameFromTransitive ==
  ASSUME NEW o, NEW b, NEW c, IsSeq(o), IsSeq(b), IsSeq(c), NEW x, NEW y, NEW z,
         SameFrom(o, b, x, y), SameFrom(b, c, y, z)
  PROVE  SameFrom(o, c, x, z)
<1>0. Len(o) \in Nat /\ Len(b) \in Nat /\ Len(c) \in Nat
  BY SeqParts
<1>1. x \in 0..Len(o) /\ y \in 0..Len(b) /\ z \in 0..Len(c)
      /\ Len(o) - x = Len(b) - y /\ Len(b) - y = Len(c) - z
  BY DEF SameFrom
<1>2. \A k \in 1..(Len(o) - x) : o[x + k] = c[z + k]
  BY <1>1 DEF SameFrom
<1>3. Len(o) - x = Len(c) - z
  BY <1>1
<1> QED
  BY <1>1, <1>2, <1>3 DEF SameFrom

\* The anchor behind the part that is replaced is the same on both tapes.
LEMMA AnchorBehind ==
  ASSUME NEW b, NEW c, IsSeq(b), IsSeq(c), NEW m, NEW n, SameFrom(b, c, m, n)
  PROVE  Anchor(b, m + 1) = Anchor(c, n + 1)
<1>0. Len(b) \in Nat /\ Len(c) \in Nat
  BY SeqParts
<1>1. m \in 0..Len(b) /\ n \in 0..Len(c) /\ Len(b) - m = Len(c) - n
  BY DEF SameFrom
<1>2. CASE m = Len(b)
  <2>1. ~(m + 1 \in 1..Len(b)) /\ ~(n + 1 \in 1..Len(c))
    BY <1>0, <1>1, <1>2
  <2> QED
    BY <2>1 DEF Anchor
<1>3. CASE m # Len(b)
  <2>1. m + 1 \in 1..Len(b) /\ n + 1 \in 1..Len(c) /\ 1 \in 1..(Len(b) - m)
    BY <1>0, <1>1, <1>3
  <2>2. b[m + 1] = c[n + 1]
    BY <2>1 DEF SameFrom
  <2> QED
    BY <2>1, <2>2 DEF Anchor
<1> QED
  BY <1>2, <1>3

\* The first splice that changes a tape.
LEMMA TraceStarts ==
  ASSUME NEW b, NEW c, NEW next, DistinctRefs(b, next), IsSeq(c),
         NEW a \in Nat, NEW m \in Nat, NEW n \in Nat, Follower(b, c, next, a, m, n),
         NEW patch, IsSeq(patch.splices), patch.splices # <<>>,
         patch.splices[1].before = Anchor(b, a), Last(patch.splices).after = Anchor(b, m + 1)
  PROVE  Traces(b, c, patch, a)
<1>0. IsSeq(b) /\ next \in Nat
  BY DEF DistinctRefs
<1>1. SharePrefix(b, c, a) /\ a <= m /\ a <= n /\ SameFrom(b, c, m, n)
  BY DEF Follower
<1>2. ASSUME NEW i \in 1..Len(b), NEW j \in 1..Len(c), j > a, c[j].occurrence = b[i].occurrence
      PROVE  i > a /\ SameFrom(b, c, i - 1, j - 1)
  <2> DEFINE x == b[i].occurrence
             h == m + (j - n)
  <2>1. Recurs(c, j, a, x, next)
    BY <1>2 DEF DistinctRefs, Recurs
  <2> HIDE DEF x
  <2>2. h \in 1..Len(b) /\ h > m /\ b[h].occurrence = x /\ SameFrom(b, c, h - 1, j - 1)
    BY <1>0, <2>1, Traced
  <2> HIDE DEF h
  <2>3. h = i
    BY <2>2 DEF x, DistinctRefs
  <2> QED
    BY <1>0, <1>1, <2>2, <2>3, SeqParts
<1>3. n + 1 > a /\ n + 1 \in Nat /\ Last(patch.splices).after = Anchor(c, n + 1)
  BY <1>0, <1>1, AnchorBehind
<1>4. SharePrefix(b, c, a) /\ a <= a
  BY <1>1
<1>5. \A i \in 1..Len(b), j \in 1..Len(c) :
        j > a /\ c[j].occurrence = b[i].occurrence => i > a /\ SameFrom(b, c, i - 1, j - 1)
  BY <1>2
<1> QED
  BY <1>3, <1>4, <1>5 DEF Traces

\* A further splice.
LEMMA TraceGoesOn ==
  ASSUME NEW o, NEW b, NEW c, NEW next, DistinctRefs(o, next), IsSeq(b), IsSeq(c),
         NEW raw, NEW at, Traces(o, b, raw, at), raw.splices # <<>>, raw.ordered,
         NEW a \in Nat, at <= a, NEW m \in Nat, NEW n \in Nat, Follower(b, c, next, a, m, n),
         NEW patch, patch.splices[1].before = raw.splices[1].before,
         Last(patch.splices).after = Anchor(b, m + 1)
  PROVE  Traces(o, c, patch, a)
<1>0. IsSeq(o) /\ next \in Nat /\ at \in Nat
  BY DEF DistinctRefs, Traces
<1>1. SharePrefix(b, c, a) /\ a <= m /\ a <= n /\ SameFrom(b, c, m, n)
  BY DEF Follower
<1>2. PICK P \in Nat :
         /\ SharePrefix(o, b, P) /\ P <= at
         /\ raw.splices[1].before = Anchor(o, P)
         /\ \A i \in 1..Len(o), j \in 1..Len(b) :
              j > at /\ b[j].occurrence = o[i].occurrence => i > P /\ SameFrom(o, b, i - 1, j - 1)
  BY DEF Traces
<1>3. ASSUME NEW i \in 1..Len(o), NEW j \in 1..Len(c), j > a, c[j].occurrence = o[i].occurrence
      PROVE  i > P /\ SameFrom(o, c, i - 1, j - 1)
  <2> DEFINE x == o[i].occurrence
             h == m + (j - n)
  <2>1. Recurs(c, j, a, x, next)
    BY <1>3 DEF DistinctRefs, Recurs
  <2> HIDE DEF x
  <2>2. h \in 1..Len(b) /\ h > m /\ b[h].occurrence = x /\ SameFrom(b, c, h - 1, j - 1)
    BY <1>0, <2>1, Traced
  <2> HIDE DEF h
  <2>3. h > at
    BY <1>0, <1>1, <2>2, SeqParts
  <2>4. i > P /\ SameFrom(o, b, i - 1, h - 1)
    BY <1>2, <2>2, <2>3 DEF x
  <2> QED
    BY <1>0, <2>2, <2>4, SameFromTransitive
<1>4. SharePrefix(o, c, P)
  <2>1. /\ P \in 0..Len(o) /\ P <= Len(b) /\ (\A k \in 1..P : o[k] = b[k])
        /\ a \in 0..Len(b) /\ a <= Len(c) /\ (\A k \in 1..a : b[k] = c[k])
    BY <1>1, <1>2 DEF SharePrefix
  <2>2. P <= Len(c) /\ \A k \in 1..P : k \in 1..a
    BY <1>0, <1>2, <2>1, SeqParts
  <2>3. \A k \in 1..P : o[k] = c[k]
    BY <2>1, <2>2
  <2> QED
    BY <2>1, <2>2, <2>3 DEF SharePrefix
<1>5. n + 1 > a /\ n + 1 \in Nat /\ Last(patch.splices).after = Anchor(c, n + 1)
  BY <1>1, AnchorBehind
<1>6. P <= a /\ patch.splices[1].before = Anchor(o, P)
  BY <1>0, <1>2
<1>7. \A i \in 1..Len(o), j \in 1..Len(c) :
        j > a /\ c[j].occurrence = o[i].occurrence => i > P /\ SameFrom(o, c, i - 1, j - 1)
  BY <1>3
<1> QED
  BY <1>4, <1>5, <1>6, <1>7 DEF Traces

\* The patch of a further splice is absorbed.
LEMMA Tracing ==
  ASSUME NEW o, NEW b, NEW c, NEW next, NEW n, DistinctRefs(o, next), DistinctRefs(b, n), next <= n, IsSeq(c),
         NEW raw, IsSeq(raw.splices), Traces(o, b, raw, raw.at), raw.splices = <<>> => o = b,
         NEW local, Alters(b, c, n, local), local.splices = <<>> => b = c
  PROVE  Traces(o, c, Absorb(raw, local), Absorb(raw, local).at)
<1> DEFINE all == Absorb(raw, local)
<1>1. /\ all.at = IF local.splices = <<>> THEN raw.at ELSE local.at
      /\ all.ordered = (raw.ordered /\ (local.splices # <<>> => raw.at <= local.at))
      /\ all.splices = IF local.splices = <<>> THEN raw.splices
                       ELSE AddSplice(raw.splices, local.splices[1])
  BY DEF Absorb
<1> HIDE DEF all
<1>2. IsSeq(o) /\ IsSeq(b) /\ DistinctRefs(o, n) /\ next \in Nat /\ n \in Nat
  <2>1. next \in Nat /\ n \in Nat /\ \A k \in 1..Len(o) : o[k].occurrence \in Nat /\ o[k].occurrence < next
    BY DEF DistinctRefs
  <2>2. \A k \in 1..Len(o) : o[k].occurrence < n
    BY <2>1
  <2> QED
    BY <2>1, <2>2 DEF DistinctRefs
<1>3. CASE local.splices = <<>>
  <2>1. all.at = raw.at /\ all.splices = raw.splices /\ (all.ordered => raw.ordered) /\ b = c
    BY <1>1, <1>3
  <2> QED
    BY <2>1 DEF Traces, all
<1>4. CASE local.splices # <<>>
  <2> DEFINE a == local.at
  <2>1. /\ all.at = a /\ all.splices = AddSplice(raw.splices, local.splices[1])
        /\ all.ordered => raw.ordered /\ raw.at <= a
    BY <1>1, <1>4
  <2>2. a \in Nat
    BY DEF Alters
  <2>3. PICK x, y \in Nat :
          /\ SharePrefix(b, c, a) /\ a <= x /\ a <= y /\ SameFrom(b, c, x, y)
          /\ \A k \in (a + 1)..y : c[k].occurrence \in Nat /\ c[k].occurrence >= n
          /\ local.splices[1].before = Anchor(b, a)
          /\ local.splices[1].after = Anchor(b, x + 1)
    BY <1>4 DEF Alters
  <2>4. Follower(b, c, n, a, x, y)
    BY <2>3 DEF Follower
  <2>5. /\ IsSeq(all.splices) /\ Len(all.splices) \in Nat \ {0}
        /\ all.splices[1].before = IF raw.splices = <<>> THEN local.splices[1].before ELSE raw.splices[1].before
        /\ all.splices[Len(all.splices)].after = local.splices[1].after
    BY <2>1, AddingAnchors
  <2>6. all.splices # <<>> /\ Last(all.splices).after = Anchor(b, x + 1)
    BY <2>3, <2>5, SeqEmpty DEF Last
  <2> HIDE DEF a
  <2>7. CASE raw.splices = <<>>
    <3>1. o = b /\ all.splices[1].before = Anchor(b, a)
      BY <2>3, <2>5, <2>7 DEF a
    <3>2. Traces(b, c, all, a)
      BY <2>2, <2>4, <2>5, <2>6, <3>1, TraceStarts
    <3> QED
      BY <2>1, <3>1, <3>2 DEF all
  <2>8. CASE raw.splices # <<>> /\ raw.ordered /\ raw.at <= a
    <3>1. all.splices[1].before = raw.splices[1].before
      BY <2>5, <2>8
    <3> DEFINE at == raw.at
    <3>2. Traces(o, b, raw, at) /\ at <= a
      BY <2>8
    <3> HIDE DEF at
    <3>3. Traces(o, c, all, a)
      BY <1>2, <2>2, <2>4, <2>6, <2>8, <3>1, <3>2, TraceGoesOn
    <3> QED
      BY <2>1, <3>3 DEF all
  <2>9. CASE raw.splices # <<>> /\ ~(raw.ordered /\ raw.at <= a)
    <3>1. ~all.ordered
      BY <2>1, <2>9
    <3> QED
      BY <2>1, <2>2, <3>1 DEF Traces, all
  <2> QED
    BY <2>7, <2>8, <2>9
<1> QED
  BY <1>3, <1>4

-----------------------------------------------------------------------------
(* Relexing a splice *)

\* A document of the lexer: every entry has an identity of its own, the tape
\* covers the text, and the semantic tape is the projection of the lexical one.
DocumentOK(doc) ==
  /\ Ided(doc.lexical, doc.next)
  /\ Covers(doc.lexical, doc.text)
  /\ doc.semantic = Semantic(doc.lexical)

\* The tape of a document without text.
LEMMA EmptyOK ==
  ASSUME NEW id
  PROVE  DocumentOK(EmptyDocument(id))
<1> DEFINE doc == EmptyDocument(id)
<1>1. doc.lexical = <<>> /\ doc.semantic = <<>> /\ doc.text = <<>> /\ doc.next = 0
  BY DEF EmptyDocument
<1> HIDE DEF doc
<1>2. IsSeq(<<>>) /\ Len(<<>>) = 0
  BY SeqEmpty
<1>3. Ided(<<>>, 0)
  BY <1>2 DEF Ided
<1>4. Sized(<<>>)
  BY <1>2 DEF Sized
<1>5. LexicalStart(<<>>, Len(<<>>)) = 0
  BY <1>2, <1>4, StartSteps
<1>6. Covers(<<>>, <<>>)
  BY <1>2, <1>4, <1>5 DEF Covers
<1>7. Semantic(<<>>) = <<>>
  BY <1>2, Refs!Iterates DEF Semantic, Refs!After
<1>8. DocumentOK(doc)
  BY <1>1, <1>3, <1>6, <1>7 DEF DocumentOK
<1> QED
  BY <1>8 DEF doc

\* A part of a tape has identities of its own.
LEMMA PartIded ==
  ASSUME NEW tape, NEW next, Ided(tape, next), NEW m \in 0..Len(tape), NEW n \in m..Len(tape)
  PROVE  Ided(SubSeq(tape, m + 1, n), next)
<1> DEFINE W == SubSeq(tape, m + 1, n)
<1>0. IsSeq(tape)
  BY DEF Ided
<1>1. IsSeq(W) /\ Len(W) = n - m /\ \A k \in 1..(n - m) : W[k] = tape[m + k]
  BY <1>0, SeqSub
<1>2. \A k \in 1..(n - m) : m + k \in 1..Len(tape)
  OBVIOUS
<1> HIDE DEF W
<1>3. \A k \in 1..Len(W) : W[k].id \in Nat /\ W[k].id < next
  BY <1>1, <1>2 DEF Ided
<1>4. ASSUME NEW j \in 1..Len(W), NEW k \in 1..Len(W), W[j].id = W[k].id PROVE j = k
  <2>1. m + j \in 1..Len(tape) /\ m + k \in 1..Len(tape)
    BY <1>1, <1>2
  <2>2. tape[m + j].id = tape[m + k].id
    BY <1>1, <1>4
  <2>3. m + j = m + k
    BY <2>1, <2>2, Zenon DEF Ided
  <2> QED
    BY <2>3
<1>5. Ided(W, next)
  BY <1>1, <1>3, <1>4 DEF Ided
<1> QED
  BY <1>5 DEF W

\* What the relexing of a splice does to a document, and that its patch says so.
Relexes(doc, text, r) ==
  /\ DocumentOK(r.doc) /\ r.doc.text = text
  /\ r.doc.id = doc.id /\ r.doc.semantics = doc.semantics
  /\ doc.next <= r.doc.next
  /\ Follows(doc.lexical, r.doc.lexical, doc.next)
  /\ Patches(doc.lexical, r.doc.lexical, r.patch)
  /\ Alters(doc.semantic, r.doc.semantic, doc.next, r.patch)
  /\ r.patch.splices = <<>> => r.doc.structure = doc.structure

\* The patch of a window names the place where it changes the semantic tape.
LEMMA DirectAlters ==
  ASSUME NEW doc, DocumentOK(doc), NEW m \in 0..Len(doc.lexical), NEW n \in m..Len(doc.lexical),
         NEW W, W = SubSeq(doc.lexical, m + 1, n), NEW tokens, IsSeq(tokens),
         Regrown(Semantic(W), Semantic(tokens), doc.next),
         NEW from, from = Len(Semantic(SubSeq(doc.lexical, 1, m))),
         NEW to, to = Len(Semantic(SubSeq(doc.lexical, 1, n)))
  PROVE  Alters(doc.semantic, ReplaceRange(doc.semantic, from, to, Semantic(tokens)), doc.next,
                DirectPatch(doc, W, tokens, from, to))
<1> DEFINE a == doc.semantic
           r == Semantic(W)
           b == Semantic(tokens)
           p == CommonPrefix(r, b)
           q == CommonSuffix(r, b, p)
           next == doc.next
<1>1. Ided(doc.lexical, doc.next) /\ IsSeq(doc.lexical) /\ a = Semantic(doc.lexical)
  BY DEF DocumentOK, Ided
<1>2. DistinctRefs(a, next)
  BY <1>1, SemanticDistinct
<1>3. from \in 0..Len(a) /\ to \in from..Len(a) /\ r = SubSeq(a, from + 1, to)
  BY <1>1, SemanticWindow
<1>4. IsSeq(b)
  BY SemanticParts
<1>5. DirectPatch(doc, W, tokens, from, to) = PatchBetween(doc, W, tokens, r, b, from, to, p, q)
  BY DEF DirectPatch
<1>6. a = doc.semantic /\ p = CommonPrefix(r, b) /\ q = CommonSuffix(r, b, p) /\ Regrown(r, b, next)
  OBVIOUS
<1> HIDE DEF a, r, b, p, q, next
<1>7. Alters(a, ReplaceRange(a, from, to, b), next, PatchBetween(doc, W, tokens, r, b, from, to, p, q))
  <2>1. Replaces(doc, a, next, from, to, r, b, p, q)
    BY <1>2, <1>3, <1>4, <1>6 DEF Replaces
  <2> QED
    BY <2>1, Changing
<1> QED
  BY <1>5, <1>7 DEF a, b, next

\* A splice of a document gives a document, with a patch that is right.
LEMMA Relexing ==
  ASSUME NEW doc, DocumentOK(doc), NEW text, IsSeq(text),
         NEW splice, splice.os \in Nat, splice.oe \in Int, splice.ne \in Int,
         splice.os <= splice.oe, splice.os <= Len(text), RelexSplice(doc, text, splice).ok
  PROVE  Relexes(doc, text, RelexSplice(doc, text, splice))
<1> DEFINE r == Replay(doc, text, splice)
           tape == doc.lexical
           m == r.restart
           n == r.suffix
           W == SubSeq(tape, m + 1, n)
           ids == ReconcileOccurrenceIds(W, r.out, doc.next)
           from == Len(Semantic(SubSeq(tape, 1, m)))
           to == Len(Semantic(SubSeq(tape, 1, n)))
           patch == DirectPatch(doc, W, ids.tokens, from, to)
           new == SplicedDocument(doc, text, r, ids, patch, from, to)
           R == RelexSplice(doc, text, splice)
<1>1. R = IF ~r.ok THEN [ok |-> FALSE]
          ELSE [ok |-> TRUE, patch |-> patch, sound |-> SoundReplay(doc, FreshLex(text), r), doc |-> new]
  BY DEF RelexSplice
<1> HIDE DEF new, patch
<1>2. r.ok
  <2> HIDE DEF r, R
  <2>1. CASE ~r.ok
    <3>1. R.ok = FALSE
      BY <1>1, <2>1
    <3>2. R.ok
      BY DEF R
    <3> QED
      BY <3>1, <3>2
  <2> QED
    BY <2>1
<1>3. R.doc = new /\ R.patch = patch
  <2> HIDE DEF r, R
  <2> QED
    BY <1>1, <1>2
<1>4. Replays(doc, text, r)
  BY <1>2, Replaying DEF DocumentOK
<1> HIDE DEF r, R
<1>5. Ided(tape, doc.next) /\ Sized(tape) /\ IsSeq(tape) /\ LexicalStart(tape, Len(tape)) = Len(doc.text)
  BY DEF DocumentOK, Covers, Ided
<1>6. m \in 0..Len(tape) /\ n \in m..Len(tape) /\ Sized(r.out)
  BY <1>4 DEF Replays
<1>7. IsSeq(r.out)
  BY <1>6 DEF Sized
<1> HIDE DEF m, n, tape
<1>8. Ided(W, doc.next)
  BY <1>5, <1>6, PartIded
<1> HIDE DEF W
<1>9. Numbers(W, r.out, doc.next, ids)
  BY <1>7, <1>8, Reconciling
<1> HIDE DEF ids
<1>10. IsSeq(ids.tokens) /\ IsSeq(W)
  BY <1>8, <1>9 DEF Numbers, Ided
<1>11. Patches(W, ids.tokens, patch)
  BY <1>10, Patching DEF patch
<1> DEFINE t == ReplaceRange(tape, m, n, ids.tokens)
<1>12. Ided(t, ids.next) /\ Follows(tape, t, doc.next)
  BY <1>5, <1>6, <1>9, Splicing DEF W
<1>13. Patches(tape, t, patch)
  BY <1>5, <1>6, <1>9, <1>11, SplicePatches DEF W
<1>14. Semantic(t) = ReplaceRange(Semantic(tape), from, to, Semantic(ids.tokens))
  BY <1>5, <1>6, <1>10, SemanticReplaced
<1>15. Sized(ids.tokens) /\ LexicalStart(ids.tokens, Len(ids.tokens)) = LexicalStart(r.out, Len(r.out))
  <2>1. Len(ids.tokens) = Len(r.out) /\ \A k \in 1..Len(r.out) : ids.tokens[k].width = r.out[k].width
    <3>1. \A k \in 1..Len(r.out) : ids.tokens[k] = Identified(r.out[k], ids.tokens[k].id)
      BY <1>9 DEF Numbers
    <3>2. \A x, id : Identified(x, id).width = x.width
      BY DEF Identified
    <3>3. Len(ids.tokens) = Len(r.out)
      BY <1>9 DEF Numbers
    <3>4. ASSUME NEW k \in 1..Len(r.out) PROVE ids.tokens[k].width = r.out[k].width
      <4>1. ids.tokens[k] = Identified(r.out[k], ids.tokens[k].id)
        BY <3>1
      <4> QED
        BY <3>2, <4>1, Zenon
    <3> QED
      BY <3>3, <3>4
  <2> QED
    BY <1>6, <1>10, <2>1, SameWidths
<1>16. Sized(t) /\ LexicalStart(t, Len(t)) = Len(text)
  <2>1. Sized(t) /\ LexicalStart(t, Len(t)) = LexicalStart(tape, m) + LexicalStart(ids.tokens, Len(ids.tokens))
                                                + (LexicalStart(tape, Len(tape)) - LexicalStart(tape, n))
    BY <1>5, <1>6, <1>15, StartReplaced
  <2>2. LexicalStart(tape, m) + LexicalStart(r.out, Len(r.out)) + (Len(doc.text) - LexicalStart(tape, n)) = Len(text)
    BY <1>4 DEF Replays, m, n, tape
  <2> QED
    BY <1>5, <1>15, <2>1, <2>2
<1>17. /\ new.lexical = t /\ new.text = text /\ new.next = ids.next
       /\ new.semantic = ReplaceRange(doc.semantic, from, to, Semantic(ids.tokens))
       /\ new.id = doc.id /\ new.semantics = doc.semantics
  BY DEF new, SplicedDocument, tape, m, n
<1>18. doc.semantic = Semantic(tape)
  BY DEF DocumentOK, tape
<1> HIDE DEF t, from, to
<1>19. DocumentOK(new)
  BY <1>12, <1>14, <1>16, <1>17, <1>18 DEF DocumentOK, Covers
<1>20. doc.next <= ids.next
  BY <1>9 DEF Numbers
<1>21. Alters(doc.semantic, new.semantic, doc.next, patch)
  <2>1. Regrown(Semantic(W), Semantic(ids.tokens), doc.next)
    BY <1>7, <1>8, ReconcilingGrows DEF ids
  <2>2. Alters(doc.semantic, ReplaceRange(doc.semantic, from, to, Semantic(ids.tokens)), doc.next,
               DirectPatch(doc, W, ids.tokens, from, to))
    BY <1>6, <1>10, <2>1, DirectAlters DEF W, from, to, tape
  <2> QED
    BY <1>17, <2>2 DEF patch
<1>22. patch.splices = <<>> => new.structure = doc.structure
  <2>1. patch.splices = <<>> => Shape(W) = Shape(ids.tokens)
    BY <1>11 DEF Patches, Shape
  <2>2. new.structure = IF Shape(W) = Shape(ids.tokens) THEN doc.structure ELSE doc.structure + 1
    BY DEF new, SplicedDocument, W, tape, m, n
  <2> QED
    BY <2>1, <2>2
<1>23. Relexes(doc, text, R)
  BY <1>3, <1>12, <1>13, <1>17, <1>19, <1>20, <1>21, <1>22 DEF Relexes, tape
<1> QED
  BY <1>23 DEF R

-----------------------------------------------------------------------------
(* Deriving a document *)

\* What the patches collected so far say of the step from one tape to another.
\* A token that came and went again is in both inserted and removed; none was
\* drawn from next on.
Collects(old, new, next, raw) ==
  /\ IsSeq(raw.splices)
  /\ \A x \in raw.inserted : x \in Nat /\ x < next
  /\ SemanticIds(new) = (SemanticIds(old) \cup raw.inserted) \ raw.removed
  /\ raw.inserted \cap SemanticIds(old) = {}
  /\ raw.removed \subseteq SemanticIds(old) \cup raw.inserted
  /\ \A i \in 1..Len(old), k \in 1..Len(new) :
       old[i].id = new[k].id /\ IsSemantic(new[k]) /\ new[k].id \notin raw.updated
       => Payload(old[i]) = Payload(new[k])
  /\ raw.splices = <<>> => Semantic(old) = Semantic(new)

\* A patch without content says that nothing happened.
LEMMA NothingCollected ==
  ASSUME NEW tape, NEW next, Ided(tape, next), NEW structure
  PROVE  Collects(tape, tape, next, NewPatch(structure))
<1> DEFINE raw == NewPatch(structure)
<1>1. raw.splices = <<>> /\ raw.inserted = {} /\ raw.removed = {} /\ raw.updated = {}
  BY DEF NewPatch
<1> HIDE DEF raw
<1>2. \A i, k \in 1..Len(tape) : tape[i].id = tape[k].id => Payload(tape[i]) = Payload(tape[k])
  BY DEF Ided
<1>3. Collects(tape, tape, next, raw)
  BY <1>1, <1>2, SeqEmpty DEF Collects
<1> QED
  BY <1>3 DEF raw

\* A joined or added splice is a splice.
LEMMA AddingSplice ==
  ASSUME NEW splices, IsSeq(splices), NEW splice
  PROVE  IsSeq(AddSplice(splices, splice)) /\ AddSplice(splices, splice) # <<>>
<1>1. \A s, x : IsSeq(s) => IsSeq(Append(s, x)) /\ Append(s, x) # <<>>
  <2>1. ASSUME NEW s, NEW x, IsSeq(s) PROVE IsSeq(Append(s, x)) /\ Append(s, x) # <<>>
    <3>1. IsSeq(Append(s, x)) /\ Len(Append(s, x)) = Len(s) + 1 /\ Len(s) \in Nat
      BY <2>1, SeqAppend, SeqParts
    <3>2. Len(Append(s, x)) # Len(<<>>)
      BY <3>1, SeqEmpty
    <3> QED
      BY <3>1, <3>2, Zenon
  <2> QED
    BY <2>1
<1>2. CASE splices # <<>> /\ Last(splices).after = splice.before
  <2>1. IsSeq(Front(splices))
    <3>1. Len(splices) \in Nat /\ Len(splices) # 0
      BY <1>2, SeqParts DEF IsSeq
    <3> DEFINE n == Len(splices) - 1
    <3>2. n \in 0..Len(splices) /\ 0 \in 0..Len(splices)
      BY <3>1
    <3> HIDE DEF n
    <3>3. IsSeq(SubSeq(splices, 0 + 1, n))
      BY <3>2, SeqSub
    <3>4. Front(splices) = SubSeq(splices, 0 + 1, n)
      BY DEF Front, n
    <3> QED
      BY <3>3, <3>4
  <2>2. \E x : AddSplice(splices, splice) = Append(Front(splices), x)
    BY <1>2 DEF AddSplice
  <2> QED
    BY <1>1, <2>1, <2>2
<1>3. CASE ~(splices # <<>> /\ Last(splices).after = splice.before)
  <2>1. AddSplice(splices, splice) = Append(splices, splice)
    BY <1>3 DEF AddSplice
  <2> QED
    BY <1>1, <2>1
<1> QED
  BY <1>2, <1>3

\* The patch of a further splice is absorbed.
LEMMA Absorbing ==
  ASSUME NEW a, NEW b, NEW c, NEW m, NEW n, NEW o, Ided(a, m), Ided(b, n), Ided(c, o), m <= n,
         n <= o,
         Follows(a, b, m), Follows(b, c, n), NEW raw, Collects(a, b, n, raw), NEW local, Patches(b, c, local)
  PROVE  Collects(a, c, o, Absorb(raw, local))
<1> DEFINE S == SemanticIds(a)
           B == SemanticIds(b)
           C == SemanticIds(c)
           all == Absorb(raw, local)
<1>0. /\ m \in Nat /\ n \in Nat /\ (\A i \in 1..Len(a) : a[i].id \in Nat /\ a[i].id < m)
      /\ (\A i \in 1..Len(b) : b[i].id \in Nat /\ b[i].id < n)
      /\ (\A i \in 1..Len(c) : c[i].id \in Nat)
  BY DEF Ided
<1>1. /\ all.inserted = raw.inserted \cup local.inserted
      /\ all.removed = raw.removed \cup local.removed
      /\ all.updated = raw.updated \cup local.updated
      /\ all.splices = IF local.splices = <<>> THEN raw.splices
                       ELSE AddSplice(raw.splices, local.splices[1])
  BY DEF Absorb
<1> HIDE DEF all
<1>2. ASSUME NEW x \in C, x \notin B PROVE x \in Nat /\ x >= n
  <2>1. PICK k \in 1..Len(c) : IsSemantic(c[k]) /\ x = c[k].id
    BY DEF SemanticIds
  <2>2. ASSUME NEW j \in 1..Len(b), b[j].id = c[k].id PROVE FALSE
    <3>1. IsSemantic(b[j])
      BY <2>1, <2>2 DEF Follows
    <3> QED
      BY <1>2, <2>1, <2>2, <3>1 DEF SemanticIds
  <2>3. c[k].id >= n
    BY <2>2 DEF Follows
  <2> QED
    BY <1>0, <2>1, <2>3
<1>3. ASSUME NEW x \in S \cup B PROVE x \in Nat /\ x < n
  BY <1>0 DEF SemanticIds
<1>4. local.inserted = C \ B /\ local.removed = B \ C
  BY DEF Patches
<1>5. /\ B = (S \cup raw.inserted) \ raw.removed /\ raw.inserted \cap S = {}
      /\ raw.removed \subseteq S \cup raw.inserted
  BY DEF Collects
<1>6. \A x \in raw.inserted : x \in Nat /\ x < n
  BY DEF Collects
<1>7. ASSUME NEW x \in C PROVE x \in Nat /\ x < o
  BY DEF SemanticIds, Ided
<1> HIDE DEF S, B, C
<1>8. C = (S \cup all.inserted) \ all.removed
  <2>1. ASSUME NEW x \in C PROVE x \in (S \cup all.inserted) \ all.removed
    <3>1. CASE x \in B
      BY <1>1, <1>4, <1>5, <2>1, <3>1
    <3>2. CASE x \notin B
      <4>1. x \in Nat /\ x >= n
        BY <1>2, <3>2
      <4>2. x \notin S \cup raw.inserted
        BY <1>0, <1>3, <1>6, <4>1
      <4> QED
        BY <1>1, <1>4, <1>5, <2>1, <3>2, <4>2
    <3> QED
      BY <3>1, <3>2
  <2>2. ASSUME NEW x \in (S \cup all.inserted) \ all.removed PROVE x \in C
    BY <1>1, <1>4, <1>5
  <2> QED
    BY <2>1, <2>2
<1>9. all.inserted \cap S = {}
  <2>1. ASSUME NEW x \in local.inserted, x \in S PROVE FALSE
    <3>1. x \in Nat /\ x >= n
      BY <1>2, <1>4
    <3> QED
      BY <1>0, <1>3, <2>1, <3>1
  <2> QED
    BY <1>1, <1>5, <2>1
<1>10. all.removed \subseteq S \cup all.inserted
  BY <1>1, <1>4, <1>5
<1>11. \A x \in all.inserted : x \in Nat /\ x < o
  <2>1. o \in Nat /\ n <= o
    BY DEF Ided
  <2>2. ASSUME NEW x \in raw.inserted PROVE x \in Nat /\ x < o
    BY <1>0, <1>6, <2>1
  <2> QED
    BY <1>1, <1>4, <1>7, <2>2
<1>12. ASSUME NEW i \in 1..Len(a), NEW k \in 1..Len(c),
              a[i].id = c[k].id, IsSemantic(c[k]), c[k].id \notin all.updated
       PROVE  Payload(a[i]) = Payload(c[k])
  <2>1. ~(c[k].id >= n)
    BY <1>0, <1>12
  <2>2. PICK j \in 1..Len(b) : b[j].id = c[k].id
    BY <2>1 DEF Follows
  <2>3. IsSemantic(b[j])
    BY <1>12, <2>2 DEF Follows
  <2>4. Payload(a[i]) = Payload(b[j])
    <3>1. a[i].id = b[j].id /\ b[j].id \notin raw.updated
      BY <1>1, <1>12, <2>2
    <3> QED
      BY <2>3, <3>1 DEF Collects
  <2>5. Payload(b[j]) = Payload(c[k])
    BY <1>1, <1>12, <2>2 DEF Patches
  <2> QED
    BY <2>4, <2>5
<1>13. IsSeq(raw.splices)
  BY DEF Collects
<1>14. IsSeq(all.splices) /\ (all.splices = <<>> => raw.splices = <<>> /\ local.splices = <<>>)
  <2>1. CASE local.splices = <<>>
    BY <1>1, <1>13, <2>1
  <2>2. CASE local.splices # <<>>
    BY <1>1, <1>13, <2>2, AddingSplice
  <2> QED
    BY <2>1, <2>2
<1>15. all.splices = <<>> => Semantic(a) = Semantic(c)
  BY <1>14 DEF Collects, Patches
<1>16. Collects(a, c, o, all)
  BY <1>8, <1>9, <1>10, <1>11, <1>12, <1>14, <1>15 DEF Collects, S, C
<1> QED
  BY <1>16 DEF all

\* Freezing drops what cancels out, and leaves a patch that is right.
LEMMA Freezing ==
  ASSUME NEW old, NEW new, NEW from, Follows(old, new, from),
         NEW next, NEW raw, Collects(old, new, next, raw), NEW structure
  PROVE  Patches(old, new, Freeze(raw, structure))
<1> DEFINE S == SemanticIds(old)
           N == SemanticIds(new)
           patch == Freeze(raw, structure)
<1>1. /\ patch.splices = raw.splices
      /\ patch.inserted = raw.inserted \ raw.removed
      /\ patch.removed = raw.removed \ raw.inserted
      /\ patch.updated = raw.updated \ (patch.inserted \cup patch.removed)
  BY DEF Freeze
<1> HIDE DEF patch
<1>2. /\ N = (S \cup raw.inserted) \ raw.removed /\ raw.inserted \cap S = {}
      /\ raw.removed \subseteq S \cup raw.inserted
  BY DEF Collects
<1>3. ASSUME NEW i \in 1..Len(old), NEW k \in 1..Len(new),
             old[i].id = new[k].id, IsSemantic(new[k]), new[k].id \notin patch.updated
      PROVE  Payload(old[i]) = Payload(new[k])
  <2>1. new[k].id \in S /\ new[k].id \in N
    <3>1. IsSemantic(old[i])
      BY <1>3 DEF Follows
    <3> QED
      BY <1>3, <3>1 DEF SemanticIds
  <2> HIDE DEF S, N
  <2>2. new[k].id \notin raw.updated
    BY <1>1, <1>2, <1>3, <2>1
  <2> QED
    BY <1>3, <2>2 DEF Collects
<1>4. patch.splices = <<>> => Semantic(old) = Semantic(new)
  BY <1>1 DEF Collects
<1>5. patch.inserted = N \ S /\ patch.removed = S \ N
  <2> HIDE DEF S, N
  <2> QED
    BY <1>1, <1>2
<1>6. Patches(old, new, patch)
  BY <1>3, <1>4, <1>5 DEF Patches
<1> QED
  BY <1>6 DEF patch

\* The ends of the splice k of a sequence, and the start of the text behind it.
OldEnd(splices, k) == IF k = 0 THEN 0 ELSE splices[k].oe
NewEnd(splices, k) == IF k = 0 THEN 0 ELSE splices[k].ne
OldStart(splices, k, old) == IF k > Len(splices) THEN Len(old) ELSE splices[k].os
NewStart(splices, k, new) == IF k > Len(splices) THEN Len(new) ELSE splices[k].ns

\* Between the splices the old and the new text agree.
Delta(old, new, splices) ==
  \A k \in 0..Len(splices) :
    /\ NewStart(splices, k + 1, new) - NewEnd(splices, k)
         = OldStart(splices, k + 1, old) - OldEnd(splices, k)
    /\ \A j \in 1..(OldStart(splices, k + 1, old) - OldEnd(splices, k)) :
         new[NewEnd(splices, k) + j] = old[OldEnd(splices, k) + j]

\* A text that has the new content up to the splice n and the old one behind it.
Halfway(old, new, splices, n, text, shift) ==
  /\ shift = NewEnd(splices, n) - OldEnd(splices, n)
  /\ Len(text) = Len(old) + NewEnd(splices, n) - OldEnd(splices, n)
  /\ \A j \in 1..NewEnd(splices, n) : text[j] = new[j]
  /\ \A j \in 1..(Len(old) - OldEnd(splices, n)) :
       text[NewEnd(splices, n) + j] = old[OldEnd(splices, n) + j]

\* The next splice of the text.
LEMMA HalfwayStep ==
  ASSUME NEW old, NEW new, NEW splices, IsSeq(old), IsSeq(new), IsSeq(splices),
         ValidateSourceDelta(old, new, splices), Delta(old, new, splices),
         NEW n \in 1..Len(splices), NEW text, IsSeq(text), NEW shift,
         Halfway(old, new, splices, n - 1, text, shift)
  PROVE  LET s == splices[n]
             ins == Lexeme(new, s.ns, s.ne)
         IN Halfway(old, new, splices, n, ReplaceRange(text, s.os + shift, s.oe + shift, ins),
                    shift + Len(ins) - (s.oe - s.os))
<1> DEFINE s == splices[n]
           OE == OldEnd(splices, n - 1)
           NE == NewEnd(splices, n - 1)
           ins == Lexeme(new, s.ns, s.ne)
           os == s.os + shift
           oe == s.oe + shift
           r == ReplaceRange(text, os, oe, ins)
<1>0. Len(old) \in Nat /\ Len(new) \in Nat /\ Len(splices) \in Nat
  BY SeqParts
<1>1. DOMAIN splices = 1..Len(splices)
  BY SeqParts
<1>2. /\ s.oe \in Nat /\ s.os \in Nat /\ s.ne \in Nat /\ s.ns \in Nat /\ OE \in Nat /\ NE \in Nat
      /\ s.oe <= Len(old) /\ s.os <= s.oe /\ s.ne <= Len(new) /\ s.ns <= s.ne
      /\ s.os >= OE /\ s.ns >= NE
  <2>1. /\ s.oe \in 0..Len(old) /\ s.os \in 0..s.oe /\ s.ne \in 0..Len(new) /\ s.ns \in 0..s.ne
        /\ s.os >= (IF n = 1 THEN 0 ELSE splices[n - 1].oe)
        /\ s.ns >= (IF n = 1 THEN 0 ELSE splices[n - 1].ne)
    BY <1>1 DEF ValidateSourceDelta
  <2>2. /\ s.oe \in Nat /\ s.os \in Nat /\ s.ne \in Nat /\ s.ns \in Nat
        /\ s.oe <= Len(old) /\ s.os <= s.oe /\ s.ne <= Len(new) /\ s.ns <= s.ne
    <3>1. s.oe \in Nat /\ s.oe <= Len(old)
      BY <1>0, <2>1
    <3>2. s.ne \in Nat /\ s.ne <= Len(new)
      BY <1>0, <2>1
    <3>3. s.os \in Nat /\ s.os <= s.oe
      BY <3>1, <2>1
    <3>4. s.ns \in Nat /\ s.ns <= s.ne
      BY <3>2, <2>1
    <3> QED
      BY <3>1, <3>2, <3>3, <3>4
  <2>3. CASE n = 1
    BY <2>1, <2>3, <2>2 DEF OldEnd, NewEnd
  <2>4. CASE n # 1
    <3>1. n - 1 \in 1..Len(splices) /\ n - 1 # 0
      BY <1>0, <2>4
    <3>2. splices[n - 1].oe \in 0..Len(old) /\ splices[n - 1].ne \in 0..Len(new)
      BY <1>1, <3>1 DEF ValidateSourceDelta
    <3>3. OE = splices[n - 1].oe /\ NE = splices[n - 1].ne
      BY <3>1 DEF OldEnd, NewEnd
    <3> QED
      BY <1>0, <2>1, <2>4, <2>2, <3>2, <3>3
  <2> QED
    BY <2>3, <2>4
<1>3. s.ns - NE = s.os - OE /\ \A j \in 1..(s.os - OE) : new[NE + j] = old[OE + j]
  <2>1. n - 1 \in 0..Len(splices) /\ (n - 1) + 1 = n /\ ~(n > Len(splices))
    BY <1>0
  <2>2. OldStart(splices, n, old) = s.os /\ NewStart(splices, n, new) = s.ns
    BY <2>1 DEF OldStart, NewStart
  <2>3. /\ NewStart(splices, (n - 1) + 1, new) - NE = OldStart(splices, (n - 1) + 1, old) - OE
        /\ \A j \in 1..(OldStart(splices, (n - 1) + 1, old) - OE) : new[NE + j] = old[OE + j]
    BY <2>1 DEF Delta
  <2> QED
    BY <2>1, <2>2, <2>3
<1>4. OldEnd(splices, n) = s.oe /\ NewEnd(splices, n) = s.ne
  BY DEF OldEnd, NewEnd
<1>5. /\ Len(text) = Len(old) + NE - OE
      /\ (\A j \in 1..NE : text[j] = new[j])
      /\ \A j \in 1..(Len(old) - OE) : text[NE + j] = old[OE + j]
  BY DEF Halfway
<1>6. os = s.os + (NE - OE) /\ oe = s.oe + (NE - OE) /\ shift = NE - OE
  BY DEF Halfway
<1>7. IsSeq(ins) /\ Len(ins) = s.ne - s.ns /\ \A k \in 1..(s.ne - s.ns) : ins[k] = new[s.ns + k]
  <2>1. s.ns \in 0..Len(new) /\ s.ne \in s.ns..Len(new)
    BY <1>0, <1>2
  <2> HIDE DEF s
  <2> QED
    BY <2>1, SeqSub DEF Lexeme
<1> HIDE DEF OE, NE
<1>8. PICK a \in Nat : a = s.os
  BY <1>2
<1>9. PICK b \in Nat : b = s.oe
  BY <1>2
<1>10. PICK c \in Nat : c = s.ns
  BY <1>2
<1>11. PICK d \in Nat : d = s.ne
  BY <1>2
<1> HIDE DEF s, ins, os, oe
<1>12. b <= Len(old) /\ a <= b /\ d <= Len(new) /\ c <= d /\ a >= OE /\ c >= NE /\ OE \in Nat /\ NE \in Nat
  BY <1>2, <1>8, <1>9, <1>10, <1>11
<1>13. c - NE = a - OE
  BY <1>3, <1>8, <1>10, Zenon
<1>14. \A j \in 1..(a - OE) : new[NE + j] = old[OE + j]
  BY <1>3, <1>8, Zenon
<1>15. os = a + (NE - OE) /\ oe = b + (NE - OE) /\ shift = NE - OE
  BY <1>6, <1>8, <1>9, Zenon
<1>16. IsSeq(ins) /\ Len(ins) = d - c /\ \A k \in 1..(d - c) : ins[k] = new[c + k]
  BY <1>7, <1>10, <1>11, Zenon
<1>17. OldEnd(splices, n) = b /\ NewEnd(splices, n) = d
  BY <1>4, <1>9, <1>11, Zenon
<1>18. Len(text) = Len(old) + NE - OE
  BY <1>5
<1>19. /\ os = c /\ os \in 0..Len(text) /\ oe \in os..Len(text)
       /\ Len(text) \in Nat
  BY <1>0, <1>12, <1>13, <1>15, <1>18
<1>20. Replaced(text, os, oe, ins, r)
  BY <1>16, <1>19, Replacing
<1> HIDE DEF r
<1>21. /\ Len(r) = Len(text) - (oe - os) + Len(ins)
       /\ \A k \in 1..os : r[k] = text[k]
       /\ \A k \in 1..Len(ins) : r[os + k] = ins[k]
       /\ \A k \in 1..(Len(text) - oe) : r[os + Len(ins) + k] = text[oe + k]
  BY <1>20 DEF Replaced
<1>22. Len(r) = Len(old) + d - b
  <2>1. Len(r) = Len(text) - (oe - os) + Len(ins) /\ Len(ins) = d - c
    BY <1>16, <1>21
  <2>2. Len(text) = Len(old) + NE - OE
    BY <1>18
  <2> QED
    BY <1>0, <1>12, <1>13, <1>15, <1>19, <2>1, <2>2
<1>23. ASSUME NEW j \in 1..d PROVE r[j] = new[j]
  <2>1. CASE j <= NE
    <3>1. j \in 1..NE /\ j \in 1..os
      BY <1>12, <1>13, <1>19, <2>1
    <3> QED
      BY <1>5, <1>21, <3>1
  <2>2. CASE j > NE /\ j <= c
    <3>1. /\ j - NE \in 1..(a - OE) /\ NE + (j - NE) = j /\ j \in 1..os
          /\ j - NE \in 1..(Len(old) - OE)
      BY <1>0, <1>12, <1>13, <1>14, <1>19, <2>2
    <3>2. new[NE + (j - NE)] = old[OE + (j - NE)] /\ text[NE + (j - NE)] = old[OE + (j - NE)]
      BY <1>14, <1>5, <3>1
    <3> QED
      BY <1>21, <3>1, <3>2
  <2>3. CASE j > c
    <3>1. j - c \in 1..(d - c) /\ c + (j - c) = j
      BY <1>0, <1>12, <1>13, <2>3
    <3>2. r[os + (j - c)] = ins[j - c] /\ ins[j - c] = new[c + (j - c)]
      BY <1>16, <1>21, <3>1
    <3> QED
      BY <1>19, <3>1, <3>2
  <2> QED
    BY <1>12, <1>13, <2>1, <2>2, <2>3
<1>24. ASSUME NEW j \in 1..(Len(old) - b) PROVE r[d + j] = old[b + j]
  <2>1. j \in 1..(Len(text) - oe) /\ os + Len(ins) + j = d + j
    <3>1. Len(text) = Len(old) + NE - OE /\ Len(ins) = d - c
      BY <1>16, <1>18
    <3> QED
      BY <1>0, <1>12, <1>13, <1>15, <1>19, <3>1
  <2>2. r[d + j] = text[oe + j]
    BY <1>21, <2>1
  <2>3. oe + j = NE + (b - OE + j) /\ b - OE + j \in 1..(Len(old) - OE) /\ OE + (b - OE + j) = b + j
    BY <1>0, <1>12, <1>13, <1>15
  <2>4. text[NE + (b - OE + j)] = old[OE + (b - OE + j)]
    BY <1>5, <2>3
  <2> QED
    BY <2>2, <2>3, <2>4
<1>25. shift + Len(ins) - (b - a) = d - b
  <2>1. Len(ins) = d - c
    BY <1>16
  <2> QED
    BY <1>12, <1>13, <1>15, <2>1
<1>26. Halfway(old, new, splices, n, r, shift + Len(ins) - (b - a))
  BY <1>22, <1>23, <1>24, <1>25, <1>17 DEF Halfway
<1>27. Halfway(old, new, splices, n, r, shift + Len(ins) - (s.oe - s.os))
  BY <1>26, <1>8, <1>9, Zenon
<1> QED
  BY <1>27 DEF r, ins, s, os, oe

\* A document on the way from doc to the text source, after n splices.
Derives(doc, source, splices, n, d) ==
  /\ DocumentOK(d.doc) /\ d.doc.id = doc.id /\ d.doc.semantics = doc.semantics
  /\ doc.next <= d.doc.next /\ Follows(doc.lexical, d.doc.lexical, doc.next)
  /\ Collects(doc.lexical, d.doc.lexical, d.doc.next, d.patch)
  /\ Traces(doc.semantic, d.doc.semantic, d.patch, d.patch.at)
  /\ d.patch.old = doc.structure /\ (d.patch.splices = <<>> => d.doc.structure = doc.structure)
  /\ d.shift \in Int /\ Len(d.doc.text) = Len(doc.text) + d.shift
  /\ OldEnd(splices, n) + d.shift >= 0
  /\ Delta(doc.text, source, splices) =>
       Halfway(doc.text, source, splices, n, d.doc.text, d.shift)

\* Where a splice is made in the text so far.
LEMMA SpliceRange ==
  ASSUME NEW old, NEW new, NEW splices, IsSeq(old), IsSeq(new), IsSeq(splices),
         ValidateSourceDelta(old, new, splices), NEW n \in 1..Len(splices),
         NEW shift \in Int, OldEnd(splices, n - 1) + shift >= 0
  PROVE  LET s == splices[n]
             ins == Lexeme(new, s.ns, s.ne)
         IN /\ IsSeq(ins) /\ Len(ins) \in Nat
            /\ s.os \in Nat /\ s.oe \in Nat /\ s.oe <= Len(old) /\ s.os <= s.oe
            /\ s.os + shift >= 0
<1> DEFINE s == splices[n]
<1>0. Len(old) \in Nat /\ Len(new) \in Nat /\ Len(splices) \in Nat
  BY SeqParts
<1>1. DOMAIN splices = 1..Len(splices)
  BY SeqParts
<1>2. /\ s.oe \in 0..Len(old) /\ s.os \in 0..s.oe /\ s.ne \in 0..Len(new) /\ s.ns \in 0..s.ne
      /\ s.os >= (IF n = 1 THEN 0 ELSE splices[n - 1].oe)
  BY <1>1 DEF ValidateSourceDelta
<1>3. s.oe \in Nat /\ s.oe <= Len(old)
  BY <1>0, <1>2
<1>4. s.os \in Nat /\ s.os <= s.oe
  BY <1>2, <1>3
<1>5. s.ns \in 0..Len(new) /\ s.ne \in s.ns..Len(new)
  <2>1. s.ne \in Nat /\ s.ne <= Len(new)
    BY <1>0, <1>2
  <2>2. s.ns \in Nat /\ s.ns <= s.ne
    BY <1>2, <2>1
  <2>3. PICK c \in Nat : c = s.ns
    BY <2>2
  <2>4. PICK d \in Nat : d = s.ne
    BY <2>1
  <2> HIDE DEF s
  <2>5. c \in 0..Len(new) /\ d \in c..Len(new)
    BY <1>0, <2>1, <2>2, <2>3, <2>4
  <2> QED
    BY <2>3, <2>4, <2>5, Zenon
<1>6. OldEnd(splices, n - 1) = IF n = 1 THEN 0 ELSE splices[n - 1].oe
  <2>1. n - 1 = 0 <=> n = 1
    OBVIOUS
  <2> QED
    BY <2>1 DEF OldEnd
<1>7. s.os >= OldEnd(splices, n - 1) /\ OldEnd(splices, n - 1) \in Int
  <2>1. CASE n = 1
    BY <1>2, <1>6, <2>1
  <2>2. CASE n # 1
    <3>1. n - 1 \in 1..Len(splices)
      BY <1>0, <2>2
    <3>2. splices[n - 1].oe \in 0..Len(old)
      BY <1>1, <3>1 DEF ValidateSourceDelta
    <3> QED
      BY <1>0, <1>2, <1>6, <2>2, <3>2
  <2> QED
    BY <2>1, <2>2
<1> HIDE DEF s
<1>8. s.os + shift >= 0
  BY <1>4, <1>7
<1>9. IsSeq(Lexeme(new, s.ns, s.ne)) /\ Len(Lexeme(new, s.ns, s.ne)) \in Nat
  <2>1. IsSeq(Lexeme(new, s.ns, s.ne))
    BY <1>5, SeqSub DEF Lexeme
  <2> QED
    BY <2>1, SeqParts
<1> QED
  BY <1>3, <1>4, <1>8, <1>9 DEF s

\* One splice of a revision.
LEMMA DerivingStep ==
  ASSUME NEW doc, DocumentOK(doc), NEW source, IsSeq(source), NEW splices, IsSeq(splices),
         ValidateSourceDelta(doc.text, source, splices), NEW n \in 1..Len(splices),
         NEW d, d.ok, Derives(doc, source, splices, n - 1, d),
         NEW e, e.splice = splices[n], e.source = source, DeriveSplice(d, e).ok
  PROVE  Derives(doc, source, splices, n, DeriveSplice(d, e))
<1> DEFINE s == splices[n]
           ins == Lexeme(source, s.ns, s.ne)
           start == s.os + d.shift
           text == ReplaceRange(d.doc.text, start, s.oe + d.shift, ins)
           ev == [os |-> start, oe |-> s.oe + d.shift, ns |-> start, ne |-> start + Len(ins)]
           r == RelexSplice(d.doc, text, ev)
           D == DeriveSplice(d, e)
<1>1. D = IF ~r.ok THEN [ok |-> FALSE]
          ELSE [ok |-> TRUE, sound |-> d.sound /\ r.sound, doc |-> r.doc,
                patch |-> Absorb(d.patch, r.patch),
                shift |-> d.shift + Len(ins) - (s.oe - s.os)]
  <2> HIDE DEF r
  <2> QED
    BY DEF DeriveSplice, r
<1>2. IsSeq(doc.text) /\ IsSeq(d.doc.text) /\ DocumentOK(d.doc) /\ d.shift \in Int
  BY DEF Derives, DocumentOK, Covers
<1>3. /\ IsSeq(ins) /\ Len(ins) \in Nat /\ s.os \in Nat /\ s.oe \in Nat
      /\ s.oe <= Len(doc.text) /\ s.os <= s.oe /\ s.os + d.shift >= 0
  <2>1. OldEnd(splices, n - 1) + d.shift >= 0
    BY DEF Derives
  <2> QED
    BY <1>2, <2>1, SpliceRange
<1> HIDE DEF r, D, s
<1>4. r.ok
  <2>1. D.ok
    BY DEF D
  <2>2. CASE ~r.ok
    <3>1. D.ok = FALSE
      BY <1>1, <2>2
    <3> QED
      BY <2>1, <3>1
  <2> QED
    BY <2>2
<1>5. D.doc = r.doc /\ D.patch = Absorb(d.patch, r.patch) /\ D.shift = d.shift + Len(ins) - (s.oe - s.os)
  BY <1>1, <1>4
<1>6. PICK a \in Nat : a = s.os
  BY <1>3
<1>7. PICK b \in Nat : b = s.oe
  BY <1>3
<1>8. PICK shift \in Int : shift = d.shift
  BY <1>2
<1>9. /\ a <= b /\ a + shift >= 0 /\ b <= Len(doc.text) /\ Len(d.doc.text) = Len(doc.text) + shift
      /\ Len(doc.text) \in Nat
  BY <1>2, <1>3, <1>6, <1>7, <1>8, SeqParts DEF Derives
<1>10. start = a + shift /\ s.oe + d.shift = b + shift /\ D.shift = shift + Len(ins) - (b - a)
  BY <1>5, <1>6, <1>7, <1>8
<1>11. a + shift \in 0..Len(d.doc.text) /\ b + shift \in (a + shift)..Len(d.doc.text)
  BY <1>9
<1> HIDE DEF ins, start
<1>12. Replaced(d.doc.text, a + shift, b + shift, ins, text)
  <2>1. text = ReplaceRange(d.doc.text, a + shift, b + shift, ins)
    BY <1>10
  <2> HIDE DEF text
  <2>2. Replaced(d.doc.text, a + shift, b + shift, ins, ReplaceRange(d.doc.text, a + shift, b + shift, ins))
    BY <1>2, <1>3, <1>11, Replacing
  <2> QED
    BY <2>1, <2>2
<1> HIDE DEF text
<1>13. IsSeq(text) /\ Len(text) = Len(d.doc.text) - ((b + shift) - (a + shift)) + Len(ins)
  BY <1>12 DEF Replaced
<1>14. /\ ev.os \in Nat /\ ev.oe \in Int /\ ev.ne \in Int /\ ev.os <= ev.oe /\ ev.os <= Len(text)
  <2>1. Len(ins) \in Nat
    BY <1>3
  <2>2. a + shift \in Nat /\ b + shift \in Int /\ a + shift <= b + shift /\ a + shift <= Len(text)
        /\ a + shift + Len(ins) \in Int
    BY <1>9, <1>13, <2>1
  <2>3. ev.os = a + shift /\ ev.oe = b + shift /\ ev.ne = (a + shift) + Len(ins)
    BY <1>10
  <2> HIDE DEF ev
  <2> QED
    BY <2>2, <2>3
<1>15. Relexes(d.doc, text, r)
  <2> HIDE DEF ev
  <2> QED
    BY <1>2, <1>4, <1>13, <1>14, Relexing DEF r
<1>16. DocumentOK(r.doc) /\ r.doc.text = text /\ r.doc.id = doc.id /\ r.doc.semantics = doc.semantics
  BY <1>15 DEF Relexes, Derives
<1>17. /\ Ided(doc.lexical, doc.next) /\ Ided(d.doc.lexical, d.doc.next) /\ Ided(r.doc.lexical, r.doc.next)
       /\ doc.next <= d.doc.next /\ d.doc.next <= r.doc.next
       /\ Follows(doc.lexical, d.doc.lexical, doc.next) /\ Follows(d.doc.lexical, r.doc.lexical, d.doc.next)
  BY <1>2, <1>15, <1>16 DEF Relexes, Derives, DocumentOK
<1>18. doc.next <= r.doc.next
  <2>1. doc.next \in Nat /\ d.doc.next \in Nat /\ r.doc.next \in Nat
    BY <1>17 DEF Ided
  <2> QED
    BY <1>17, <2>1
<1>19. Follows(doc.lexical, r.doc.lexical, doc.next)
  <2>1. IsSeq(r.doc.lexical) /\ \A k \in 1..Len(r.doc.lexical) : r.doc.lexical[k].id \in Nat
    BY <1>17 DEF Ided
  <2> QED
    BY <1>17, <2>1, FollowsTransitive
<1>20. Collects(doc.lexical, r.doc.lexical, r.doc.next, Absorb(d.patch, r.patch))
  <2>1. Collects(doc.lexical, d.doc.lexical, d.doc.next, d.patch) /\ Patches(d.doc.lexical, r.doc.lexical, r.patch)
    BY <1>15 DEF Relexes, Derives
  <2> QED
    BY <1>17, <2>1, Absorbing
<1>21. D.shift \in Int /\ Len(text) = Len(doc.text) + D.shift /\ b + D.shift >= 0
  <2>1. PICK i \in Nat : i = Len(ins)
    BY <1>3
  <2>2. PICK N \in Nat : N = Len(doc.text)
    BY <1>9
  <2>3. N + shift = Len(d.doc.text) /\ a <= b /\ a + shift >= 0
    BY <1>9, <2>2
  <2>4. D.shift = shift + i - (b - a)
    BY <1>10, <2>1
  <2>5. Len(text) = (N + shift) - ((b + shift) - (a + shift)) + i
    BY <1>13, <2>1, <2>3
  <2>6. shift + i - (b - a) \in Int /\ b + (shift + i - (b - a)) >= 0
    BY <2>3
  <2>7. (N + shift) - ((b + shift) - (a + shift)) + i = N + (shift + i - (b - a))
    OBVIOUS
  <2> QED
    BY <2>2, <2>4, <2>5, <2>6, <2>7
<1>22. OldEnd(splices, n) = s.oe
  BY DEF OldEnd, s
<1>23. ASSUME Delta(doc.text, source, splices)
       PROVE  Halfway(doc.text, source, splices, n, text, D.shift)
  <2>1. Halfway(doc.text, source, splices, n - 1, d.doc.text, d.shift)
    BY <1>23 DEF Derives
  <2>2. Halfway(doc.text, source, splices, n,
                ReplaceRange(d.doc.text, s.os + d.shift, s.oe + d.shift, ins),
                d.shift + Len(ins) - (s.oe - s.os))
    BY <1>2, <1>23, <2>1, HalfwayStep DEF s, ins
  <2> QED
    BY <1>5, <2>2 DEF text, start
<1>24. OldEnd(splices, n) + D.shift >= 0
  BY <1>7, <1>21, <1>22
<1>25. Traces(doc.semantic, r.doc.semantic, D.patch, D.patch.at)
  <2> DEFINE o == doc.semantic
             mid == d.doc.semantic
             c == r.doc.semantic
             raw == d.patch
             local == r.patch
             m == doc.next
             k == d.doc.next
  <2>1. DistinctRefs(o, m) /\ DistinctRefs(mid, k) /\ m <= k /\ IsSeq(c)
    <3>1. o = Semantic(doc.lexical) /\ mid = Semantic(d.doc.lexical) /\ c = Semantic(r.doc.lexical)
          /\ IsSeq(r.doc.lexical)
      BY <1>2, <1>16 DEF DocumentOK, Ided
    <3> QED
      BY <1>17, <3>1, SemanticDistinct, SemanticParts
  <2>2. IsSeq(raw.splices) /\ Traces(o, mid, raw, raw.at) /\ (raw.splices = <<>> => o = mid)
    BY <1>2 DEF Derives, Collects, DocumentOK
  <2>3. Alters(mid, c, k, local) /\ (local.splices = <<>> => mid = c)
    BY <1>2, <1>15, <1>16 DEF Relexes, Patches, DocumentOK
  <2> HIDE DEF o, mid, c, raw, local, m, k
  <2>4. Traces(o, c, Absorb(raw, local), Absorb(raw, local).at)
    BY <2>1, <2>2, <2>3, Tracing
  <2> QED
    BY <1>5, <2>4 DEF o, c, raw, local
<1>26. D.patch.old = doc.structure /\ (D.patch.splices = <<>> => r.doc.structure = doc.structure)
  <2>1. D.patch.old = d.patch.old /\ d.patch.old = doc.structure
    BY <1>5 DEF Absorb, Derives
  <2>2. /\ D.patch.splices = IF r.patch.splices = <<>> THEN d.patch.splices
                             ELSE AddSplice(d.patch.splices, r.patch.splices[1])
        /\ IsSeq(d.patch.splices)
    BY <1>5 DEF Absorb, Derives, Collects
  <2>3. D.patch.splices = <<>> => d.patch.splices = <<>> /\ r.patch.splices = <<>>
    BY <2>2, AddingSplice
  <2> QED
    BY <1>15, <2>1, <2>3 DEF Relexes, Derives
<1>27. Derives(doc, source, splices, n, D)
  BY <1>5, <1>16, <1>18, <1>19, <1>20, <1>21, <1>23, <1>24, <1>25, <1>26 DEF Derives
<1> QED
  BY <1>27 DEF D

\* At the last splice the text is the new one.
LEMMA HalfwayEnds ==
  ASSUME NEW old, NEW new, NEW splices, IsSeq(old), IsSeq(new), IsSeq(splices),
         ValidateSourceDelta(old, new, splices), Delta(old, new, splices),
         NEW text, IsSeq(text), NEW shift, Halfway(old, new, splices, Len(splices), text, shift)
  PROVE  text = new
<1> DEFINE n == Len(splices)
<1>0. Len(old) \in Nat /\ Len(new) \in Nat /\ n \in Nat
  BY SeqParts
<1>1. OldEnd(splices, n) \in 0..Len(old) /\ NewEnd(splices, n) \in 0..Len(new)
  <2>1. CASE n = 0
    BY <1>0, <2>1 DEF OldEnd, NewEnd
  <2>2. CASE n # 0
    <3>1. DOMAIN splices = 1..n
      BY SeqParts
    <3>2. n \in 1..n
      BY <1>0, <2>2
    <3>3. splices[n].oe \in 0..Len(old) /\ splices[n].ne \in 0..Len(new)
      <4> HIDE DEF n
      <4> QED
        BY <3>1, <3>2 DEF ValidateSourceDelta
    <3> HIDE DEF n
    <3> QED
      BY <2>2, <3>3 DEF OldEnd, NewEnd
  <2> QED
    BY <2>1, <2>2
<1>2. PICK b \in Nat : b = OldEnd(splices, n)
  BY <1>0, <1>1
<1>3. PICK d \in Nat : d = NewEnd(splices, n)
  BY <1>0, <1>1
<1>4. PICK N \in Nat : N = Len(old)
  BY <1>0
<1>5. PICK M \in Nat : M = Len(new)
  BY <1>0
<1>6. b <= N /\ d <= M
  BY <1>0, <1>1, <1>2, <1>3, <1>4, <1>5
<1>7. M - d = N - b /\ \A j \in 1..(N - b) : new[d + j] = old[b + j]
  <2>1. n \in 0..n /\ n + 1 > n
    BY <1>0
  <2>2. /\ NewStart(splices, n + 1, new) - NewEnd(splices, n)
             = OldStart(splices, n + 1, old) - OldEnd(splices, n)
        /\ \A j \in 1..(OldStart(splices, n + 1, old) - OldEnd(splices, n)) :
             new[NewEnd(splices, n) + j] = old[OldEnd(splices, n) + j]
    BY <2>1 DEF Delta
  <2>3. NewStart(splices, n + 1, new) = M /\ OldStart(splices, n + 1, old) = N
    BY <1>4, <1>5, <2>1 DEF NewStart, OldStart
  <2> HIDE DEF n
  <2> QED
    BY <1>2, <1>3, <2>2, <2>3, Zenon
<1>8. /\ Len(text) = N + d - b /\ (\A j \in 1..d : text[j] = new[j])
      /\ \A j \in 1..(N - b) : text[d + j] = old[b + j]
  <2> HIDE DEF n
  <2>1. Halfway(old, new, splices, n, text, shift)
    BY DEF n
  <2> QED
    BY <1>2, <1>3, <1>4, <2>1, Zenon DEF Halfway
<1>9. Len(text) = M
  <2>1. M - d = N - b /\ Len(text) = N + d - b
    BY <1>7, <1>8
  <2> QED
    BY <1>6, <2>1
<1>10. ASSUME NEW j \in 1..M PROVE text[j] = new[j]
  <2>1. CASE j <= d
    <3>1. j \in 1..d
      BY <2>1
    <3> QED
      BY <1>8, <3>1
  <2>2. CASE j > d
    <3>0. M - d = N - b
      BY <1>7
    <3>1. j - d \in 1..(N - b) /\ d + (j - d) = j
      BY <1>6, <2>2, <3>0
    <3>2. text[d + (j - d)] = old[b + (j - d)] /\ new[d + (j - d)] = old[b + (j - d)]
      BY <1>7, <1>8, <3>1
    <3> QED
      BY <3>1, <3>2
  <2> QED
    BY <2>1, <2>2
<1>11. Len(text) = Len(new) /\ \A j \in 1..Len(text) : text[j] = new[j]
  BY <1>5, <1>9, <1>10
<1> QED
  BY <1>11, SeqSame

\* Nothing has been replaced yet.
LEMMA HalfwayStarts ==
  ASSUME NEW old, NEW new, NEW splices, IsSeq(old)
  PROVE  Halfway(old, new, splices, 0, old, 0) /\ OldEnd(splices, 0) = 0
<1>1. OldEnd(splices, 0) = 0 /\ NewEnd(splices, 0) = 0
  BY DEF OldEnd, NewEnd
<1>2. Len(old) \in Nat
  BY SeqParts
<1> QED
  BY <1>1, <1>2 DEF Halfway

\* The splices of a revision, one after the other.
LEMMA Deriving ==
  ASSUME NEW doc, DocumentOK(doc), NEW source, IsSeq(source), NEW splices, IsSeq(splices),
         ValidateSourceDelta(doc.text, source, splices), NEW structure, structure = doc.structure,
         NEW d0, d0 = [ok |-> TRUE, sound |-> TRUE, doc |-> doc, patch |-> NewPatch(structure), shift |-> 0],
         NEW es, es = [k \in DOMAIN splices |-> [splice |-> splices[k], source |-> source]]
  PROVE  /\ Derivation!After(d0, es) = Derivation!States(d0, es)[Len(splices)]
         /\ \A n \in 0..Len(splices) :
              LET d == Derivation!States(d0, es)[n] IN d.ok => Derives(doc, source, splices, n, d)
<1> DEFINE A == Derivation!States(d0, es)
           N == Len(splices)
           S == {n \in Nat : n <= N => (A[n].ok => Derives(doc, source, splices, n, A[n]))}
<1>0. N \in Nat /\ DOMAIN splices = 1..N
  BY SeqParts
<1>1. Len(es) = N /\ \A n \in 1..N : es[n].splice = splices[n] /\ es[n].source = source
  BY <1>0
<1>2. A[0] = d0 /\ \A n \in 1..N : A[n] = DeriveSplice(A[n - 1], es[n])
  <2>1. Len(es) \in Nat
    BY <1>0, <1>1
  <2>2. A[0] = d0 /\ \A n \in 1..Len(es) : A[n] = DeriveSplice(A[n - 1], es[n])
    BY <2>1, Derivation!Iterates
  <2> QED
    BY <1>1, <2>2
<1> HIDE DEF A
<1>3. 0 \in S
  <2>1. d0.doc = doc /\ d0.patch = NewPatch(structure) /\ d0.shift = 0
    OBVIOUS
  <2>2. Ided(doc.lexical, doc.next) /\ IsSeq(doc.text) /\ Len(doc.text) \in Nat /\ doc.next \in Nat
    BY SeqParts DEF DocumentOK, Covers, Ided
  <2>3. Follows(doc.lexical, doc.lexical, doc.next) /\ Collects(doc.lexical, doc.lexical, doc.next, NewPatch(structure))
    BY <2>2, FollowsItself, NothingCollected
  <2>4. Halfway(doc.text, source, splices, 0, doc.text, 0) /\ OldEnd(splices, 0) = 0
    BY <2>2, HalfwayStarts
  <2>5. /\ Traces(doc.semantic, doc.semantic, NewPatch(structure), NewPatch(structure).at)
        /\ NewPatch(structure).old = doc.structure
    BY DEF Traces, NewPatch
  <2>6. Derives(doc, source, splices, 0, d0)
    BY <2>1, <2>2, <2>3, <2>4, <2>5 DEF Derives
  <2> QED
    BY <1>2, <2>6
<1>4. ASSUME NEW n \in Nat, n \in S PROVE n + 1 \in S
  <2> SUFFICES ASSUME n + 1 <= N, A[n + 1].ok
               PROVE  Derives(doc, source, splices, n + 1, A[n + 1])
    OBVIOUS
  <2>1. n + 1 \in 1..N /\ (n + 1) - 1 = n /\ n <= N
    BY <1>0
  <2>2. A[n + 1] = DeriveSplice(A[n], es[n + 1])
    BY <1>2, <2>1
  <2>3. A[n].ok
    <3>1. CASE ~A[n].ok
      <4>1. A[n + 1] = A[n]
        BY <2>2, <3>1 DEF DeriveSplice
      <4> QED
        BY <3>1, <4>1
    <3> QED
      BY <3>1
  <2>4. Derives(doc, source, splices, n, A[n])
    BY <1>4, <2>1, <2>3
  <2>5. Derives(doc, source, splices, (n + 1) - 1, A[n])
    BY <2>1, <2>4
  <2>6. es[n + 1].splice = splices[n + 1] /\ es[n + 1].source = source
    BY <1>1, <2>1
  <2>7. DeriveSplice(A[n], es[n + 1]).ok
    BY <2>2
  <2> DEFINE i == n + 1
             d == A[n]
             e == es[n + 1]
  <2>8. i \in 1..Len(splices) /\ e.splice = splices[i] /\ e.source = source /\ d.ok
        /\ Derives(doc, source, splices, i - 1, d) /\ DeriveSplice(d, e).ok
    BY <2>1, <2>3, <2>5, <2>6, <2>7
  <2> HIDE DEF i, d, e
  <2>9. Derives(doc, source, splices, i, DeriveSplice(d, e))
    BY <2>8, DerivingStep
  <2> QED
    BY <2>2, <2>9 DEF i, d, e
<1>5. \A n \in Nat : n \in S
  <2> HIDE DEF S
  <2> QED
    BY <1>3, <1>4, Refs!SetInduction
<1>6. Derivation!After(d0, es) = A[N]
  BY <1>1 DEF Derivation!After, A
<1>7. \A n \in 0..N : A[n].ok => Derives(doc, source, splices, n, A[n])
  BY <1>0, <1>5
<1> QED
  BY <1>6, <1>7 DEF A

\* The document a revision of it is derived from, and the splices.
Previous(latest, u, revision) ==
  IF revision.previous = Absent THEN EmptyDocument(revision.document) ELSE latest[u]

SplicesOf(revision) ==
  IF revision.previous = Absent
  THEN <<[os |-> 0, oe |-> 0, ns |-> 0, ne |-> Len(revision.text)]>>
  ELSE revision.splices

\* A derived document, and that its patch says what happened to its tape.
Derived(latest, u, revision, r) ==
  LET doc == Previous(latest, u, revision)
  IN /\ revision.previous # Absent => /\ u \in DOMAIN latest /\ latest[u].id = revision.document
                                      /\ latest[u].source = revision.previous
     /\ DocumentOK(r.doc) /\ r.doc.id = revision.document /\ r.doc.source = revision.id
     /\ Follows(doc.lexical, r.doc.lexical, doc.next)
     /\ Patches(doc.lexical, r.doc.lexical, r.patch)
     /\ r.doc.semantics = doc.semantics \/ r.doc.semantics = doc.semantics + 1
     /\ r.doc.semantics = doc.semantics + 1 \/ Semantic(doc.lexical) = Semantic(r.doc.lexical)
     /\ Delta(doc.text, revision.text, SplicesOf(revision)) => r.doc.text = revision.text
     /\ \E at : Traces(doc.semantic, r.doc.semantic, r.patch, at)
     /\ r.patch.splices = <<>> => r.doc.semantics = doc.semantics

\* derive_document gives such a document.
LEMMA DerivingDocument ==
  ASSUME NEW latest, NEW u, NEW revision, IsSeq(revision.text),
         revision.previous # Absent => IsSeq(revision.splices) /\ (u \in DOMAIN latest => DocumentOK(latest[u])),
         DeriveDocument(latest, u, revision).outcome = "ok"
  PROVE  Derived(latest, u, revision, DeriveDocument(latest, u, revision))
<1> DEFINE fresh    == revision.previous = Absent
           stale    == ~fresh /\ (\/ u \notin DOMAIN latest
                                  \/ latest[u].id # revision.document
                                  \/ latest[u].source # revision.previous)
           doc      == Previous(latest, u, revision)
           splices  == SplicesOf(revision)
           d0 == [ok |-> TRUE, sound |-> TRUE, doc |-> doc, patch |-> NewPatch(doc.structure), shift |-> 0]
           es == [k \in DOMAIN splices |-> [splice |-> splices[k], source |-> revision.text]]
           d  == Derivation!After(d0, es)
           patch == Freeze(d.patch, d.doc.structure)
           R == DeriveDocument(latest, u, revision)
<1>1. R = IF stale THEN [outcome |-> "stale"]
          ELSE IF ~ValidateSourceDelta(doc.text, revision.text, splices) THEN [outcome |-> "failed"]
          ELSE IF d.ok THEN [outcome |-> "ok", patch |-> patch, sound |-> d.sound,
                             doc |-> Finished(d.doc, revision, patch)]
          ELSE [outcome |-> "failed"]
  BY DEF DeriveDocument, Previous, SplicesOf
<1>2. R.outcome = "ok"
  OBVIOUS
<1> HIDE DEF R, d, patch
<1>3. /\ ~stale /\ ValidateSourceDelta(doc.text, revision.text, splices) /\ d.ok
      /\ R.patch = patch /\ R.doc = Finished(d.doc, revision, patch)
  <2> HIDE DEF stale, doc, splices
  <2>1. CASE stale
    BY <1>1, <1>2, <2>1
  <2>2. CASE ~ValidateSourceDelta(doc.text, revision.text, splices)
    BY <1>1, <1>2, <2>1, <2>2
  <2>3. CASE ~d.ok
    BY <1>1, <1>2, <2>1, <2>2, <2>3
  <2> QED
    BY <1>1, <2>1, <2>2, <2>3
<1>4. revision.previous # Absent => /\ u \in DOMAIN latest /\ latest[u].id = revision.document
                                    /\ latest[u].source = revision.previous
  BY <1>3
<1>5. IsSeq(splices)
  <2>1. CASE fresh
    <3>1. splices = <<[os |-> 0, oe |-> 0, ns |-> 0, ne |-> Len(revision.text)]>>
      BY <2>1 DEF SplicesOf
    <3>2. \A x : IsSeq(<<x>>)
      BY DEF IsSeq, Range
    <3> QED
      BY <3>1, <3>2
  <2>2. CASE ~fresh
    BY <2>2 DEF SplicesOf
  <2> QED
    BY <2>1, <2>2
<1>6. DocumentOK(doc) /\ doc.id = revision.document
  <2>1. CASE fresh
    <3>1. doc = EmptyDocument(revision.document)
      BY <2>1 DEF Previous
    <3> HIDE DEF doc
    <3> QED
      BY <3>1, EmptyOK DEF EmptyDocument
  <2>2. CASE ~fresh
    BY <1>4, <2>2 DEF Previous
  <2> QED
    BY <2>1, <2>2
<1> HIDE DEF doc, splices, d0, es, stale
<1>7. Derives(doc, revision.text, splices, Len(splices), d)
  <2> DEFINE structure == doc.structure
             source == revision.text
  <2>1. /\ d0 = [ok |-> TRUE, sound |-> TRUE, doc |-> doc, patch |-> NewPatch(structure), shift |-> 0]
        /\ structure = doc.structure
    BY DEF d0
  <2>2. es = [k \in DOMAIN splices |-> [splice |-> splices[k], source |-> source]]
    BY DEF es
  <2>3. Derivation!After(d0, es).ok /\ IsSeq(source) /\ ValidateSourceDelta(doc.text, source, splices)
    BY <1>3 DEF d
  <2> HIDE DEF structure, source
  <2>4. /\ Derivation!After(d0, es) = Derivation!States(d0, es)[Len(splices)]
        /\ \A n \in 0..Len(splices) :
             Derivation!States(d0, es)[n].ok => Derives(doc, source, splices, n, Derivation!States(d0, es)[n])
    BY <1>5, <1>6, <2>1, <2>2, <2>3, Deriving
  <2>5. Len(splices) \in 0..Len(splices)
    BY <1>5, SeqParts
  <2>6. Derives(doc, source, splices, Len(splices), Derivation!After(d0, es))
    BY <2>3, <2>4, <2>5
  <2> QED
    BY <2>6 DEF d, source
<1>8. Follows(doc.lexical, d.doc.lexical, doc.next) /\ DocumentOK(d.doc) /\ d.doc.id = doc.id
      /\ d.doc.semantics = doc.semantics
  BY <1>7 DEF Derives
<1>9. Patches(doc.lexical, d.doc.lexical, patch)
  <2>1. Collects(doc.lexical, d.doc.lexical, d.doc.next, d.patch)
    BY <1>7 DEF Derives
  <2> QED
    BY <1>8, <2>1, Freezing DEF patch
<1>10. /\ R.doc.id = d.doc.id /\ R.doc.source = revision.id /\ R.doc.text = d.doc.text
       /\ R.doc.next = d.doc.next /\ R.doc.lexical = d.doc.lexical /\ R.doc.semantic = d.doc.semantic
       /\ R.doc.semantics = IF StructureUnchanged(patch) THEN d.doc.semantics ELSE d.doc.semantics + 1
  BY <1>3 DEF Finished
<1>11. StructureUnchanged(patch) => Semantic(doc.lexical) = Semantic(d.doc.lexical)
  BY <1>9 DEF StructureUnchanged, Patches
<1>12. Delta(doc.text, revision.text, splices) => d.doc.text = revision.text
  <2> SUFFICES ASSUME Delta(doc.text, revision.text, splices) PROVE d.doc.text = revision.text
    OBVIOUS
  <2> DEFINE old == doc.text
             new == revision.text
             text == d.doc.text
             shift == d.shift
  <2>1. /\ IsSeq(old) /\ IsSeq(new) /\ IsSeq(text) /\ ValidateSourceDelta(old, new, splices)
        /\ Delta(old, new, splices) /\ Halfway(old, new, splices, Len(splices), text, shift)
    BY <1>3, <1>6, <1>7, <1>8 DEF Derives, DocumentOK, Covers
  <2> HIDE DEF old, new, text, shift
  <2>2. text = new
    BY <1>5, <2>1, HalfwayEnds
  <2> QED
    BY <2>2 DEF text, new
<1>13. DocumentOK(R.doc)
  BY <1>8, <1>10 DEF DocumentOK
<1>14. \E at : Traces(doc.semantic, R.doc.semantic, patch, at)
  <2>1. Traces(doc.semantic, d.doc.semantic, d.patch, d.patch.at)
    BY <1>7 DEF Derives
  <2>2. patch.splices = d.patch.splices /\ patch.ordered = d.patch.ordered
    BY DEF patch, Freeze
  <2>3. Traces(doc.semantic, d.doc.semantic, patch, d.patch.at)
    BY <2>1, <2>2 DEF Traces
  <2> QED
    BY <1>10, <2>3
<1>15. patch.splices = <<>> => R.doc.semantics = doc.semantics
  <2> SUFFICES ASSUME patch.splices = <<>> PROVE StructureUnchanged(patch)
    BY <1>8, <1>10
  <2>1. patch.splices = d.patch.splices /\ patch.old = d.patch.old /\ patch.new = d.doc.structure
    BY DEF patch, Freeze
  <2>2. patch.old = patch.new
    BY <1>7, <2>1 DEF Derives
  <2>3. Semantic(doc.lexical) = Semantic(d.doc.lexical)
    BY <1>9 DEF Patches
  <2>4. SemanticIds(doc.lexical) = SemanticIds(d.doc.lexical)
    BY <1>8, <1>6, <2>3, SemanticOccurrences DEF DocumentOK, Ided
  <2>5. patch.inserted = {} /\ patch.removed = {}
    BY <1>9, <2>4 DEF Patches
  <2> QED
    BY <2>2, <2>5 DEF StructureUnchanged
<1>16. Derived(latest, u, revision, R)
  BY <1>3, <1>4, <1>6, <1>8, <1>9, <1>10, <1>11, <1>12, <1>13, <1>14, <1>15 DEF Derived, doc, splices
<1> QED
  BY <1>16 DEF R

\* A splice that replaces the whole text.
LEMMA WholeDelta ==
  ASSUME NEW old, NEW new, IsSeq(old), IsSeq(new), NEW m, m = Len(old)
  PROVE  Delta(old, new, <<[os |-> 0, oe |-> m, ns |-> 0, ne |-> Len(new)]>>)
<1> DEFINE s == [os |-> 0, oe |-> m, ns |-> 0, ne |-> Len(new)]
           splices == <<s>>
<1>0. Len(old) \in Nat /\ Len(new) \in Nat
  BY SeqParts
<1>1. Len(splices) = 1 /\ splices[1] = s
  <2> HIDE DEF s
  <2> QED
    OBVIOUS
<1>2. s.os = 0 /\ s.oe = Len(old) /\ s.ns = 0 /\ s.ne = Len(new)
  OBVIOUS
<1> HIDE DEF splices, s
<1>3. /\ OldEnd(splices, 0) = 0 /\ NewEnd(splices, 0) = 0
      /\ OldStart(splices, 0 + 1, old) = 0 /\ NewStart(splices, 0 + 1, new) = 0
  BY <1>1, <1>2 DEF OldEnd, NewEnd, OldStart, NewStart
<1>4. /\ OldEnd(splices, 1) = Len(old) /\ NewEnd(splices, 1) = Len(new)
      /\ OldStart(splices, 1 + 1, old) = Len(old) /\ NewStart(splices, 1 + 1, new) = Len(new)
  BY <1>1, <1>2 DEF OldEnd, NewEnd, OldStart, NewStart
<1>5. ASSUME NEW k \in 0..Len(splices)
      PROVE  /\ NewStart(splices, k + 1, new) - NewEnd(splices, k)
                  = OldStart(splices, k + 1, old) - OldEnd(splices, k)
             /\ \A j \in 1..(OldStart(splices, k + 1, old) - OldEnd(splices, k)) :
                  new[NewEnd(splices, k) + j] = old[OldEnd(splices, k) + j]
  <2>1. k = 0 \/ k = 1
    BY <1>1
  <2>2. CASE k = 0
    BY <1>0, <1>3, <2>2
  <2>3. CASE k = 1
    BY <1>0, <1>4, <2>3
  <2> QED
    BY <2>1, <2>2, <2>3
<1>6. Delta(old, new, splices)
  BY <1>5 DEF Delta
<1> QED
  BY <1>6 DEF splices, s
=============================================================================
