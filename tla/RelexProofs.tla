----------------------------- MODULE RelexProofs -----------------------------
(***************************************************************************)
(* Relexing is exact: a replay that starts between tokens the new text has  *)
(* too, and stops where it meets the old tape in the same lexer state, puts *)
(* into the tape what a lex of the whole new text would.                    *)
(*                                                                          *)
(* The proof sets three scans next to each other: the lex O of the old text *)
(* from scratch, the lex F of the new one and the replay P.  F passes the   *)
(* restart of P in its state; from there P and F make the same turns, up to *)
(* the error of an unclosed scope at the end of a window (Tracking).  Where *)
(* P hands over to the tape, F is in the state in which O was there, in a   *)
(* text that is equal from there on, and makes the turns of O (Lockstep).   *)
(***************************************************************************)
EXTENDS LexPipelineProofs

-----------------------------------------------------------------------------
(* Equal text at two places *)

\* Behind from, text a is text b moved by d.
Aligned(a, b, from, d) ==
  /\ IsSeq(a) /\ IsSeq(b) /\ d \in Int
  /\ Len(b) = Len(a) + d
  /\ from \in 0..Len(a) /\ 0 <= from + d
  /\ \A k \in (from + 1)..Len(a) : b[k + d] = a[k]

\* The lexemes of aligned texts are equal.
LEMMA LexemeAligned ==
  ASSUME NEW a, NEW b, NEW from, NEW d, Aligned(a, b, from, d),
         NEW m \in from..Len(a), NEW n \in m..Len(a)
  PROVE  /\ Lexeme(b, m + d, n + d) = Lexeme(a, m, n)
         /\ m + d \in 0..Len(b) /\ n + d \in (m + d)..Len(b)
<1>1. /\ IsSeq(a) /\ IsSeq(b) /\ d \in Int /\ from \in Nat /\ 0 <= from + d
      /\ Len(b) = Len(a) + d /\ Len(a) \in Nat /\ Len(b) \in Nat
  BY SeqParts DEF Aligned
<1>2. m \in 0..Len(a) /\ n \in m..Len(a) /\ m + d \in 0..Len(b) /\ n + d \in (m + d)..Len(b)
  BY <1>1
<1> DEFINE p == SubSeq(a, m + 1, n)
           q == SubSeq(b, (m + d) + 1, n + d)
<1>3. IsSeq(p) /\ Len(p) = n - m /\ \A k \in 1..(n - m) : p[k] = a[m + k]
  BY <1>1, <1>2, SeqSub
<1>4. IsSeq(q) /\ Len(q) = (n + d) - (m + d)
      /\ \A k \in 1..((n + d) - (m + d)) : q[k] = b[(m + d) + k]
  BY <1>1, <1>2, SeqSub
<1>5. (n + d) - (m + d) = n - m
  BY <1>1, <1>2
<1>6. ASSUME NEW k \in 1..(n - m) PROVE p[k] = q[k]
  <2>1. m + k \in (from + 1)..Len(a) /\ (m + d) + k = (m + k) + d
    BY <1>1, <1>2
  <2>2. b[(m + k) + d] = a[m + k]
    BY <2>1 DEF Aligned
  <2> QED
    BY <1>3, <1>4, <1>5, <2>1, <2>2
<1>7. p = q
  <2> HIDE DEF p, q
  <2> QED
    BY <1>3, <1>4, <1>5, <1>6, SeqSame
<1> QED
  BY <1>2, <1>7 DEF Lexeme

\* A rule matches in aligned texts at aligned places.
LEMMA MatchesAligned ==
  ASSUME NEW a, NEW b, NEW from, NEW d, Aligned(a, b, from, d), NEW at \in from..Len(a),
         NEW rule, NEW stack
  PROVE  /\ MatchEnds(rule, stack, a, at) \subseteq at..Len(a)
         /\ MatchEnds(rule, stack, b, at + d) \subseteq (at + d)..Len(b)
         /\ \A e \in Int : e + d \in MatchEnds(rule, stack, b, at + d) <=> e \in MatchEnds(rule, stack, a, at)
<1>1. /\ d \in Int /\ from \in Nat /\ Len(b) = Len(a) + d /\ Len(a) \in Nat /\ at \in Int
  BY SeqParts DEF Aligned
<1>2. Lexeme(b, at + d, Len(a) + d) = Lexeme(a, at, Len(a))
  <2>1. Len(a) \in at..Len(a)
    BY <1>1
  <2> QED
    BY <2>1, LexemeAligned
<1>3. Lexeme(b, at + d, Len(b)) = Lexeme(a, at, Len(a))
  BY <1>1, <1>2
<1>4. ASSUME NEW e \in Int
      PROVE  e + d \in MatchEnds(rule, stack, b, at + d) <=> e \in MatchEnds(rule, stack, a, at)
  <2>1. (e + d) - (at + d) = e - at
    BY <1>1
  <2>2. e + d \in (at + d)..Len(b) <=> e \in at..Len(a)
    BY <1>1
  <2> QED
    BY <1>3, <2>1, <2>2 DEF MatchEnds
<1> QED
  BY <1>4 DEF MatchEnds

\* What recovers in one text recovers in the other.
LEMMA RecoverAligned ==
  ASSUME NEW a, NEW b, NEW from, NEW d, Aligned(a, b, from, d), NEW end \in from..Len(a),
         NEW rule, NEW stack
  PROVE  Recover(end + d, [rule |-> rule, stack |-> stack, text |-> b])
           = Recover(end, [rule |-> rule, stack |-> stack, text |-> a]) + d
<1> DEFINE chars == RecoverChars(rule, Lexeme(a, end, Len(a)), Top(stack).slots)
           ra == IF chars \in 0..(Len(a) - end) THEN end + chars ELSE Len(a)
           charsB == RecoverChars(rule, Lexeme(b, end + d, Len(b)), Top(stack).slots)
           rb == IF charsB \in 0..(Len(b) - (end + d)) THEN (end + d) + charsB ELSE Len(b)
           A == MatchEnds(rule, stack, a, ra)
           B == MatchEnds(rule, stack, b, rb)
<1>1. /\ d \in Int /\ from \in Nat /\ Len(b) = Len(a) + d /\ Len(a) \in Nat /\ end \in Int
  BY SeqParts DEF Aligned
<1>2. charsB = chars
  <2>0. Len(a) \in end..Len(a)
    BY <1>1
  <2>1. Lexeme(b, end + d, Len(a) + d) = Lexeme(a, end, Len(a))
    BY <2>0, LexemeAligned
  <2> QED
    BY <1>1, <2>1
<1>3. ra \in end..Len(a)
  BY <1>1
<1>4. rb = ra + d
  <2> HIDE DEF chars, charsB
  <2>1. Len(b) - (end + d) = Len(a) - end
    BY <1>1
  <2> QED
    BY <1>1, <1>2, <2>1
<1>5. /\ A \subseteq ra..Len(a) /\ B \subseteq rb..Len(b)
      /\ \A e \in Int : e + d \in B <=> e \in A
  <2>1. ra \in from..Len(a)
    BY <1>1, <1>3
  <2> HIDE DEF ra, rb
  <2> QED
    BY <1>4, <2>1, MatchesAligned
<1>6. /\ Recover(end, [rule |-> rule, stack |-> stack, text |-> a]) =
           IF ra = end \/ \A e \in A : e <= ra THEN end ELSE CHOOSE e \in A : \A f \in A : f <= e
      /\ Recover(end + d, [rule |-> rule, stack |-> stack, text |-> b]) =
           IF rb = end + d \/ \A e \in B : e <= rb THEN end + d ELSE CHOOSE e \in B : \A f \in B : f <= e
  BY DEF Recover
<1> HIDE DEF ra, rb, A, B
<1>7. (rb = end + d \/ \A e \in B : e <= rb) <=> (ra = end \/ \A e \in A : e <= ra)
  <2>1. ASSUME \A e \in A : e <= ra, NEW e \in B PROVE e <= rb
    <3>1. e \in Int /\ e - d \in Int /\ (e - d) + d = e
      BY <1>1, <1>3, <1>4, <1>5
    <3>2. e - d \in A
      BY <1>5, <3>1
    <3> QED
      BY <1>1, <1>3, <1>4, <2>1, <3>1, <3>2
  <2>2. ASSUME \A e \in B : e <= rb, NEW e \in A PROVE e <= ra
    <3>1. e \in Int /\ e + d \in B
      BY <1>1, <1>3, <1>5
    <3> QED
      BY <1>1, <1>3, <1>4, <2>2, <3>1
  <2>3. rb = end + d <=> ra = end
    BY <1>1, <1>3, <1>4
  <2> QED
    BY <2>1, <2>2, <2>3
<1>8. ASSUME A # {}
      PROVE  (CHOOSE e \in B : \A f \in B : f <= e) = (CHOOSE e \in A : \A f \in A : f <= e) + d
  <2>1. \E x \in A : \A y \in A : y <= x
    <3>1. ra \in Int /\ Len(a) \in Int /\ A \in SUBSET (ra..Len(a))
      BY <1>1, <1>3, <1>5
    <3> QED
      BY <1>8, <3>1, IntGreatest
  <2> DEFINE x == CHOOSE e \in A : \A f \in A : f <= e
  <2>2. x \in A /\ (\A y \in A : y <= x) /\ x \in Int
    <3>1. x \in A /\ \A y \in A : y <= x
      BY <2>1
    <3> HIDE DEF x
    <3>2. x \in ra..Len(a)
      BY <3>1, <1>5
    <3> QED
      BY <3>1, <3>2, <1>1, <1>3
  <2> HIDE DEF x
  <2>3. x + d \in B
    BY <1>5, <2>2
  <2>4. ASSUME NEW f \in B PROVE f <= x + d
    <3>1. f \in Int /\ f - d \in Int /\ (f - d) + d = f
      BY <1>1, <1>3, <1>4, <1>5
    <3>2. f - d \in A
      BY <1>5, <3>1
    <3> QED
      BY <1>1, <2>2, <3>1, <3>2
  <2>5. ASSUME NEW y \in B, \A f \in B : f <= y PROVE y = x + d
    <3>1. y <= x + d /\ x + d <= y
      BY <2>3, <2>4, <2>5
    <3>2. y \in Int
      BY <1>1, <1>3, <1>4, <1>5
    <3> QED
      BY <1>1, <2>2, <3>1, <3>2
  <2>6. (CHOOSE e \in B : \A f \in B : f <= e) = x + d
    BY <2>3, <2>4, <2>5
  <2> QED
    BY <2>6 DEF x
<1>9. A = {} => \A e \in A : e <= ra
  OBVIOUS
<1> QED
  BY <1>6, <1>7, <1>8, <1>9

\* The recoveries R from an end are over after as many as there are bytes behind it.
SettledAt(R, m, end, len) ==
  /\ \A n \in 0..len : R[n] \in end..len
  /\ \A n \in 1..len : R[n] = Recover(R[n - 1], m)
  /\ R[0] = end
  /\ \A n \in (len - end)..len : R[n] = R[len - end]

\* A recovery that is not over moves the end on.
LEMMA RecoverSettles ==
  ASSUME NEW rule, NEW stack, NEW text, Len(text) \in Nat, NEW end \in 0..Len(text)
  PROVE  SettledAt(Recoveries!States(end, [k \in 1..Len(text) |->
                                           [rule |-> rule, stack |-> stack, text |-> text]]),
                 [rule |-> rule, stack |-> stack, text |-> text], end, Len(text))
<1> DEFINE m == [rule |-> rule, stack |-> stack, text |-> text]
           es == [k \in 1..Len(text) |-> m]
           R == Recoveries!States(end, es)
<1>1. Len(es) = Len(text) /\ \A k \in 1..Len(text) : es[k] = m
  OBVIOUS
<1>2. R[0] = end /\ \A n \in 1..Len(text) : R[n] = Recover(R[n - 1], m)
  <2>1. R[0] = end /\ \A n \in 1..Len(es) : R[n] = Recover(R[n - 1], es[n])
    <3> HIDE DEF es
    <3> QED
      BY <1>1, Recoveries!Iterates
  <2> QED
    BY <1>1, <2>1
<1> HIDE DEF R, es
<1>3. ASSUME NEW x \in 0..Len(text)
      PROVE  Recover(x, m) \in x..Len(text)
  <2>1. m.text = text
    OBVIOUS
  <2> HIDE DEF m
  <2> QED
    BY <2>1, RecoverEnds
<1> HIDE DEF m
<1> DEFINE S == {n \in Nat : n <= Len(text) =>
                    /\ R[n] \in end..Len(text)
                    /\ Recover(R[n], m) = R[n] \/ R[n] >= end + n}
<1>4. 0 \in S
  BY <1>2
<1>5. ASSUME NEW n \in Nat, n \in S PROVE n + 1 \in S
  <2> SUFFICES ASSUME n + 1 <= Len(text)
               PROVE  /\ R[n + 1] \in end..Len(text)
                      /\ Recover(R[n + 1], m) = R[n + 1] \/ R[n + 1] >= end + (n + 1)
    OBVIOUS
  <2>1. n + 1 \in 1..Len(text) /\ (n + 1) - 1 = n
    OBVIOUS
  <2>2. R[n] \in end..Len(text) /\ (Recover(R[n], m) = R[n] \/ R[n] >= end + n)
    BY <1>5, <2>1
  <2>3. R[n + 1] = Recover(R[n], m)
    BY <1>2, <2>1
  <2>4. R[n + 1] \in R[n]..Len(text)
    BY <1>3, <2>2, <2>3
  <2>5. CASE Recover(R[n], m) = R[n]
    BY <2>2, <2>3, <2>5
  <2>6. CASE R[n] >= end + n /\ R[n + 1] # R[n]
    BY <2>2, <2>4, <2>6
  <2> QED
    BY <2>2, <2>3, <2>4, <2>5, <2>6
<1>6. \A n \in Nat : n \in S
  <2> HIDE DEF S
  <2> QED
    BY <1>4, <1>5, Recoveries!SetInduction
<1> DEFINE q == Len(text) - end
<1>7. q \in 0..Len(text)
  OBVIOUS
<1>8. Recover(R[q], m) = R[q] /\ R[q] \in end..Len(text)
  <2>1. R[q] \in end..Len(text) /\ (Recover(R[q], m) = R[q] \/ R[q] >= end + q)
    BY <1>6, <1>7
  <2>2. ASSUME R[q] >= end + q PROVE Recover(R[q], m) = R[q]
    <3>1. R[q] = Len(text)
      BY <1>7, <2>1, <2>2
    <3>2. Recover(Len(text), m) \in Len(text)..Len(text)
      BY <1>3
    <3> QED
      BY <3>1, <3>2
  <2> QED
    BY <2>1, <2>2
<1> DEFINE T == {n \in Nat : q + n <= Len(text) => R[q + n] = R[q]}
<1> HIDE DEF q
<1>9. 0 \in T
  BY <1>7
<1>10. ASSUME NEW n \in Nat, n \in T PROVE n + 1 \in T
  <2> SUFFICES ASSUME q + (n + 1) <= Len(text) PROVE R[q + (n + 1)] = R[q]
    OBVIOUS
  <2> DEFINE j == q + (n + 1)
  <2>1. j \in 1..Len(text) /\ j - 1 = q + n /\ q + n <= Len(text)
    BY <1>7
  <2>2. R[q + n] = R[q]
    BY <1>10, <2>1
  <2>3. R[j] = Recover(R[j - 1], m)
    <3> HIDE DEF j
    <3> QED
      BY <1>2, <2>1
  <2> QED
    BY <1>8, <2>1, <2>2, <2>3
<1>11. \A n \in Nat : n \in T
  <2> HIDE DEF T
  <2> QED
    BY <1>9, <1>10, Recoveries!SetInduction
<1>12. ASSUME NEW n \in q..Len(text) PROVE R[n] = R[q]
  <2>1. n - q \in Nat /\ q + (n - q) = n
    BY <1>7
  <2> QED
    BY <1>11, <2>1
<1>13. \A n \in 0..Len(text) : R[n] \in end..Len(text)
  BY <1>6
<1> QED
  <2>1. SettledAt(R, m, end, Len(text))
    BY <1>2, <1>12, <1>13 DEF q, SettledAt
  <2> QED
    BY <2>1 DEF R, es, m

\* A recovered match ends at aligned places.
LEMMA RecoveredAligned ==
  ASSUME NEW a, NEW b, NEW from, NEW d, Aligned(a, b, from, d), NEW end \in from..Len(a),
         NEW rule, NEW stack
  PROVE  RecoverMatchEnd(rule, stack, b, end + d) = RecoverMatchEnd(rule, stack, a, end) + d
<1>1. /\ d \in Int /\ from \in Nat /\ Len(b) = Len(a) + d /\ Len(a) \in Nat /\ Len(b) \in Nat /\ end \in Nat
      /\ 0 <= from + d
  BY SeqParts DEF Aligned
<1>2. end \in 0..Len(a) /\ end + d \in 0..Len(b)
  BY <1>1
<1> DEFINE ma == [rule |-> rule, stack |-> stack, text |-> a]
           mb == [rule |-> rule, stack |-> stack, text |-> b]
           A == Recoveries!States(end, [k \in 1..Len(a) |-> ma])
           B == Recoveries!States(end + d, [k \in 1..Len(b) |-> mb])
           q == Len(a) - end
<1>3. /\ \A n \in 0..Len(a) : A[n] \in end..Len(a)
      /\ \A n \in 1..Len(a) : A[n] = Recover(A[n - 1], ma)
      /\ A[0] = end /\ \A n \in q..Len(a) : A[n] = A[q]
  <2>1. SettledAt(A, ma, end, Len(a))
    BY <1>1, <1>2, RecoverSettles
  <2> HIDE DEF A, ma
  <2> QED
    BY <2>1 DEF SettledAt
<1>4. /\ \A n \in 1..Len(b) : B[n] = Recover(B[n - 1], mb)
      /\ B[0] = end + d /\ \A n \in (Len(b) - (end + d))..Len(b) : B[n] = B[Len(b) - (end + d)]
  <2>1. SettledAt(B, mb, end + d, Len(b))
    BY <1>1, <1>2, RecoverSettles
  <2> HIDE DEF B, mb
  <2> QED
    BY <2>1 DEF SettledAt
<1>5. Len(b) - (end + d) = q /\ q \in Nat /\ q <= Len(a) /\ q <= Len(b)
  BY <1>1, <1>2
<1>6. RecoverMatchEnd(rule, stack, a, end) = A[Len(a)] /\ RecoverMatchEnd(rule, stack, b, end + d) = B[Len(b)]
  <2>1. Len([k \in 1..Len(a) |-> ma]) = Len(a) /\ Len([k \in 1..Len(b) |-> mb]) = Len(b)
    BY <1>1
  <2> QED
    BY <2>1 DEF RecoverMatchEnd, Recoveries!After
<1> HIDE DEF A, B, q
<1> DEFINE S == {n \in Nat : n <= q => B[n] = A[n] + d}
<1>7. 0 \in S
  BY <1>3, <1>4
<1>8. ASSUME NEW n \in Nat, n \in S PROVE n + 1 \in S
  <2> SUFFICES ASSUME n + 1 <= q PROVE B[n + 1] = A[n + 1] + d
    OBVIOUS
  <2>1. n + 1 \in 1..Len(a) /\ n + 1 \in 1..Len(b) /\ (n + 1) - 1 = n /\ n \in 0..Len(a)
    BY <1>5
  <2>2. B[n] = A[n] + d /\ A[n] \in end..Len(a)
    <3>1. n <= q
      BY <1>5
    <3>2. B[n] = A[n] + d
      BY <1>8, <3>1
    <3> QED
      BY <1>3, <2>1, <3>2
  <2>3. A[n + 1] = Recover(A[n], ma) /\ B[n + 1] = Recover(A[n] + d, mb)
    BY <1>3, <1>4, <2>1, <2>2
  <2>4. A[n] \in from..Len(a)
    BY <1>1, <2>2
  <2> QED
    BY <2>3, <2>4, RecoverAligned
<1>9. \A n \in Nat : n \in S
  <2> HIDE DEF S
  <2> QED
    BY <1>7, <1>8, Recoveries!SetInduction
<1>10. B[q] = A[q] + d
  BY <1>5, <1>9
<1>11. A[Len(a)] = A[q] /\ B[Len(b)] = B[q]
  BY <1>1, <1>3, <1>4, <1>5
<1> QED
  BY <1>6, <1>10, <1>11

-----------------------------------------------------------------------------
(* Equal choices at two places *)

\* The candidate moved by d.
MovedBy(c, d) == [rule |-> c.rule, index |-> c.index, end |-> c.end + d]

\* Candidates of a list of rules that end behind an offset.
Candidates(C, rules, at, n) ==
  \A c \in C : c.index \in Nat /\ c.end \in at..n /\ c.rule = rules[c.index]

\* Moved candidates have the moved best one.
LEMMA BestAligned ==
  ASSUME NEW at \in Nat, NEW n \in Nat, NEW d \in Int, 0 <= at + d, NEW rules, NEW C,
         Candidates(C, rules, at, n), C # {}
  PROVE  LET D == {MovedBy(c, d) : c \in C}
         IN /\ Best(C) \in C
            /\ Best(D).rule = Best(C).rule /\ Best(D).end = Best(C).end + d
<1> DEFINE D == {MovedBy(c, d) : c \in C}
<1>1. \A c \in C : c.index \in Nat /\ c.end \in 0..n /\ c.end \in Nat /\ c.end >= at /\ c.rule = rules[c.index]
  BY DEF Candidates
<1>2. Best(C) \in C /\ \A c \in C : Beats(Best(C), c)
  BY <1>1, BestExists
<1>3. \A c : MovedBy(c, d).rule = c.rule /\ MovedBy(c, d).index = c.index /\ MovedBy(c, d).end = c.end + d
  BY DEF MovedBy
<1>4. D # {} /\ \A c \in C : MovedBy(c, d) \in D
  OBVIOUS
<1>5. \A y \in D : \E c \in C : y = MovedBy(c, d)
  OBVIOUS
<1> HIDE DEF D
<1>6. \A y \in D : y.index \in Nat /\ y.end \in 0..(n + d)
  <2>1. ASSUME NEW c \in C PROVE MovedBy(c, d).index \in Nat /\ MovedBy(c, d).end \in 0..(n + d)
    <3>1. c.end \in at..n /\ c.index \in Nat
      BY DEF Candidates
    <3>2. PICK e \in at..n : e = c.end
      BY <3>1
    <3>3. e + d \in 0..(n + d)
      OBVIOUS
    <3> QED
      BY <1>3, <3>1, <3>2, <3>3
  <2> QED
    BY <1>5, <2>1
<1>7. Best(D) \in D /\ \A y \in D : Beats(Best(D), y)
  <2>1. n + d \in Nat
    BY <1>2, <1>1
  <2> QED
    BY <2>1, <1>4, <1>6, BestExists
<1>8. PICK c \in C : Best(D) = MovedBy(c, d)
  BY <1>5, <1>7
<1> DEFINE x == Best(C)
<1>9. Beats(x, c) /\ x \in C
  BY <1>2
<1> HIDE DEF x
<1>10. Beats(MovedBy(c, d), MovedBy(x, d))
  BY <1>4, <1>7, <1>8, <1>9
<1>11. ActionRank(c.rule) \in Nat /\ ActionRank(x.rule) \in Nat
  BY DEF ActionRank
<1>12. x.end \in Nat /\ c.end \in Nat /\ x.index \in Nat /\ c.index \in Nat
  BY <1>1, <1>9
<1>13. Beats(c, x)
  <2>1. PICK i \in Nat : i = x.end
    BY <1>12
  <2>2. PICK j \in Nat : j = c.end
    BY <1>12
  <2>3. (j + d > i + d <=> j > i) /\ (j + d = i + d <=> j = i)
    OBVIOUS
  <2> QED
    BY <1>3, <1>10, <2>1, <2>2, <2>3 DEF Beats
<1>14. c.end = x.end /\ c.index = x.index
  BY <1>9, <1>11, <1>12, <1>13 DEF Beats
<1>15. c.rule = x.rule
  BY <1>1, <1>9, <1>14
<1> QED
  BY <1>3, <1>8, <1>9, <1>14, <1>15 DEF x, D

\* Two selections that find the same rule, at places that differ by d.
SameChoice(A, B, d) ==
  /\ B.kind = A.kind
  /\ A.kind = "match" => B.step.rule = A.step.rule /\ B.step.end = A.step.end + d

\* The choice from moved candidates.
LEMMA ChoiceAligned ==
  ASSUME NEW a, NEW b, NEW from, NEW d, Aligned(a, b, from, d),
         NEW s, s.offset \in from..Len(a), NEW t, t.offset = s.offset + d,
         NEW rules, NEW C, Candidates(C, rules, s.offset, Len(a)), NEW T \in SUBSET C
  PROVE  SameChoice(Choice(C, T, s, a), Choice({MovedBy(c, d) : c \in C}, {MovedBy(c, d) : c \in T}, t, b), d)
<1> DEFINE D == {MovedBy(c, d) : c \in C}
           U == {MovedBy(c, d) : c \in T}
           A == Choice(C, T, s, a)
           B == Choice(D, U, t, b)
<1>0. /\ d \in Int /\ from \in Nat /\ 0 <= from + d /\ Len(a) \in Nat /\ s.offset \in Nat
      /\ s.offset + d \in Nat
  BY SeqParts DEF Aligned
<1>1. \A c : MovedBy(c, d).rule = c.rule /\ MovedBy(c, d).end = c.end + d
  BY DEF MovedBy
<1>2. ASSUME NEW c \in C
      PROVE  Lexeme(b, t.offset, MovedBy(c, d).end) = Lexeme(a, s.offset, c.end)
  <2>1. c.end \in s.offset..Len(a)
    BY DEF Candidates
  <2>2. Lexeme(b, s.offset + d, c.end + d) = Lexeme(a, s.offset, c.end)
    BY <2>1, LexemeAligned
  <2> QED
    BY <1>1, <2>2
<1>3. (\E c \in D : ~Builds(c.rule, Lexeme(b, t.offset, c.end)))
        <=> (\E c \in C : ~Builds(c.rule, Lexeme(a, s.offset, c.end)))
  BY <1>1, <1>2
<1>4. U = {} <=> T = {}
  OBVIOUS
<1>5. ASSUME T # {} PROVE Best(U).rule = Best(T).rule /\ Best(U).end = Best(T).end + d
  <2>1. Candidates(T, rules, s.offset, Len(a))
    BY DEF Candidates
  <2> QED
    BY <1>0, <1>5, <2>1, BestAligned
<1>6. /\ A = IF \E c \in C : ~Builds(c.rule, Lexeme(a, s.offset, c.end)) THEN [kind |-> "fail"]
             ELSE IF T = {} THEN [kind |-> "none"] ELSE [kind |-> "match", step |-> Best(T)]
      /\ B = IF \E c \in D : ~Builds(c.rule, Lexeme(b, t.offset, c.end)) THEN [kind |-> "fail"]
             ELSE IF U = {} THEN [kind |-> "none"] ELSE [kind |-> "match", step |-> Best(U)]
  BY DEF Choice
<1> HIDE DEF D, U, A, B
<1>7. ASSUME \E c \in C : ~Builds(c.rule, Lexeme(a, s.offset, c.end)) PROVE SameChoice(A, B, d)
  BY <1>3, <1>6, <1>7 DEF SameChoice
<1>8. ASSUME T = {}, ~\E c \in C : ~Builds(c.rule, Lexeme(a, s.offset, c.end)) PROVE SameChoice(A, B, d)
  BY <1>3, <1>4, <1>6, <1>8 DEF SameChoice
<1>9. ASSUME T # {}, ~\E c \in C : ~Builds(c.rule, Lexeme(a, s.offset, c.end)) PROVE SameChoice(A, B, d)
  BY <1>3, <1>4, <1>5, <1>6, <1>9 DEF SameChoice
<1>10. SameChoice(A, B, d)
  BY <1>7, <1>8, <1>9
<1> QED
  BY <1>10 DEF A, B, D, U

\* Aligned texts select the same token at aligned places in the same state.
LEMMA SelectAligned ==
  ASSUME NEW a, NEW b, NEW from, NEW d, Aligned(a, b, from, d),
         NEW s, s.offset \in from..Len(a), NEW t, t.offset = s.offset + d, t.stack = s.stack, NEW moment
  PROVE  SameChoice(SelectStep(s, a, moment), SelectStep(t, b, moment), d)
<1> DEFINE rules == Rules(Top(s.stack).mode)
           EA == ScanEmptyState(rules, s, moment)
           EB == ScanEmptyState(rules, t, moment)
           MA == ScanRegexState(rules, s, a)
           MB == ScanRegexState(rules, t, b)
           FA == {m \in MA : ~Barred(m.rule, s.stack)}
           FB == {m \in MB : ~Barred(m.rule, t.stack)}
<1>0. /\ d \in Int /\ from \in Nat /\ 0 <= from + d /\ Len(a) \in Nat /\ Len(b) \in Nat
      /\ Len(b) = Len(a) + d /\ s.offset \in Nat /\ s.offset <= Len(a) /\ s.offset >= from
  BY SeqParts DEF Aligned
<1>1. /\ SelectStep(s, a, moment) = IF EA # {} \/ moment = "eof" THEN Choice(EA, EA, s, a)
                                    ELSE Choice(MA, FA, s, a)
      /\ SelectStep(t, b, moment) = IF EB # {} \/ moment = "eof" THEN Choice(EB, EB, t, b)
                                    ELSE Choice(MB, FB, t, b)
  BY DEF SelectStep
<1> HIDE DEF rules
<1>2. EB = {MovedBy(c, d) : c \in EA}
  <2> DEFINE J == {j \in 1..Len(rules) : /\ rules[j].empty
                                         /\ EmptyWhen(rules[j], s.stack, moment)
                                         /\ ~Barred(rules[j], s.stack)}
             X(i) == [rule |-> rules[i], index |-> i, end |-> s.offset]
             Y(i) == [rule |-> rules[i], index |-> i, end |-> t.offset]
  <2>1. EA = {X(i) : i \in J} /\ EB = {Y(i) : i \in J}
    BY DEF ScanEmptyState
  <2>2. \A i : Y(i) = MovedBy(X(i), d)
    BY DEF MovedBy
  <2> HIDE DEF J, X, Y, EA, EB
  <2> QED
    BY <2>1, <2>2
<1>3. Candidates(EA, rules, s.offset, Len(a))
  <2>1. \A c \in EA : c.index \in Nat /\ c.end = s.offset /\ c.rule = rules[c.index]
    BY DEF ScanEmptyState
  <2> HIDE DEF EA
  <2> QED
    BY <1>0, <2>1 DEF Candidates
<1> DEFINE I == {j \in 1..Len(rules) : ~rules[j].empty}
           EndsA(i) == MatchEnds(rules[i], s.stack, a, s.offset)
           EndsB(i) == MatchEnds(rules[i], s.stack, b, s.offset + d)
           RA(i, e) == RecoverMatchEnd(rules[i], s.stack, a, e)
           RB(i, e) == RecoverMatchEnd(rules[i], s.stack, b, e)
           CA(i, e) == [rule |-> rules[i], index |-> i, end |-> RA(i, e)]
           CB(i, e) == [rule |-> rules[i], index |-> i, end |-> RB(i, e)]
<1>4. /\ \A m : m \in MA <=> \E i \in I : \E e \in EndsA(i) : m = CA(i, e)
      /\ \A m : m \in MB <=> \E i \in I : \E e \in EndsB(i) : m = CB(i, e)
  <2> DEFINE SA(i) == {CA(i, e) : e \in EndsA(i)}
             SB(i) == {CB(i, e) : e \in EndsB(i)}
  <2>1. MA = UNION {SA(i) : i \in I} /\ MB = UNION {SB(i) : i \in I}
    BY DEF ScanRegexState
  <2>2. \A m : m \in MA <=> \E i \in I : m \in SA(i)
    <3> HIDE DEF SA, MA, I
    <3> QED
      BY <2>1
  <2>3. \A m : m \in MB <=> \E i \in I : m \in SB(i)
    <3> HIDE DEF SB, MB, I
    <3> QED
      BY <2>1
  <2> HIDE DEF CA, CB, MA, MB, I, EndsA, EndsB
  <2> QED
    BY <2>2, <2>3
<1>5. ASSUME NEW i
      PROVE  /\ EndsA(i) \subseteq s.offset..Len(a)
             /\ EndsB(i) \subseteq (s.offset + d)..Len(b)
             /\ \A e \in Int : e + d \in EndsB(i) <=> e \in EndsA(i)
  BY MatchesAligned
<1>6. ASSUME NEW i, NEW e \in s.offset..Len(a)
      PROVE  RB(i, e + d) = RA(i, e) + d /\ RA(i, e) \in s.offset..Len(a)
  <2>1. e \in from..Len(a) /\ e \in 0..Len(a)
    BY <1>0
  <2>2. RB(i, e + d) = RA(i, e) + d
    BY <2>1, RecoveredAligned
  <2>3. RA(i, e) \in e..Len(a)
    BY <1>0, <2>1, RecoveredEnds
  <2> QED
    BY <1>0, <2>1, <2>2, <2>3
<1> HIDE DEF EndsA, EndsB, RA, RB, EA, EB, MA, MB
<1>7. \A i, e : /\ CA(i, e).rule = rules[i] /\ CA(i, e).index = i /\ CA(i, e).end = RA(i, e)
               /\ CB(i, e).rule = rules[i] /\ CB(i, e).index = i /\ CB(i, e).end = RB(i, e)
  OBVIOUS
<1>8. Candidates(MA, rules, s.offset, Len(a))
  <2>1. ASSUME NEW c \in MA PROVE c.index \in Nat /\ c.end \in s.offset..Len(a) /\ c.rule = rules[c.index]
    <3>0. PICK i \in I : \E e \in EndsA(i) : c = CA(i, e)
      BY <1>4
    <3>1. PICK e \in EndsA(i) : c = CA(i, e)
      BY <3>0
    <3>2. e \in s.offset..Len(a)
      BY <1>5
    <3> QED
      BY <1>6, <3>1, <3>2
  <2> QED
    BY <2>1 DEF Candidates
<1>9. ASSUME NEW i, NEW e \in s.offset..Len(a) PROVE CB(i, e + d) = MovedBy(CA(i, e), d)
  BY <1>6 DEF MovedBy
<1> HIDE DEF CA, CB
<1>10. ASSUME NEW c \in MA PROVE MovedBy(c, d) \in MB
  <2>0. PICK i \in I : \E e \in EndsA(i) : c = CA(i, e)
    BY <1>4
  <2>1. PICK e \in EndsA(i) : c = CA(i, e)
    BY <2>0
  <2>2. e \in s.offset..Len(a) /\ e \in Int
    BY <1>0, <1>5
  <2>3. e + d \in EndsB(i)
    BY <1>5, <2>2
  <2>4. MovedBy(c, d) = CB(i, e + d)
    BY <1>9, <2>1, <2>2
  <2> QED
    BY <1>4, <2>3, <2>4
<1>11. ASSUME NEW m \in MB PROVE \E c \in MA : m = MovedBy(c, d)
  <2>0. PICK i \in I : \E f \in EndsB(i) : m = CB(i, f)
    BY <1>4
  <2>1. PICK f \in EndsB(i) : m = CB(i, f)
    BY <2>0
  <2>2. f \in (s.offset + d)..Len(b)
    BY <1>5
  <2> DEFINE e == f - d
  <2>3. e \in Int /\ e + d = f /\ e \in s.offset..Len(a)
    BY <1>0, <2>2
  <2> HIDE DEF e
  <2>4. e \in EndsA(i)
    BY <1>5, <2>3
  <2>5. m = MovedBy(CA(i, e), d)
    BY <1>9, <2>1, <2>3
  <2> QED
    BY <1>4, <2>4, <2>5
<1>12. MB = {MovedBy(c, d) : c \in MA}
  BY <1>10, <1>11
<1>13. FB = {MovedBy(c, d) : c \in FA}
  <2>1. \A c : MovedBy(c, d).rule = c.rule
    BY DEF MovedBy
  <2> QED
    BY <1>12, <2>1
<1>14. SameChoice(Choice(EA, EA, s, a), Choice(EB, EB, t, b), d)
  BY <1>2, <1>3, ChoiceAligned
<1>15. SameChoice(Choice(MA, FA, s, a), Choice(MB, FB, t, b), d)
  <2>1. FA \in SUBSET MA
    OBVIOUS
  <2> HIDE DEF FA, FB
  <2> QED
    BY <1>8, <1>12, <1>13, <2>1, ChoiceAligned
<1>16. EB = {} <=> EA = {}
  BY <1>2
<1> QED
  BY <1>1, <1>14, <1>15, <1>16

-----------------------------------------------------------------------------
(* What a turn does, whatever window is replayed *)

\* A turn that emits no token, and one that does.
Quietly(s, unexpected, phase) ==
  [s |-> s, unexpected |-> unexpected, phase |-> phase, emits |-> FALSE, token |-> Absent]

Emitted(s, phase, token) ==
  [s |-> s, unexpected |-> Absent, phase |-> phase, emits |-> TRUE, token |-> token]

\* The effect of a turn on a scan at s, with the step it chose.
ChosenEffect(s, unexpected, phase, text, chosen) ==
  CASE chosen.kind = "fail" -> Quietly(s, unexpected, "fail")
    [] chosen.kind = "none" /\ phase = "scan" ->
         Quietly([offset |-> s.offset + 1, stack |-> s.stack],
                 IF unexpected = Absent THEN s.offset ELSE unexpected, "scan")
    [] chosen.kind = "none" /\ phase = "eof" ->
         IF Len(s.stack) > 1 THEN Emitted(s, "stopped", ErrorToken("boundary", s.offset, s))
         ELSE Quietly(s, Absent, "stopped")
    [] chosen.kind = "match" /\ unexpected # Absent ->
         Emitted(s, phase, ErrorToken("unexpected", unexpected, s))
    [] OTHER -> LET t == ApplyMatch(s, chosen.step, text)
                IN Emitted(t, phase, MatchedToken([s |-> s], text, chosen.step, t))

Effect(s, unexpected, phase, text) ==
  CASE phase = "scan" /\ s.offset = Len(text) /\ unexpected = Absent -> Quietly(s, Absent, "eof")
    [] phase = "scan" /\ s.offset = Len(text) /\ unexpected # Absent ->
         Emitted(s, "eof", ErrorToken("unexpected", unexpected, s))
    [] phase = "scan" /\ s.offset # Len(text) ->
         ChosenEffect(s, unexpected, phase, text, SelectStep(s, text, "normal"))
    [] OTHER -> ChosenEffect(s, unexpected, phase, text, SelectStep(s, text, "eof"))

\* Scan B is what effect m makes of scan A in a replay of window w.
Does(A, B, w, m) ==
  /\ B.s = m.s /\ B.unexpected = m.unexpected
  /\ B.out = IF m.emits THEN Append(A.out, m.token) ELSE A.out
  /\ B.rank = IF m.emits THEN ConvergedRank(w, m.s) ELSE Absent
  /\ B.phase = IF B.rank = Absent THEN m.phase ELSE "stopped"

\* The parts of an effect.
LEMMA EffectParts ==
  ASSUME NEW s, NEW u, NEW p, NEW token
  PROVE  /\ Quietly(s, u, p).s = s /\ Quietly(s, u, p).unexpected = u /\ Quietly(s, u, p).phase = p
         /\ ~Quietly(s, u, p).emits
         /\ Emitted(s, p, token).s = s /\ Emitted(s, p, token).unexpected = Absent
         /\ Emitted(s, p, token).phase = p /\ Emitted(s, p, token).emits
         /\ Emitted(s, p, token).token = token
BY DEF Quietly, Emitted

\* A turn that emits a token does so.
LEMMA EmitDoes ==
  ASSUME NEW A, NEW B, NEW w, NEW s, NEW p, NEW token, B.s = s, B.unexpected = Absent,
         B.out = Append(A.out, token), B.rank = ConvergedRank(w, s),
         B.phase = IF B.rank = Absent THEN p ELSE "stopped"
  PROVE  Does(A, B, w, Emitted(s, p, token))
<1> DEFINE m == Emitted(s, p, token)
<1>1. m.s = s /\ m.unexpected = Absent /\ m.phase = p /\ m.emits /\ m.token = token
  BY DEF Emitted
<1> HIDE DEF m
<1>2. Does(A, B, w, m)
  BY <1>1 DEF Does
<1> QED
  BY <1>2 DEF m

\* A turn that gives no token.
LEMMA QuietDoes ==
  ASSUME NEW A, NEW B, NEW w, NEW s, NEW u, NEW p, B.s = s, B.unexpected = u,
         B.out = A.out, B.rank = Absent, B.phase = p
  PROVE  Does(A, B, w, Quietly(s, u, p))
<1> DEFINE m == Quietly(s, u, p)
<1>1. m.s = s /\ m.unexpected = u /\ m.phase = p /\ ~m.emits
  BY DEF Quietly
<1> HIDE DEF m
<1>2. Does(A, B, w, m)
  BY <1>1 DEF Does
<1> QED
  BY <1>2 DEF m

\* The callback.
LEMMA EmitParts ==
  ASSUME NEW A, NEW w, NEW s, NEW token
  PROVE  /\ Emit(A, w, s, token).s = s /\ Emit(A, w, s, token).unexpected = A.unexpected
         /\ Emit(A, w, s, token).out = Append(A.out, token)
         /\ Emit(A, w, s, token).rank = ConvergedRank(w, s)
         /\ Emit(A, w, s, token).phase = IF ConvergedRank(w, s) = Absent THEN A.phase ELSE "stopped"
BY DEF Emit, Scan

\* A scan that goes on in another phase.
LEMMA InPhaseParts ==
  ASSUME NEW A, NEW p
  PROVE  /\ InPhase(A, p).s = A.s /\ InPhase(A, p).unexpected = A.unexpected
         /\ InPhase(A, p).out = A.out /\ InPhase(A, p).rank = A.rank /\ InPhase(A, p).phase = p
BY DEF InPhase, Scan

\* Pending input is flushed.
LEMMA FlushParts ==
  ASSUME NEW A, NEW w
  PROVE  LET F == FlushUnexpected(A, w)
         IN /\ F.s = A.s /\ F.unexpected = Absent
            /\ F.out = Append(A.out, ErrorToken("unexpected", A.unexpected, A.s))
            /\ F.rank = ConvergedRank(w, A.s)
            /\ F.phase = IF ConvergedRank(w, A.s) = Absent THEN A.phase ELSE "stopped"
<1> DEFINE token == ErrorToken("unexpected", A.unexpected, A.s)
           E == Emit(A, w, A.s, token)
<1>1. FlushUnexpected(A, w) = Scan(E.s, Absent, E.seen, E.out, E.rank, E.phase)
  BY DEF FlushUnexpected
<1>2. /\ E.s = A.s /\ E.out = Append(A.out, token) /\ E.rank = ConvergedRank(w, A.s)
      /\ E.phase = IF ConvergedRank(w, A.s) = Absent THEN A.phase ELSE "stopped"
  BY EmitParts
<1> HIDE DEF E, token

<1> DEFINE F == FlushUnexpected(A, w)
<1> HIDE DEF F
<1>3. F = Scan(E.s, Absent, E.seen, E.out, E.rank, E.phase)
  BY <1>1 DEF F
<1>4. F.s = E.s /\ F.unexpected = Absent /\ F.out = E.out /\ F.rank = E.rank /\ F.phase = E.phase
  BY <1>3 DEF Scan
<1> QED
  BY <1>2, <1>4 DEF token, F

\* A turn that does not fail has the effect of the step it chose.
LEMMA AdvanceEffect ==
  ASSUME NEW w, NEW text, NEW A, A.phase \in {"scan", "eof"}, A.rank = Absent,
         A.phase = "eof" => A.unexpected = Absent,
         NEW chosen, chosen.kind \in {"fail", "none", "match"},
         Advance(A, w, text, chosen).phase # "fail"
  PROVE  Does(A, Advance(A, w, text, chosen), w,
              ChosenEffect(A.s, A.unexpected, A.phase, text, chosen))
<1> DEFINE B == Advance(A, w, text, chosen)
           m == ChosenEffect(A.s, A.unexpected, A.phase, text, chosen)
<1> SUFFICES Does(A, B, w, m)
  OBVIOUS
<1>1. CASE chosen.kind = "fail"
  <2>1. B = InPhase(A, "fail")
    BY <1>1 DEF Advance
  <2> QED
    BY <2>1, InPhaseParts
<1>2. CASE chosen.kind = "none" /\ A.phase = "scan"
  <2> DEFINE s == [offset |-> A.s.offset + 1, stack |-> A.s.stack]
             u == IF A.unexpected = Absent THEN A.s.offset ELSE A.unexpected
  <2>1. B = Scan(s, u, {s}, A.out, A.rank, A.phase) /\ m = Quietly(s, u, "scan")
    BY <1>2 DEF Advance, ChosenEffect
  <2> HIDE DEF B, m, s, u
  <2>2. B.s = s /\ B.unexpected = u /\ B.out = A.out /\ B.rank = Absent /\ B.phase = "scan"
    BY <1>2, <2>1 DEF Scan
  <2> QED
    BY <2>1, <2>2, QuietDoes
<1>3. CASE chosen.kind = "none" /\ A.phase = "eof"
  <2> DEFINE token == ErrorToken("boundary", A.s.offset, A.s)
             E == Emit(A, w, A.s, token)
  <2>1. /\ B = InPhase(IF Len(A.s.stack) > 1 THEN E ELSE A, "stopped")
        /\ m = IF Len(A.s.stack) > 1 THEN Emitted(A.s, "stopped", token) ELSE Quietly(A.s, Absent, "stopped")
    BY <1>3 DEF Advance, ChosenEffect
  <2> HIDE DEF B, m, token
  <2>2. CASE Len(A.s.stack) > 1
    <3>1. /\ E.s = A.s /\ E.unexpected = A.unexpected /\ E.out = Append(A.out, token)
          /\ E.rank = ConvergedRank(w, A.s)
      BY EmitParts
    <3> HIDE DEF E
    <3>2. B.s = E.s /\ B.unexpected = E.unexpected /\ B.out = E.out /\ B.rank = E.rank /\ B.phase = "stopped"
      BY <2>1, <2>2, InPhaseParts
    <3>3. m = Emitted(A.s, "stopped", token)
      BY <2>1, <2>2
    <3> QED
      BY <1>3, <3>1, <3>2, <3>3, EmitDoes
  <2>3. CASE ~(Len(A.s.stack) > 1)
    <3>1. B.s = A.s /\ B.unexpected = A.unexpected /\ B.out = A.out /\ B.rank = A.rank /\ B.phase = "stopped"
      BY <2>1, <2>3, InPhaseParts
    <3>2. m = Quietly(A.s, Absent, "stopped")
      BY <2>1, <2>3
    <3> QED
      BY <1>3, <3>1, <3>2, QuietDoes
  <2> QED
    BY <2>2, <2>3
<1>4. CASE chosen.kind = "match" /\ A.unexpected # Absent
  <2>1. B = FlushUnexpected(A, w) /\ m = Emitted(A.s, A.phase, ErrorToken("unexpected", A.unexpected, A.s))
    BY <1>4 DEF Advance, ChosenEffect
  <2> HIDE DEF B, m
  <2>2. /\ B.s = A.s /\ B.unexpected = Absent
        /\ B.out = Append(A.out, ErrorToken("unexpected", A.unexpected, A.s))
        /\ B.rank = ConvergedRank(w, A.s)
        /\ B.phase = IF ConvergedRank(w, A.s) = Absent THEN A.phase ELSE "stopped"
    BY <2>1, FlushParts
  <2> QED
    BY <2>1, <2>2, EmitDoes
<1>5. CASE chosen.kind = "match" /\ A.unexpected = Absent
  <2> DEFINE step == chosen.step
             s == ApplyMatch(A.s, step, text)
             token == MatchedToken(A, text, step, s)
             E == Emit(A, w, s, token)
             empty == step.end = A.s.offset
  <2>1. B = CommitMatch(A, w, text, step, s)
    BY <1>5 DEF Advance
  <2>2. m = Emitted(s, A.phase, MatchedToken([s |-> A.s], text, step, s))
    BY <1>5 DEF ChosenEffect
  <2>3. MatchedToken([s |-> A.s], text, step, s) = token
    BY DEF MatchedToken
  <2>4. ~(empty /\ s = A.s)
    <3>1. ASSUME empty /\ s = A.s PROVE B = InPhase(A, "fail")
      BY <2>1, <3>1 DEF CommitMatch
    <3> QED
      BY <3>1, InPhaseParts
  <2>5. B = Scan(E.s, E.unexpected, IF empty THEN E.seen \union {s} ELSE {s}, E.out, E.rank,
                 IF E.phase # "stopped" /\ empty /\ s \in A.seen THEN "fail" ELSE E.phase)
    BY <2>1, <2>4 DEF CommitMatch
  <2>6. B.phase # "fail"
    OBVIOUS
  <2> HIDE DEF B, m, s, token, empty
  <2>7. /\ E.s = s /\ E.unexpected = A.unexpected /\ E.out = Append(A.out, token)
        /\ E.rank = ConvergedRank(w, s)
        /\ E.phase = IF ConvergedRank(w, s) = Absent THEN A.phase ELSE "stopped"
    BY EmitParts
  <2> HIDE DEF E
  <2>8. B.s = E.s /\ B.unexpected = E.unexpected /\ B.out = E.out /\ B.rank = E.rank /\ B.phase = E.phase
    BY <2>5, <2>6 DEF Scan
  <2> QED
    BY <1>5, <2>2, <2>3, <2>7, <2>8, EmitDoes
<1> QED
  BY <1>1, <1>2, <1>3, <1>4, <1>5

\* A turn that does not fail has its effect.
LEMMA StepEffect ==
  ASSUME NEW w, NEW R, NEW from, NEW text, Len(text) \in Nat, NEW A, Scanned(A, w, R, from, text),
         A.phase \in {"scan", "eof"}, LexStep(A, w, text).phase # "fail"
  PROVE  Does(A, LexStep(A, w, text), w, Effect(A.s, A.unexpected, A.phase, text))
<1> DEFINE B == LexStep(A, w, text)
           m == Effect(A.s, A.unexpected, A.phase, text)
<1> SUFFICES Does(A, B, w, m)
  OBVIOUS
<1>0. /\ A.s.offset \in 0..Len(text) /\ A.rank = Absent
      /\ (A.phase = "eof" => A.s.offset = Len(text) /\ A.unexpected = Absent)
  BY DEF Scanned
<1>1. CASE A.phase = "eof"
  <2> DEFINE chosen == SelectStep(A.s, text, "eof")
  <2>1. B = Advance(A, w, text, chosen) /\ m = ChosenEffect(A.s, A.unexpected, A.phase, text, chosen)
    BY <1>1 DEF LexStep, Effect
  <2>2. chosen.kind \in {"fail", "none", "match"}
    BY SelectKinds
  <2> HIDE DEF chosen
  <2> QED
    BY <1>0, <2>1, <2>2, AdvanceEffect
<1>2. CASE A.phase = "scan" /\ A.s.offset < Len(text)
  <2> DEFINE chosen == SelectStep(A.s, text, "normal")
  <2>1. B = Advance(A, w, text, chosen) /\ m = ChosenEffect(A.s, A.unexpected, A.phase, text, chosen)
    BY <1>0, <1>2 DEF LexStep, Effect
  <2>2. chosen.kind \in {"fail", "none", "match"}
    BY SelectKinds
  <2> HIDE DEF chosen
  <2> QED
    BY <1>0, <1>2, <2>1, <2>2, AdvanceEffect
<1>3. CASE A.phase = "scan" /\ A.s.offset = Len(text) /\ A.unexpected # Absent
  <2> DEFINE F == FlushUnexpected(A, w)
             token == ErrorToken("unexpected", A.unexpected, A.s)
  <2>1. B = IF F.phase = "stopped" THEN F ELSE InPhase(F, "eof")
    BY <1>0, <1>3 DEF LexStep
  <2>2. m = Emitted(A.s, "eof", token)
    BY <1>3 DEF Effect
  <2>3. /\ F.s = A.s /\ F.unexpected = Absent
        /\ F.out = Append(A.out, token)
        /\ F.rank = ConvergedRank(w, A.s)
        /\ F.phase = IF ConvergedRank(w, A.s) = Absent THEN A.phase ELSE "stopped"
    BY FlushParts
  <2> HIDE DEF F, B, m, token
  <2>4. /\ B.s = F.s /\ B.unexpected = F.unexpected /\ B.out = F.out /\ B.rank = F.rank
        /\ B.phase = IF F.rank = Absent THEN "eof" ELSE "stopped"
    <3>1. CASE F.phase = "stopped"
      BY <1>3, <2>1, <2>3, <3>1
    <3>2. CASE F.phase # "stopped"
      BY <2>1, <2>3, <3>2, InPhaseParts
    <3> QED
      BY <3>1, <3>2
  <2> QED
    BY <2>2, <2>3, <2>4, EmitDoes
<1>4. CASE A.phase = "scan" /\ A.s.offset = Len(text) /\ A.unexpected = Absent
  <2>1. B = InPhase(A, "eof") /\ m = Quietly(A.s, Absent, "eof")
    BY <1>0, <1>4 DEF LexStep, Effect
  <2> HIDE DEF B, m
  <2>2. B.s = A.s /\ B.unexpected = Absent /\ B.out = A.out /\ B.rank = Absent /\ B.phase = "eof"
    BY <1>0, <1>4, <2>1, InPhaseParts
  <2> QED
    BY <2>1, <2>2, QuietDoes
<1> QED
  BY <1>0, <1>1, <1>2, <1>3, <1>4

\* The value of an error token does not depend on the place of the error.
Placeless ==
  \A kind \in {"unexpected", "boundary"}, i \in Nat, j \in Nat, n \in Nat :
    ErrorValue([kind |-> kind, start |-> i, end |-> i + n])
      = ErrorValue([kind |-> kind, start |-> j, end |-> j + n])

\* A lexer state and pending input, moved by d.
MovedState(s, t, d) == t.offset = s.offset + d /\ t.stack = s.stack
MovedPending(u, v, d) == (u = Absent /\ v = Absent) \/ (u \in Int /\ v = u + d)

\* Effects that differ by the place only.
SameEffect(m, n, d) ==
  /\ MovedState(m.s, n.s, d)
  /\ MovedPending(m.unexpected, n.unexpected, d)
  /\ n.phase = m.phase
  /\ n.emits = m.emits
  /\ n.token = m.token

\* An error at two places has the same token.
LEMMA ErrorAligned ==
  ASSUME Placeless, NEW kind \in {"unexpected", "boundary"}, NEW d \in Int, NEW s, NEW t,
         MovedState(s, t, d), s.offset \in Nat, NEW u \in 0..s.offset, u + d \in Nat
  PROVE  ErrorToken(kind, u + d, t) = ErrorToken(kind, u, s)
<1> DEFINE n == s.offset - u
<1>1. n \in Nat /\ u + n = s.offset /\ (u + d) + n = s.offset + d /\ t.offset = s.offset + d
      /\ t.offset - (u + d) = s.offset - u /\ u \in Nat
  BY DEF MovedState
<1> HIDE DEF n
<1>2. ErrorValue([kind |-> kind, start |-> u, end |-> u + n])
        = ErrorValue([kind |-> kind, start |-> u + d, end |-> (u + d) + n])
  BY <1>1 DEF Placeless
<1>3. ErrorValue([kind |-> kind, start |-> u, end |-> s.offset])
        = ErrorValue([kind |-> kind, start |-> u + d, end |-> t.offset])
  BY <1>1, <1>2
<1> QED
  BY <1>1, <1>3 DEF ErrorToken, MovedState

\* A token applied at two places leads to the same state.
LEMMA ApplyAligned ==
  ASSUME NEW a, NEW b, NEW from, NEW d, Aligned(a, b, from, d), NEW s, s.offset \in from..Len(a),
         NEW t, MovedState(s, t, d), NEW x, x.end \in s.offset..Len(a),
         NEW y, y.rule = x.rule, y.end = x.end + d
  PROVE  /\ MovedState(ApplyMatch(s, x, a), ApplyMatch(t, y, b), d)
         /\ MatchedToken([s |-> t], b, y, ApplyMatch(t, y, b))
              = MatchedToken([s |-> s], a, x, ApplyMatch(s, x, a))
<1> DEFINE p == ApplyMatch(s, x, a)
           q == ApplyMatch(t, y, b)
<1>1. Lexeme(b, t.offset, y.end) = Lexeme(a, s.offset, x.end)
  BY LexemeAligned DEF MovedState
<1>2. p.offset = x.end /\ q.offset = y.end /\ q.stack = p.stack
  BY <1>1 DEF ApplyMatch, MovedState
<1>3. y.end - t.offset = x.end - s.offset
  <2>1. d \in Int /\ s.offset \in Int /\ x.end \in Int
    BY SeqParts DEF Aligned
  <2>2. PICK i \in Int : i = s.offset
    BY <2>1
  <2>3. PICK j \in Int : j = x.end
    BY <2>1
  <2>4. (j + d) - (i + d) = j - i
    BY <2>1
  <2> QED
    BY <2>2, <2>3, <2>4 DEF MovedState
<1> HIDE DEF p, q
<1>4. MatchedToken([s |-> t], b, y, q) = MatchedToken([s |-> s], a, x, p)
  BY <1>1, <1>2, <1>3 DEF MatchedToken
<1>5. MovedState(p, q, d)
  BY <1>2 DEF MovedState
<1> QED
  BY <1>4, <1>5 DEF p, q

\* A scan of text a at s and one of text b at t are at aligned places.
SamePlace(a, b, from, d, s, t, u, v, phase) ==
  /\ Aligned(a, b, from, d)
  /\ s.offset \in from..Len(a) /\ MovedState(s, t, d)
  /\ u # Absent => u \in from..s.offset
  /\ MovedPending(u, v, d)
  /\ phase \in {"scan", "eof"}
  /\ phase = "eof" => u = Absent

\* What a selection in text a at s finds.
Finds(x, s, a) ==
  /\ x.kind \in {"fail", "none", "match"}
  /\ x.kind = "match" => x.step.end \in s.offset..Len(a)

\* A turn with the same choice has the same effect.
LEMMA ChosenAligned ==
  ASSUME Placeless, NEW a, NEW b, NEW from, NEW d, NEW s, NEW t, NEW u, NEW v, NEW phase,
         SamePlace(a, b, from, d, s, t, u, v, phase),
         NEW x, Finds(x, s, a), NEW y, SameChoice(x, y, d)
  PROVE  SameEffect(ChosenEffect(s, u, phase, a, x), ChosenEffect(t, v, phase, b, y), d)
<1> DEFINE m == ChosenEffect(s, u, phase, a, x)
           n == ChosenEffect(t, v, phase, b, y)
<1> SUFFICES SameEffect(m, n, d)
  OBVIOUS
<1>1. Aligned(a, b, from, d) /\ s.offset \in from..Len(a) /\ MovedState(s, t, d)
  BY DEF SamePlace
<1>2. /\ (u # Absent => u \in from..s.offset) /\ MovedPending(u, v, d)
      /\ phase \in {"scan", "eof"} /\ (phase = "eof" => u = Absent)
  BY DEF SamePlace
<1>3. x.kind \in {"fail", "none", "match"} /\ (x.kind = "match" => x.step.end \in s.offset..Len(a))
  BY DEF Finds
<1> USE <1>1, <1>2, <1>3
<1>4. /\ d \in Int /\ from \in Nat /\ 0 <= from + d /\ Len(a) \in Nat /\ s.offset \in Nat
      /\ s.offset >= from /\ s.offset + d \in Nat /\ s.offset # Absent
  BY SeqParts, LexerAssumption DEF Aligned
<1>5. /\ (u = Absent <=> v = Absent)
      /\ (u # Absent => u \in 0..s.offset /\ u \in Int /\ v = u + d /\ u + d \in Nat)
  BY <1>4, LexerAssumption DEF MovedPending
<1>6. y.kind = x.kind
  BY DEF SameChoice
<1>7. CASE x.kind = "fail"
  <2>1. m = Quietly(s, u, "fail") /\ n = Quietly(t, v, "fail")
    BY <1>6, <1>7 DEF ChosenEffect
  <2> HIDE DEF m, n
  <2> QED
    BY <2>1 DEF SameEffect, Quietly
<1>8. CASE x.kind = "none" /\ phase = "scan"
  <2> DEFINE p == [offset |-> s.offset + 1, stack |-> s.stack]
             q == [offset |-> t.offset + 1, stack |-> t.stack]
             i == IF u = Absent THEN s.offset ELSE u
             j == IF v = Absent THEN t.offset ELSE v
  <2>1. m = Quietly(p, i, "scan") /\ n = Quietly(q, j, "scan")
    BY <1>6, <1>8 DEF ChosenEffect
  <2>2. MovedState(p, q, d)
    <3>1. PICK k \in Nat : k = s.offset
      BY <1>4
    <3>2. (k + 1) + d = (k + d) + 1
      BY <1>4
    <3> QED
      BY <3>1, <3>2 DEF MovedState
  <2>3. MovedPending(i, j, d)
    <3>1. CASE u = Absent
      BY <1>4, <1>5, <3>1 DEF MovedPending, MovedState
    <3>2. CASE u # Absent
      BY <1>5, <3>2 DEF MovedPending
    <3> QED
      BY <3>1, <3>2
  <2> HIDE DEF m, n, p, q, i, j
  <2> QED
    BY <2>1, <2>2, <2>3 DEF SameEffect, Quietly
<1>9. CASE x.kind = "none" /\ phase = "eof"
  <2> DEFINE p == ErrorToken("boundary", s.offset, s)
             q == ErrorToken("boundary", t.offset, t)
  <2>1. m = IF Len(s.stack) > 1 THEN Emitted(s, "stopped", p) ELSE Quietly(s, Absent, "stopped")
    BY <1>9 DEF ChosenEffect
  <2>2. n = IF Len(t.stack) > 1 THEN Emitted(t, "stopped", q) ELSE Quietly(t, Absent, "stopped")
    BY <1>6, <1>9 DEF ChosenEffect
  <2>3. p = q
    <3>1. s.offset \in 0..s.offset /\ t.offset = s.offset + d
      BY <1>4 DEF MovedState
    <3>2. ErrorToken("boundary", s.offset + d, t) = ErrorToken("boundary", s.offset, s)
      BY <1>4, <3>1, ErrorAligned
    <3> QED
      BY <3>1, <3>2
  <2>4. t.stack = s.stack
    BY DEF MovedState
  <2> HIDE DEF m, n, p, q
  <2>5. CASE Len(s.stack) > 1
    BY <2>1, <2>2, <2>3, <2>4, <2>5 DEF SameEffect, Emitted, MovedPending
  <2>6. CASE ~(Len(s.stack) > 1)
    BY <2>1, <2>2, <2>4, <2>6 DEF SameEffect, Quietly, MovedPending
  <2> QED
    BY <2>5, <2>6
<1>10. CASE x.kind = "match" /\ u # Absent
  <2> DEFINE p == ErrorToken("unexpected", u, s)
             q == ErrorToken("unexpected", v, t)
  <2>1. m = Emitted(s, phase, p) /\ n = Emitted(t, phase, q)
    BY <1>5, <1>6, <1>10 DEF ChosenEffect
  <2>2. p = q
    <3>1. ErrorToken("unexpected", u + d, t) = ErrorToken("unexpected", u, s)
      BY <1>4, <1>5, <1>10, ErrorAligned
    <3> QED
      BY <1>5, <1>10, <3>1
  <2> HIDE DEF m, n, p, q
  <2> QED
    BY <2>1, <2>2 DEF SameEffect, Emitted, MovedPending
<1>11. CASE x.kind = "match" /\ u = Absent
  <2> DEFINE p == ApplyMatch(s, x.step, a)
             q == ApplyMatch(t, y.step, b)
             i == MatchedToken([s |-> s], a, x.step, p)
             j == MatchedToken([s |-> t], b, y.step, q)
  <2>1. m = Emitted(p, phase, i) /\ n = Emitted(q, phase, j)
    BY <1>5, <1>6, <1>11 DEF ChosenEffect
  <2>2. MovedState(p, q, d) /\ j = i
    <3>1. y.step.rule = x.step.rule /\ y.step.end = x.step.end + d
      BY <1>11 DEF SameChoice
    <3> QED
      BY <1>11, <3>1, ApplyAligned
  <2> HIDE DEF m, n, p, q, i, j
  <2> QED
    BY <2>1, <2>2 DEF SameEffect, Emitted, MovedPending
<1> QED
  BY <1>7, <1>8, <1>9, <1>10, <1>11

\* A turn in aligned texts has the same effect.
LEMMA EffectAligned ==
  ASSUME Placeless, NEW a, NEW b, NEW from, NEW d, NEW s, NEW t, NEW u, NEW v, NEW phase,
         SamePlace(a, b, from, d, s, t, u, v, phase)
  PROVE  SameEffect(Effect(s, u, phase, a), Effect(t, v, phase, b), d)
<1> DEFINE m == Effect(s, u, phase, a)
           n == Effect(t, v, phase, b)
<1> SUFFICES SameEffect(m, n, d)
  OBVIOUS
<1>1. Aligned(a, b, from, d) /\ s.offset \in from..Len(a) /\ MovedState(s, t, d)
  BY DEF SamePlace
<1>2. /\ (u # Absent => u \in from..s.offset) /\ MovedPending(u, v, d)
      /\ phase \in {"scan", "eof"} /\ (phase = "eof" => u = Absent)
  BY DEF SamePlace
<1> USE <1>1, <1>2
<1>3. /\ d \in Int /\ from \in Nat /\ 0 <= from + d /\ Len(a) \in Nat /\ s.offset \in Nat
      /\ s.offset >= from /\ s.offset + d \in Nat /\ Len(b) = Len(a) + d /\ t.offset = s.offset + d
      /\ s.offset \in 0..Len(a)
  BY SeqParts DEF Aligned, MovedState
<1>4. /\ (u = Absent <=> v = Absent)
      /\ (u # Absent => u \in 0..s.offset /\ u \in Int /\ v = u + d /\ u + d \in Nat)
  BY <1>3, LexerAssumption DEF MovedPending
<1>5. t.offset = Len(b) <=> s.offset = Len(a)
  BY <1>3
<1>6. ASSUME NEW moment
      PROVE  LET x == SelectStep(s, a, moment)
                 y == SelectStep(t, b, moment)
             IN SameEffect(ChosenEffect(s, u, phase, a, x), ChosenEffect(t, v, phase, b, y), d)
  <2> DEFINE x == SelectStep(s, a, moment)
             y == SelectStep(t, b, moment)
  <2>1. SameChoice(x, y, d)
    BY SelectAligned DEF MovedState
  <2>2. x.kind \in {"fail", "none", "match"}
    BY SelectKinds
  <2>3. x.kind = "match" => x.step.end \in s.offset..Len(a)
    BY <1>3, Selecting
  <2> HIDE DEF x, y
  <2>4. SameEffect(ChosenEffect(s, u, phase, a, x), ChosenEffect(t, v, phase, b, y), d)
    <3>1. Finds(x, s, a)
      BY <2>2, <2>3 DEF Finds
    <3> QED
      BY <2>1, <3>1, ChosenAligned
  <2> QED
    BY <2>4 DEF x, y
<1>7. CASE phase = "scan" /\ s.offset = Len(a) /\ u = Absent
  <2>1. m = Quietly(s, Absent, "eof") /\ n = Quietly(t, Absent, "eof")
    BY <1>4, <1>5, <1>7 DEF Effect
  <2> HIDE DEF m, n
  <2> QED
    BY <2>1 DEF SameEffect, Quietly, MovedPending
<1>8. CASE phase = "scan" /\ s.offset = Len(a) /\ u # Absent
  <2> DEFINE p == ErrorToken("unexpected", u, s)
             q == ErrorToken("unexpected", v, t)
  <2>1. m = Emitted(s, "eof", p) /\ n = Emitted(t, "eof", q)
    BY <1>4, <1>5, <1>8 DEF Effect
  <2>2. p = q
    <3>1. ErrorToken("unexpected", u + d, t) = ErrorToken("unexpected", u, s)
      BY <1>3, <1>4, <1>8, ErrorAligned
    <3> QED
      BY <1>4, <1>8, <3>1
  <2> HIDE DEF m, n, p, q
  <2> QED
    BY <2>1, <2>2 DEF SameEffect, Emitted, MovedPending
<1>9. CASE phase = "scan" /\ s.offset # Len(a)
  <2>1. /\ m = ChosenEffect(s, u, phase, a, SelectStep(s, a, "normal"))
        /\ n = ChosenEffect(t, v, phase, b, SelectStep(t, b, "normal"))
    BY <1>5, <1>9 DEF Effect
  <2> HIDE DEF m, n
  <2> QED
    BY <1>6, <2>1
<1>10. CASE phase = "eof"
  <2>1. /\ m = ChosenEffect(s, u, phase, a, SelectStep(s, a, "eof"))
        /\ n = ChosenEffect(t, v, phase, b, SelectStep(t, b, "eof"))
    BY <1>10 DEF Effect
  <2> HIDE DEF m, n
  <2> QED
    BY <1>6, <2>1
<1> QED
  BY <1>7, <1>8, <1>9, <1>10

\* What every effect of a turn is like: a token has the lexer state behind it, a
\* turn without a token keeps the stack, and the last turn finds no empty rule.
EffectOK(m, s, phase, text) ==
  /\ m.emits \in BOOLEAN
  /\ m.emits => m.unexpected = Absent /\ m.token.stack = m.s.stack
  /\ ~m.emits => m.s.stack = s.stack
  /\ m.phase \in {"scan", "eof", "stopped", "fail"}
  /\ m.phase = "stopped" => phase = "eof" /\ m.s = s
  /\ m.emits => (m.phase = "stopped" <=> m.token.error = "boundary")
  /\ m.phase = "stopped" /\ ~m.emits =>
       SelectStep(s, text, "eof").kind = "none" /\ ~(Len(s.stack) > 1)

\* So is the effect of a chosen step.
LEMMA ChosenOK ==
  ASSUME NEW s, NEW u, NEW phase \in {"scan", "eof"}, NEW text, NEW chosen,
         chosen.kind \in {"fail", "none", "match"},
         phase = "eof" => chosen = SelectStep(s, text, "eof")
  PROVE  EffectOK(ChosenEffect(s, u, phase, text, chosen), s, phase, text)
<1> DEFINE m == ChosenEffect(s, u, phase, text, chosen)
<1> SUFFICES EffectOK(m, s, phase, text)
  OBVIOUS
<1>1. CASE chosen.kind = "fail"
  <2>1. m = Quietly(s, u, "fail")
    BY <1>1 DEF ChosenEffect
  <2> HIDE DEF m
  <2> QED
    BY <2>1 DEF EffectOK, Quietly
<1>2. CASE chosen.kind = "none" /\ phase = "scan"
  <2> DEFINE p == [offset |-> s.offset + 1, stack |-> s.stack]
             i == IF u = Absent THEN s.offset ELSE u
  <2>1. m = Quietly(p, i, "scan") /\ p.stack = s.stack
    BY <1>2 DEF ChosenEffect
  <2> HIDE DEF m, p, i
  <2> QED
    BY <2>1 DEF EffectOK, Quietly
<1>3. CASE chosen.kind = "none" /\ phase = "eof"
  <2> DEFINE p == ErrorToken("boundary", s.offset, s)
  <2>1. m = IF Len(s.stack) > 1 THEN Emitted(s, "stopped", p) ELSE Quietly(s, Absent, "stopped")
    BY <1>3 DEF ChosenEffect
  <2>2. p.stack = s.stack /\ p.error = "boundary"
    BY DEF ErrorToken
  <2> HIDE DEF m, p
  <2>3. CASE Len(s.stack) > 1
    BY <1>3, <2>1, <2>2, <2>3 DEF EffectOK, Emitted
  <2>4. CASE ~(Len(s.stack) > 1)
    BY <1>3, <2>1, <2>4 DEF EffectOK, Quietly
  <2> QED
    BY <2>3, <2>4
<1>4. CASE chosen.kind = "match" /\ u # Absent
  <2> DEFINE p == ErrorToken("unexpected", u, s)
  <2>1. m = Emitted(s, phase, p)
    BY <1>4 DEF ChosenEffect
  <2>2. p.stack = s.stack /\ p.error # "boundary"
    BY DEF ErrorToken
  <2> HIDE DEF m, p
  <2> QED
    BY <2>1, <2>2 DEF EffectOK, Emitted
<1>5. CASE chosen.kind = "match" /\ u = Absent
  <2> DEFINE t == ApplyMatch(s, chosen.step, text)
             p == MatchedToken([s |-> s], text, chosen.step, t)
  <2>1. m = Emitted(t, phase, p)
    BY <1>5 DEF ChosenEffect
  <2>2. p.stack = t.stack /\ p.error # "boundary"
    BY LexerAssumption DEF MatchedToken
  <2> HIDE DEF m, p, t
  <2> QED
    BY <2>1, <2>2 DEF EffectOK, Emitted
<1> QED
  BY <1>1, <1>2, <1>3, <1>4, <1>5

\* So is the effect of a turn.
LEMMA EffectFacts ==
  ASSUME NEW s, NEW u, NEW phase \in {"scan", "eof"}, NEW text
  PROVE  EffectOK(Effect(s, u, phase, text), s, phase, text)
<1> DEFINE m == Effect(s, u, phase, text)
<1> SUFFICES EffectOK(m, s, phase, text)
  OBVIOUS
<1>1. CASE phase = "scan" /\ s.offset = Len(text) /\ u = Absent
  <2>1. m = Quietly(s, Absent, "eof")
    BY <1>1 DEF Effect
  <2> HIDE DEF m
  <2> QED
    BY <2>1 DEF EffectOK, Quietly
<1>2. CASE phase = "scan" /\ s.offset = Len(text) /\ u # Absent
  <2> DEFINE p == ErrorToken("unexpected", u, s)
  <2>1. m = Emitted(s, "eof", p)
    BY <1>2 DEF Effect
  <2>2. p.stack = s.stack /\ p.error # "boundary"
    BY DEF ErrorToken
  <2> HIDE DEF m, p
  <2> QED
    BY <2>1, <2>2 DEF EffectOK, Emitted
<1>3. CASE phase = "scan" /\ s.offset # Len(text)
  <2>1. m = ChosenEffect(s, u, phase, text, SelectStep(s, text, "normal"))
    BY <1>3 DEF Effect
  <2> HIDE DEF m
  <2> QED
    BY <1>3, <2>1, ChosenOK, SelectKinds
<1>4. CASE phase = "eof"
  <2>1. m = ChosenEffect(s, u, phase, text, SelectStep(s, text, "eof"))
    BY <1>4 DEF Effect
  <2> HIDE DEF m
  <2> QED
    BY <1>4, <2>1, ChosenOK, SelectKinds
<1> QED
  BY <1>1, <1>2, <1>3, <1>4

-----------------------------------------------------------------------------
(* Runs of the scanning loop *)

\* A turn of a run: nothing once it stopped, else its effect.
TurnOK(A, B, w, text) ==
  IF A.phase = "stopped" THEN B = A
  ELSE Does(A, B, w, Effect(A.s, A.unexpected, A.phase, text))

\* L is a run of the loop that stops, over text from the lexer state start.
Runs(L, w, R, start, text) ==
  /\ Len(text) \in Nat
  /\ \A n \in 0..MaxTurns : /\ Scanned(L[n], w, R, start.offset, text)
                            /\ L[n].phase \in {"scan", "eof", "stopped"}
  /\ \A n \in 0..MaxTurns : n < MaxTurns => TurnOK(L[n], L[n + 1], w, text)
  /\ L[0].s = start /\ L[0].unexpected = Absent /\ L[0].out = <<>> /\ L[0].phase = "scan"
  /\ L[MaxTurns].phase = "stopped"

\* A scan that stops is the end of such a run.
LEMMA ScanRuns ==
  ASSUME NEW w, NEW R, WindowOK(w, R), NEW text, Len(text) \in Nat,
         NEW start, start.offset \in 0..Len(text), LexCont(w, start, text).phase = "stopped"
  PROVE  \E L : Runs(L, w, R, start, text) /\ L[MaxTurns] = LexCont(w, start, text)
<1> DEFINE from == start.offset
           L0 == Scan(start, Absent, {start}, <<>>, Absent, "scan")
           e  == [w |-> w, text |-> text]
           s  == [k \in 1..MaxTurns |-> e]
           A  == Turns!States(L0, s)
           S  == {n \in Nat : n <= MaxTurns => Scanned(A[n], w, R, from, text)}
<1>0. MaxTurns \in Nat /\ from \in Nat
  BY LexerAssumption
<1>1. Len(s) = MaxTurns /\ \A n \in 1..MaxTurns : s[n] = e
  <2> HIDE DEF e
  <2> QED
    BY <1>0
<1>2. LexCont(w, start, text) = A[MaxTurns]
  BY <1>1 DEF LexCont, Turns!After
<1> HIDE DEF s
<1>3. A[0] = L0 /\ \A n \in 1..MaxTurns : A[n] = Turn(A[n - 1], e)
  <2>1. Len(s) \in Nat
    BY <1>0, <1>1
  <2> HIDE DEF L0, e
  <2>2. A[0] = L0 /\ \A n \in 1..Len(s) : A[n] = Turn(A[n - 1], s[n])
    BY <2>1, Turns!Iterates
  <2> QED
    BY <1>1, <2>2
<1> HIDE DEF A
<1>4. L0.s = start /\ L0.unexpected = Absent /\ L0.out = <<>> /\ L0.rank = Absent /\ L0.phase = "scan"
  BY DEF Scan
<1>5. 0 \in S
  <2>1. Sized(<<>>) /\ Reach(<<>>, from) = from
    <3>1. Sized(<<>>)
      BY SeqEmpty DEF Sized
    <3>2. LexicalStart(<<>>, Len(<<>>)) = 0
      BY <3>1, SeqEmpty, StartSteps
    <3> QED
      BY <1>0, <3>1, <3>2 DEF Reach
  <2> HIDE DEF L0
  <2>2. Scanned(L0, w, R, from, text)
    BY <1>4, <2>1 DEF Scanned, HandsOver
  <2> QED
    BY <1>3, <2>2
<1>6. ASSUME NEW n \in Nat, n + 1 <= MaxTurns
     PROVE  A[n + 1] = IF A[n].phase \in {"stopped", "fail"} THEN A[n] ELSE LexStep(A[n], w, text)
  <2>1. n + 1 \in 1..MaxTurns /\ (n + 1) - 1 = n
    BY <1>0, <1>6
  <2>2. A[n + 1] = Turn(A[n], e)
    BY <1>3, <2>1
  <2> QED
    BY <2>2 DEF Turn
<1>7. ASSUME NEW n \in Nat, n \in S PROVE n + 1 \in S
  <2> SUFFICES ASSUME n + 1 <= MaxTurns PROVE Scanned(A[n + 1], w, R, from, text)
    OBVIOUS
  <2>1. n <= MaxTurns
    BY <1>0
  <2>2. Scanned(A[n], w, R, from, text)
    BY <1>7, <2>1
  <2>3. A[n + 1] = IF A[n].phase \in {"stopped", "fail"} THEN A[n] ELSE LexStep(A[n], w, text)
    BY <1>6
  <2>4. CASE A[n].phase \in {"stopped", "fail"}
    BY <2>2, <2>3, <2>4
  <2>5. CASE A[n].phase \in {"scan", "eof"}
    <3>1. Scanned(LexStep(A[n], w, text), w, R, from, text)
      <4> HIDE DEF from
      <4> QED
        BY <1>0, <2>2, <2>5, Stepping
    <3> QED
      BY <2>3, <2>5, <3>1
  <2> QED
    BY <2>2, <2>4, <2>5 DEF Scanned
<1>8. \A n \in Nat : n \in S
  <2> HIDE DEF S
  <2> QED
    BY <1>5, <1>7, Refs!SetInduction
<1>9. \A n \in 0..MaxTurns : Scanned(A[n], w, R, from, text)
  BY <1>0, <1>8
<1>10. ASSUME NEW n \in 0..MaxTurns PROVE A[n].phase # "fail"
  <2> SUFFICES ASSUME A[n].phase = "fail" PROVE FALSE
    OBVIOUS
  <2> DEFINE T == {k \in Nat : n + k <= MaxTurns => A[n + k].phase = "fail"}
  <2>1. 0 \in T
    OBVIOUS
  <2>2. ASSUME NEW k \in Nat, k \in T PROVE k + 1 \in T
    <3> SUFFICES ASSUME n + (k + 1) <= MaxTurns PROVE A[n + (k + 1)].phase = "fail"
      OBVIOUS
    <3>1. n + k \in Nat /\ (n + k) + 1 = n + (k + 1) /\ (n + k) + 1 <= MaxTurns /\ n + k <= MaxTurns
      BY <1>0
    <3>2. A[n + k].phase = "fail"
      BY <2>2, <3>1
    <3>3. A[(n + k) + 1] = A[n + k]
      BY <1>6, <3>1, <3>2
    <3> QED
      BY <3>1, <3>2, <3>3
  <2>3. \A k \in Nat : k \in T
    <3> HIDE DEF T
    <3> QED
      BY <2>1, <2>2, Refs!SetInduction
  <2>4. PICK k \in Nat : n + k = MaxTurns
    <3>1. MaxTurns - n \in Nat /\ n + (MaxTurns - n) = MaxTurns
      BY <1>0
    <3> QED
      BY <3>1
  <2>5. A[MaxTurns].phase = "fail"
    <3>1. k \in T /\ n + k <= MaxTurns
      BY <1>0, <2>3, <2>4
    <3>2. A[n + k].phase = "fail"
      BY <3>1
    <3> QED
      BY <2>4, <3>2, Zenon
  <2> QED
    BY <1>2, <2>5
<1>11. ASSUME NEW n \in 0..MaxTurns, n < MaxTurns PROVE TurnOK(A[n], A[n + 1], w, text)
  <2>1. n + 1 \in 0..MaxTurns /\ n \in Nat /\ n + 1 <= MaxTurns
    BY <1>0, <1>11
  <2>2. A[n].phase # "fail" /\ A[n + 1].phase # "fail"
    BY <1>10, <2>1
  <2>3. A[n + 1] = IF A[n].phase \in {"stopped", "fail"} THEN A[n] ELSE LexStep(A[n], w, text)
    BY <1>6, <2>1
  <2>4. CASE A[n].phase = "stopped"
    BY <2>3, <2>4 DEF TurnOK
  <2>5. CASE A[n].phase # "stopped"
    <3>1. A[n].phase \in {"scan", "eof"}
      BY <1>9, <2>2, <2>5 DEF Scanned
    <3>2. A[n + 1] = LexStep(A[n], w, text)
      BY <2>3, <3>1
    <3>3. Does(A[n], LexStep(A[n], w, text), w, Effect(A[n].s, A[n].unexpected, A[n].phase, text))
      BY <1>9, <2>2, <3>1, <3>2, StepEffect
    <3> QED
      BY <2>5, <3>2, <3>3 DEF TurnOK
  <2> QED
    BY <2>4, <2>5
<1>12. \A n \in 0..MaxTurns : A[n].phase \in {"scan", "eof", "stopped"}
  BY <1>9, <1>10 DEF Scanned
<1>13. Runs(A, w, R, start, text)
  <2> HIDE DEF L0
  <2> QED
    BY <1>3, <1>9, <1>11, <1>12, <1>2, <1>4 DEF Runs
<1> QED
  BY <1>13, <1>2

\* A run that stopped stays as it is.
LEMMA RunStays ==
  ASSUME NEW L, NEW w, NEW R, NEW start, NEW text, Runs(L, w, R, start, text),
         NEW n \in 0..MaxTurns, L[n].phase = "stopped"
  PROVE  L[MaxTurns] = L[n]
<1>0. MaxTurns \in Nat
  BY LexerAssumption
<1> DEFINE T == {k \in Nat : n + k <= MaxTurns => L[n + k] = L[n]}
<1>1. 0 \in T
  OBVIOUS
<1>2. ASSUME NEW k \in Nat, k \in T PROVE k + 1 \in T
  <2> SUFFICES ASSUME n + (k + 1) <= MaxTurns PROVE L[n + (k + 1)] = L[n]
    OBVIOUS
  <2>1. n + k \in 0..MaxTurns /\ (n + k) + 1 = n + (k + 1) /\ n + k < MaxTurns
    BY <1>0
  <2>2. L[n + k] = L[n]
    BY <1>2, <2>1
  <2>3. TurnOK(L[n + k], L[(n + k) + 1], w, text)
    BY <2>1 DEF Runs
  <2> QED
    BY <2>1, <2>2, <2>3 DEF TurnOK
<1>3. \A k \in Nat : k \in T
  <2> HIDE DEF T
  <2> QED
    BY <1>1, <1>2, Refs!SetInduction
<1> DEFINE q == MaxTurns - n
<1>4. q \in Nat /\ n + q = MaxTurns /\ n + q <= MaxTurns
  BY <1>0
<1> HIDE DEF q
<1>5. L[n + q] = L[n]
  BY <1>3, <1>4
<1> QED
  BY <1>4, <1>5

\* Tapes with the same widths up to a rank start the next entry at the same offset.
LEMMA StartAgree ==
  ASSUME NEW a, NEW b, Sized(a), Sized(b), NEW r \in Nat, r <= Len(a), r <= Len(b),
         \A k \in 1..r : b[k].width = a[k].width
  PROVE  LexicalStart(b, r) = LexicalStart(a, r)
<1>1. /\ Len(a) \in Nat /\ LexicalStart(a, 0) = 0 /\ Len(b) \in Nat /\ LexicalStart(b, 0) = 0
      /\ \A n \in 1..Len(a) : LexicalStart(a, n) = LexicalStart(a, n - 1) + a[n].width
      /\ \A n \in 1..Len(b) : LexicalStart(b, n) = LexicalStart(b, n - 1) + b[n].width
  BY StartSteps
<1> DEFINE S == {n \in Nat : n <= r => LexicalStart(b, n) = LexicalStart(a, n)}
<1>2. 0 \in S
  BY <1>1
<1>3. ASSUME NEW n \in Nat, n \in S PROVE n + 1 \in S
  <2> SUFFICES ASSUME n + 1 <= r PROVE LexicalStart(b, n + 1) = LexicalStart(a, n + 1)
    OBVIOUS
  <2>1. n + 1 \in 1..Len(a) /\ n + 1 \in 1..Len(b) /\ n + 1 \in 1..r /\ (n + 1) - 1 = n /\ n <= r
    BY <1>1
  <2>2. LexicalStart(b, n) = LexicalStart(a, n) /\ b[n + 1].width = a[n + 1].width
    BY <1>3, <2>1
  <2>3. /\ LexicalStart(a, n + 1) = LexicalStart(a, (n + 1) - 1) + a[n + 1].width
        /\ LexicalStart(b, n + 1) = LexicalStart(b, (n + 1) - 1) + b[n + 1].width
    BY <1>1, <2>1
  <2> QED
    BY <2>1, <2>2, <2>3
<1>4. \A n \in Nat : n \in S
  <2> HIDE DEF S
  <2> QED
    BY <1>2, <1>3, Refs!SetInduction
<1> QED
  BY <1>4

\* Scan i of a run has just emitted the first r tokens of out.
PassesAt(L, i, out, r) ==
  /\ i \in 0..MaxTurns
  /\ Len(L[i].out) = r
  /\ \A k \in 1..r : L[i].out[k] = out[k]
  /\ L[i].unexpected = Absent
  /\ L[i].s.stack = StackBeforeRank(out, r)

\* A run passes every token it emits.
LEMMA Passing ==
  ASSUME NEW L, NEW w, NEW R, NEW start, NEW text, Runs(L, w, R, start, text), start.stack = InitialStack
  PROVE  \A r \in 0..Len(L[MaxTurns].out) : \E i : PassesAt(L, i, L[MaxTurns].out, r)
<1>0. MaxTurns \in Nat
  BY LexerAssumption
<1> DEFINE P(n) == \A r \in 0..Len(L[n].out) : \E i : PassesAt(L, i, L[n].out, r)
           S == {n \in Nat : n <= MaxTurns => P(n)}
<1>1. 0 \in S
  <2>1. ASSUME NEW r \in 0..Len(L[0].out) PROVE PassesAt(L, 0, L[0].out, r)
    <3>1. L[0].s = start /\ L[0].unexpected = Absent /\ L[0].out = <<>>
      BY DEF Runs
    <3>2. Len(L[0].out) = 0 /\ r = 0
      BY <3>1, SeqEmpty
    <3> QED
      BY <1>0, <3>1, <3>2 DEF PassesAt, StackBeforeRank
  <2> QED
    BY <2>1
<1>2. ASSUME NEW n \in Nat, n \in S PROVE n + 1 \in S
  <2> SUFFICES ASSUME n + 1 <= MaxTurns PROVE P(n + 1)
    OBVIOUS
  <2>1. n \in 0..MaxTurns /\ n + 1 \in 0..MaxTurns /\ n < MaxTurns
    BY <1>0
  <2>2. P(n)
    BY <1>2, <2>1
  <2> DEFINE A == L[n]
             B == L[n + 1]
             m == Effect(A.s, A.unexpected, A.phase, text)
  <2>3. TurnOK(A, B, w, text) /\ A.phase \in {"scan", "eof", "stopped"} /\ Sized(A.out)
    BY <2>1 DEF Runs, Scanned
  <2>4. CASE B.out = A.out
    BY <2>2, <2>4
  <2>5. CASE B.out # A.out
    <3>1. A.phase # "stopped"
      BY <2>3, <2>5 DEF TurnOK
    <3>2. A.phase \in {"scan", "eof"} /\ Does(A, B, w, m)
      BY <2>3, <3>1 DEF TurnOK
    <3>3. EffectOK(m, A.s, A.phase, text)
      BY <3>2, EffectFacts
    <3> HIDE DEF A, B, m
    <3>4. m.emits /\ B.out = Append(A.out, m.token) /\ B.s = m.s /\ B.unexpected = m.unexpected
      BY <2>5, <3>2 DEF Does
    <3>5. B.unexpected = Absent /\ m.token.stack = B.s.stack
      BY <3>3, <3>4 DEF EffectOK
    <3>6. /\ IsSeq(A.out) /\ Len(A.out) \in Nat /\ Len(B.out) = Len(A.out) + 1
          /\ (\A k \in 1..Len(A.out) : B.out[k] = A.out[k]) /\ B.out[Len(A.out) + 1] = m.token
      <4>1. IsSeq(A.out)
        BY <2>3 DEF Sized
      <4> QED
        BY <3>4, <4>1, SeqAppend, SeqParts
    <3>7. ASSUME NEW r \in 0..Len(B.out) PROVE \E i : PassesAt(L, i, B.out, r)
      <4>1. CASE r = Len(B.out)
        <5>1. StackBeforeRank(B.out, r) = m.token.stack
          BY <3>6, <4>1 DEF StackBeforeRank
        <5>2. PassesAt(L, n + 1, B.out, r)
          BY <2>1, <3>5, <4>1, <5>1 DEF PassesAt, B
        <5> QED
          BY <5>2
      <4>2. CASE r # Len(B.out)
        <5>1. r \in 0..Len(A.out)
          BY <3>6, <4>2
        <5>2. PICK i : PassesAt(L, i, A.out, r)
          BY <2>2, <5>1 DEF A
        <5>3. \A k \in 1..r : B.out[k] = A.out[k]
          BY <3>6, <5>1
        <5>4. StackBeforeRank(B.out, r) = StackBeforeRank(A.out, r)
          <6>1. CASE r = 0
            BY <6>1 DEF StackBeforeRank
          <6>2. CASE r # 0
            <7>1. r \in 1..r
              BY <5>1, <6>2
            <7> QED
              BY <5>3, <6>2, <7>1 DEF StackBeforeRank
          <6> QED
            BY <6>1, <6>2
        <5>5. PassesAt(L, i, B.out, r)
          BY <5>2, <5>3, <5>4 DEF PassesAt
        <5> QED
          BY <5>5
      <4> QED
        BY <4>1, <4>2
    <3> QED
      BY <3>7 DEF B
  <2> QED
    BY <2>4, <2>5
<1>3. \A n \in Nat : n \in S
  <2> HIDE DEF S
  <2> QED
    BY <1>1, <1>2, Refs!SetInduction
<1>4. P(MaxTurns)
  BY <1>0, <1>3
<1> QED
  BY <1>4

-----------------------------------------------------------------------------
(* The end of a text *)

\* At the end of the text, a lexer with this stack has nothing more to say.
Rests(stack) ==
  /\ ScanEmptyState(Rules(Top(stack).mode), [offset |-> 0, stack |-> stack], "eof") = {}
  /\ ~(Len(stack) > 1)

\* A lexer in the initial state does not.
QuietEnd == Rests(InitialStack)

\* A selection at the end finds nothing if there is no empty rule.
LEMMA EndSelects ==
  ASSUME NEW s, NEW text
  PROVE  SelectStep(s, text, "eof").kind = "none"
           <=> ScanEmptyState(Rules(Top(s.stack).mode), [offset |-> 0, stack |-> s.stack], "eof") = {}
<1> DEFINE rules == Rules(Top(s.stack).mode)
           E == ScanEmptyState(rules, s, "eof")
           Z == [offset |-> 0, stack |-> s.stack]
           J == {j \in 1..Len(rules) : /\ rules[j].empty
                                       /\ EmptyWhen(rules[j], s.stack, "eof")
                                       /\ ~Barred(rules[j], s.stack)}
<1>1. SelectStep(s, text, "eof") = Choice(E, E, s, text)
  BY DEF SelectStep
<1>2. E = {[rule |-> rules[i], index |-> i, end |-> s.offset] : i \in J}
  BY DEF ScanEmptyState
<1>3. ScanEmptyState(rules, Z, "eof") = {[rule |-> rules[i], index |-> i, end |-> Z.offset] : i \in J}
  <2>1. Z.stack = s.stack
    OBVIOUS
  <2> QED
    BY <2>1 DEF ScanEmptyState
<1> HIDE DEF E, Z, J, rules
<1>4. E = {} <=> ScanEmptyState(rules, Z, "eof") = {}
  BY <1>2, <1>3
<1>5. Choice(E, E, s, text).kind = "none" <=> E = {}
  BY DEF Choice
<1> QED
  BY <1>1, <1>4, <1>5 DEF Z, rules

\* A scan that reaches the end of the text.
AtEnd(A, text) == A.phase = "scan" /\ A.s.offset = Len(text) /\ A.unexpected = Absent

\* The turn at the end of the text only turns to its rules.
LEMMA EndTurn ==
  ASSUME NEW A, NEW B, NEW w, NEW text, AtEnd(A, text),
         Does(A, B, w, Effect(A.s, A.unexpected, A.phase, text))
  PROVE  B.s = A.s /\ B.unexpected = Absent /\ B.out = A.out /\ B.rank = Absent /\ B.phase = "eof"
<1> DEFINE m == Effect(A.s, A.unexpected, A.phase, text)
<1>1. m = Quietly(A.s, Absent, "eof")
  BY DEF Effect, AtEnd
<1>2. Does(A, B, w, m)
  OBVIOUS
<1> HIDE DEF m
<1>3. m.s = A.s /\ m.unexpected = Absent /\ m.phase = "eof" /\ ~m.emits
  BY <1>1 DEF Quietly
<1> QED
  BY <1>2, <1>3 DEF Does

\* A lexer at rest at the end of the text stops without a token.
LEMMA RestTurn ==
  ASSUME NEW A, NEW B, NEW w, NEW text, A.phase = "eof", Rests(A.s.stack),
         Does(A, B, w, Effect(A.s, A.unexpected, A.phase, text))
  PROVE  B.s = A.s /\ B.unexpected = Absent /\ B.out = A.out /\ B.rank = Absent /\ B.phase = "stopped"
<1> DEFINE m == Effect(A.s, A.unexpected, A.phase, text)
           chosen == SelectStep(A.s, text, "eof")
<1>1. chosen.kind = "none" /\ ~(Len(A.s.stack) > 1)
  BY EndSelects DEF Rests
<1>2. m = ChosenEffect(A.s, A.unexpected, A.phase, text, chosen)
  BY DEF Effect
<1> HIDE DEF chosen
<1>3. m = Quietly(A.s, Absent, "stopped")
  <2> HIDE DEF m
  <2> QED
    BY <1>1, <1>2 DEF ChosenEffect
<1>4. Does(A, B, w, m)
  OBVIOUS
<1> HIDE DEF m
<1>5. m.s = A.s /\ m.unexpected = Absent /\ m.phase = "stopped" /\ ~m.emits
  BY <1>3 DEF Quietly
<1> QED
  BY <1>4, <1>5 DEF Does

\* A run at rest emits nothing more.
LEMMA RestStops ==
  ASSUME NEW L, NEW w, NEW R, NEW start, NEW text, Runs(L, w, R, start, text),
         NEW i \in 0..MaxTurns, L[i].s.offset = Len(text), L[i].unexpected = Absent, Rests(L[i].s.stack)
  PROVE  L[MaxTurns].out = L[i].out
<1>0. MaxTurns \in Nat /\ L[MaxTurns].phase = "stopped"
  BY LexerAssumption DEF Runs
<1>1. ASSUME NEW j \in 0..MaxTurns, L[j].phase # "stopped"
      PROVE  /\ j + 1 \in 0..MaxTurns /\ L[j].phase \in {"scan", "eof"}
             /\ Does(L[j], L[j + 1], w, Effect(L[j].s, L[j].unexpected, L[j].phase, text))
  <2>1. j < MaxTurns /\ j + 1 \in 0..MaxTurns
    BY <1>0, <1>1
  <2> QED
    BY <1>1, <2>1 DEF Runs, TurnOK
<1>2. ASSUME NEW j \in 0..MaxTurns, L[j].phase = "eof", Rests(L[j].s.stack)
      PROVE  L[MaxTurns].out = L[j].out
  <2>1. /\ j + 1 \in 0..MaxTurns
        /\ Does(L[j], L[j + 1], w, Effect(L[j].s, L[j].unexpected, L[j].phase, text))
    BY <1>1, <1>2
  <2>2. L[j + 1].out = L[j].out /\ L[j + 1].phase = "stopped"
    BY <1>2, <2>1, RestTurn
  <2> QED
    BY <2>1, <2>2, RunStays
<1>3. CASE L[i].phase = "stopped"
  BY <1>3, RunStays
<1>4. CASE L[i].phase = "eof"
  BY <1>2, <1>4
<1>5. CASE L[i].phase = "scan"
  <2>1. /\ i + 1 \in 0..MaxTurns
        /\ Does(L[i], L[i + 1], w, Effect(L[i].s, L[i].unexpected, L[i].phase, text))
    BY <1>1, <1>5
  <2>2. L[i + 1].s = L[i].s /\ L[i + 1].out = L[i].out /\ L[i + 1].phase = "eof"
    <3> DEFINE A == L[i]
               B == L[i + 1]
    <3>1. AtEnd(A, text) /\ Does(A, B, w, Effect(A.s, A.unexpected, A.phase, text))
      BY <1>5, <2>1 DEF AtEnd
    <3> HIDE DEF A, B
    <3>2. B.s = A.s /\ B.out = A.out /\ B.phase = "eof"
      BY <3>1, EndTurn
    <3> QED
      BY <3>2 DEF A, B
  <2> QED
    BY <1>2, <2>1, <2>2
<1> QED
  BY <1>3, <1>4, <1>5 DEF Runs

-----------------------------------------------------------------------------
(* Lexing from scratch *)

\* The window of a text lexed from scratch.
FreshWindow(text) == [tape |-> <<>>, oldEnd |-> 0, newEnd |-> Len(text), shift |-> Len(text)]
FreshStart == [offset |-> 0, stack |-> InitialStack]
FreshRuns(L, text) == Runs(L, FreshWindow(text), 0, FreshStart, text)

\* It converges at the end of the text in the initial state, and nowhere else.
LEMMA FreshConverges ==
  ASSUME NEW text, Len(text) \in Nat, NEW s, s.offset \in Int
  PROVE  ConvergedRank(FreshWindow(text), s) # Absent <=> s.offset = Len(text) /\ s.stack = InitialStack
<1> DEFINE w == FreshWindow(text)
           old == s.offset - Len(text)
           rank == LexicalRankAtByte(<<>>, old)
<1>1. w.tape = <<>> /\ w.oldEnd = 0 /\ w.newEnd = Len(text) /\ w.shift = Len(text)
  BY DEF FreshWindow
<1>2. Sized(<<>>) /\ LexicalStart(<<>>, 0) = 0 /\ Len(<<>>) = 0
  <2>1. Sized(<<>>)
    BY SeqEmpty DEF Sized
  <2> QED
    BY <2>1, SeqEmpty, StartSteps
<1>3. rank = 0
  <2>1. old \in Int
    OBVIOUS
  <2> HIDE DEF old
  <2>2. rank \in 0..Len(<<>>)
    BY <1>2, <2>1, RankAt
  <2> HIDE DEF rank
  <2> QED
    BY <1>2, <2>2
<1>4. ConvergedRank(w, s) =
        IF /\ s.offset >= w.newEnd /\ s.offset - w.shift >= w.oldEnd
           /\ LexicalStart(w.tape, LexicalRankAtByte(w.tape, s.offset - w.shift)) = s.offset - w.shift
           /\ StackBeforeRank(w.tape, LexicalRankAtByte(w.tape, s.offset - w.shift)) = s.stack
        THEN LexicalRankAtByte(w.tape, s.offset - w.shift) ELSE Absent
  BY DEF ConvergedRank
<1> HIDE DEF w
<1>5. ConvergedRank(w, s) =
        IF /\ s.offset >= Len(text) /\ old >= 0 /\ LexicalStart(<<>>, rank) = old
           /\ StackBeforeRank(<<>>, rank) = s.stack
        THEN rank ELSE Absent
  BY <1>1, <1>4, Zenon
<1> HIDE DEF rank
<1>6. StackBeforeRank(<<>>, 0) = InitialStack
  BY DEF StackBeforeRank
<1>7. 0 # Absent
  BY LexerAssumption
<1>8. (s.offset >= Len(text) /\ old >= 0 /\ 0 = old) <=> s.offset = Len(text)
  OBVIOUS
<1> HIDE DEF old
<1> QED
  BY <1>2, <1>3, <1>5, <1>6, <1>7, <1>8 DEF w

\* A text that can be lexed from scratch has such a run.
LEMMA FreshRunning ==
  ASSUME NEW text, IsSeq(text), FreshLex(text).ok
  PROVE  \E L : FreshRuns(L, text) /\ L[MaxTurns].out = FreshLex(text).out
<1> DEFINE doc == EmptyDocument(Absent)
           splice == [os |-> 0, oe |-> 0, ns |-> 0, ne |-> Len(text)]
           w == [tape |-> doc.lexical, oldEnd |-> splice.oe, newEnd |-> splice.ne,
                 shift |-> Len(text) - Len(doc.text)]
           R == LexicalRankAtByte(doc.lexical, splice.os)
           start == [offset |-> LexicalStart(doc.lexical, R), stack |-> StackBeforeRank(doc.lexical, R)]
           C == LexCont(w, start, text)
<1>1. FreshLex(text).ok = (C.phase = "stopped") /\ FreshLex(text).out = C.out
  BY DEF FreshLex, Replay
<1>2. doc.lexical = <<>> /\ doc.text = <<>>
  BY DEF EmptyDocument
<1>3. Sized(<<>>) /\ LexicalStart(<<>>, 0) = 0 /\ Len(<<>>) = 0 /\ Len(text) \in Nat
  <2>1. Sized(<<>>)
    BY SeqEmpty DEF Sized
  <2> QED
    BY <2>1, SeqEmpty, StartSteps, SeqParts
<1> HIDE DEF doc
<1>4. R = 0
  <2>1. LexicalRankAtByte(<<>>, 0) \in 0..Len(<<>>)
    BY <1>3, RankAt
  <2>2. LexicalRankAtByte(<<>>, 0) = 0
    BY <1>3, <2>1
  <2> QED
    BY <1>2, <2>2
<1>5. w = FreshWindow(text)
  BY <1>2, <1>3 DEF FreshWindow
<1>6. start = FreshStart
  <2> HIDE DEF R
  <2> QED
    BY <1>2, <1>3, <1>4 DEF FreshStart, StackBeforeRank
<1>7. WindowOK(FreshWindow(text), 0)
  BY <1>3 DEF WindowOK, FreshWindow
<1>8. FreshStart.offset \in 0..Len(text)
  BY <1>3 DEF FreshStart
<1> HIDE DEF w, start
<1>9. C.phase = "stopped"
  <2> HIDE DEF C
  <2> QED
    BY <1>1
<1>10. LexCont(FreshWindow(text), FreshStart, text).phase = "stopped"
  BY <1>5, <1>6, <1>9
<1>11. \E L : /\ Runs(L, FreshWindow(text), 0, FreshStart, text)
              /\ L[MaxTurns] = LexCont(FreshWindow(text), FreshStart, text)
  BY <1>3, <1>7, <1>8, <1>10, ScanRuns
<1> QED
  BY <1>1, <1>5, <1>6, <1>11 DEF FreshRuns

\* A token that ends a run with the error of an unclosed scope.
EndsUnclosed(out) == Len(out) > 0 /\ out[Len(out)].error = "boundary"

\* A scan has the stack of its last token, it stops when it reported an
\* unclosed scope, and one that stopped did so or is at rest, at the end.
EndOK(A, text) ==
  /\ A.s.stack = StackBeforeRank(A.out, Len(A.out))
  /\ EndsUnclosed(A.out) => A.phase = "stopped"
  /\ A.phase = "stopped" => EndsUnclosed(A.out) \/ Rests(A.s.stack)
  /\ A.phase # "scan" => A.s.offset = Len(text) /\ A.unexpected = Absent

\* So it is in a run from scratch.
LEMMA FreshEnds ==
  ASSUME QuietEnd, NEW L, NEW text, FreshRuns(L, text)
  PROVE  \A n \in 0..MaxTurns : EndOK(L[n], text)
<1> DEFINE w == FreshWindow(text)
<1>0. MaxTurns \in Nat /\ Runs(L, w, 0, FreshStart, text) /\ Len(text) \in Nat /\ FreshStart.offset = 0
      /\ FreshStart.stack = InitialStack
  BY LexerAssumption DEF FreshRuns, Runs, FreshStart
<1>1. ASSUME NEW n \in 0..MaxTurns
      PROVE  /\ L[n].s.offset \in Int /\ Sized(L[n].out) /\ L[n].phase \in {"scan", "eof", "stopped"}
             /\ L[n].phase # "scan" => L[n].s.offset = Len(text) /\ L[n].unexpected = Absent
  <2> DEFINE A == L[n]
  <2>1. Scanned(A, w, 0, 0, text) /\ A.phase \in {"scan", "eof", "stopped"}
    BY <1>0 DEF Runs
  <2> HIDE DEF A
  <2>2. /\ A.s.offset \in 0..Len(text) /\ HandsOver(A.rank, w, 0, A.s.offset) /\ Sized(A.out)
        /\ (A.phase = "eof" => A.s.offset = Len(text) /\ A.unexpected = Absent)
        /\ (A.phase = "stopped" => A.unexpected = Absent /\ (A.rank = Absent => A.s.offset = Len(text)))
    BY <2>1 DEF Scanned
  <2>3. w.tape = <<>> /\ w.shift = Len(text) /\ Len(<<>>) = 0 /\ LexicalStart(<<>>, 0) = 0
    <3>1. Sized(<<>>)
      BY SeqEmpty DEF Sized
    <3> QED
      BY <3>1, SeqEmpty, StartSteps DEF FreshWindow
  <2>4. ASSUME A.rank # Absent PROVE A.s.offset = Len(text)
    <3>1. A.rank \in 0..Len(w.tape) /\ LexicalStart(w.tape, A.rank) = A.s.offset - w.shift
      BY <2>2, <2>4 DEF HandsOver
    <3>2. A.rank = 0
      BY <2>3, <3>1
    <3> QED
      BY <1>0, <2>2, <2>3, <3>1, <3>2
  <2>5. A.phase # "scan" => A.s.offset = Len(text) /\ A.unexpected = Absent
    BY <2>1, <2>2, <2>4
  <2> QED
    BY <2>1, <2>2, <2>5 DEF A
<1> DEFINE S == {n \in Nat : n <= MaxTurns => EndOK(L[n], text)}
<1>2. 0 \in S
  <2>1. L[0].s = FreshStart /\ L[0].out = <<>> /\ L[0].phase = "scan"
    BY <1>0 DEF Runs
  <2>2. Len(L[0].out) = 0
    BY <2>1, SeqEmpty
  <2> QED
    BY <1>0, <2>1, <2>2 DEF StackBeforeRank, EndOK, EndsUnclosed
<1>3. ASSUME NEW n \in Nat, n \in S PROVE n + 1 \in S
  <2> SUFFICES ASSUME n + 1 <= MaxTurns PROVE EndOK(L[n + 1], text)
    OBVIOUS
  <2>1. n \in 0..MaxTurns /\ n + 1 \in 0..MaxTurns /\ n < MaxTurns
    BY <1>0
  <2> DEFINE A == L[n]
             B == L[n + 1]
             m == Effect(A.s, A.unexpected, A.phase, text)
  <2>2. EndOK(A, text)
    BY <1>3, <2>1
  <2>3. TurnOK(A, B, w, text) /\ A.phase \in {"scan", "eof", "stopped"} /\ Sized(A.out)
    BY <1>0, <1>1, <2>1 DEF Runs
  <2>4. B.s.offset \in Int /\ (B.phase # "scan" => B.s.offset = Len(text) /\ B.unexpected = Absent)
    BY <1>1, <2>1
  <2>5. CASE A.phase = "stopped"
    BY <2>2, <2>3, <2>5 DEF TurnOK
  <2>6. CASE A.phase # "stopped"
    <3>1. A.phase \in {"scan", "eof"} /\ Does(A, B, w, m)
      BY <2>3, <2>6 DEF TurnOK
    <3>2. EffectOK(m, A.s, A.phase, text)
      BY <3>1, EffectFacts
    <3>3. A.s.stack = StackBeforeRank(A.out, Len(A.out)) /\ ~EndsUnclosed(A.out)
      BY <2>2, <2>6 DEF EndOK
    <3> HIDE DEF A, B, m, w
    <3>4. CASE m.emits
      <4>1. B.s = m.s /\ B.out = Append(A.out, m.token) /\ B.rank = ConvergedRank(w, B.s)
            /\ B.phase = IF B.rank = Absent THEN m.phase ELSE "stopped"
        BY <3>1, <3>4 DEF Does
      <4>2. IsSeq(A.out) /\ Len(A.out) \in Nat /\ Len(B.out) = Len(A.out) + 1 /\ B.out[Len(B.out)] = m.token
        BY <2>3, <4>1, SeqAppend, SeqParts DEF Sized
      <4>3. StackBeforeRank(B.out, Len(B.out)) = m.token.stack
        BY <4>2 DEF StackBeforeRank
      <4>4. m.token.stack = m.s.stack /\ (m.phase = "stopped" <=> m.token.error = "boundary")
        BY <3>2, <3>4 DEF EffectOK
      <4>5. ASSUME B.phase = "stopped" PROVE EndsUnclosed(B.out) \/ Rests(B.s.stack)
        <5>1. CASE B.rank = Absent
          BY <4>1, <4>2, <4>4, <4>5, <5>1 DEF EndsUnclosed
        <5>2. CASE B.rank # Absent
          <6>1. B.s.stack = InitialStack
            BY <1>0, <2>4, <4>1, <5>2, FreshConverges DEF w
          <6> QED
            BY <6>1 DEF QuietEnd
        <5> QED
          BY <5>1, <5>2
      <4>6. ASSUME EndsUnclosed(B.out) PROVE B.phase = "stopped"
        BY <4>1, <4>2, <4>4, <4>6 DEF EndsUnclosed
      <4> QED
        BY <2>4, <4>1, <4>3, <4>4, <4>5, <4>6 DEF B, EndOK
    <3>5. CASE ~m.emits
      <4>1. B.s = m.s /\ B.out = A.out /\ B.rank = Absent /\ B.phase = m.phase
        BY <3>1, <3>5 DEF Does
      <4>2. m.s.stack = A.s.stack
        BY <3>2, <3>5 DEF EffectOK
      <4>3. ASSUME B.phase = "stopped" PROVE Rests(B.s.stack)
        <5>1. SelectStep(A.s, text, "eof").kind = "none" /\ ~(Len(A.s.stack) > 1)
          BY <3>2, <3>5, <4>1, <4>3 DEF EffectOK
        <5>2. Rests(A.s.stack)
          BY <5>1, EndSelects DEF Rests
        <5> QED
          BY <4>1, <4>2, <5>2
      <4> QED
        BY <2>4, <3>3, <4>1, <4>2, <4>3 DEF B, EndOK
    <3> QED
      BY <3>4, <3>5
  <2> QED
    BY <2>5, <2>6
<1>4. \A n \in Nat : n \in S
  <2> HIDE DEF S
  <2> QED
    BY <1>2, <1>3, Refs!SetInduction
<1> QED
  BY <1>0, <1>4

-----------------------------------------------------------------------------
(* Two runs side by side *)

\* Behind its first q entries y is what x is behind its first p.
SameTail(x, p, y, q) ==
  /\ p \in Nat /\ q \in Nat /\ p <= Len(x)
  /\ Len(y) = q + (Len(x) - p)
  /\ \A k \in 1..(Len(x) - p) : y[q + k] = x[p + k]

\* One more entry.
LEMMA TailAppend ==
  ASSUME NEW x, NEW p, NEW y, NEW q, IsSeq(x), IsSeq(y), SameTail(x, p, y, q), NEW t
  PROVE  SameTail(Append(x, t), p, Append(y, t), q)
<1> DEFINE a == Append(x, t)
           b == Append(y, t)
<1>1. /\ Len(a) = Len(x) + 1 /\ (\A k \in 1..Len(x) : a[k] = x[k]) /\ a[Len(x) + 1] = t
      /\ Len(b) = Len(y) + 1 /\ (\A k \in 1..Len(y) : b[k] = y[k]) /\ b[Len(y) + 1] = t
  BY SeqAppend
<1> HIDE DEF a, b
<1>2. p \in Nat /\ q \in Nat /\ p <= Len(x) /\ Len(x) \in Nat /\ Len(y) \in Nat /\ Len(y) = q + (Len(x) - p)
  BY SeqParts DEF SameTail
<1>3. p <= Len(a) /\ Len(b) = q + (Len(a) - p)
  BY <1>1, <1>2
<1>4. ASSUME NEW k \in 1..(Len(a) - p) PROVE b[q + k] = a[p + k]
  <2>1. CASE k = Len(a) - p
    <3>1. p + k = Len(x) + 1 /\ q + k = Len(y) + 1
      BY <1>1, <1>2, <2>1
    <3> QED
      BY <1>1, <3>1
  <2>2. CASE k # Len(a) - p
    <3>1. k \in 1..(Len(x) - p) /\ p + k \in 1..Len(x) /\ q + k \in 1..Len(y)
      <4>1. PICK i \in Nat : i = Len(x)
        BY <1>2
      <4>2. Len(a) - p = (i + 1) - p /\ Len(y) = q + (i - p) /\ p <= i
        BY <1>1, <1>2, <4>1
      <4>3. k \in 1..((i + 1) - p) /\ k # (i + 1) - p
        BY <2>2, <4>2
      <4>4. k \in 1..(i - p) /\ p + k \in 1..i /\ q + k \in 1..(q + (i - p))
        BY <1>2, <4>2, <4>3
      <4> QED
        BY <4>1, <4>2, <4>4
    <3>2. y[q + k] = x[p + k]
      BY <3>1 DEF SameTail
    <3> QED
      BY <1>1, <3>1, <3>2
  <2> QED
    BY <2>1, <2>2
<1>5. SameTail(a, p, b, q)
  BY <1>2, <1>3, <1>4 DEF SameTail
<1> QED
  BY <1>5 DEF a, b

\* Scan B is at the place of scan A moved by d, and has emitted the same tokens
\* since A had p and B had q of them.
Alike(A, B, d, p, q) ==
  /\ MovedState(A.s, B.s, d)
  /\ MovedPending(A.unexpected, B.unexpected, d)
  /\ SameTail(A.out, p, B.out, q)

\* Two turns that emitted or did not, in a phase of their own unless they converged.
SameTurn(A, B, v, w, emits, phase) ==
  /\ A.rank = IF emits THEN ConvergedRank(v, A.s) ELSE Absent
  /\ B.rank = IF emits THEN ConvergedRank(w, B.s) ELSE Absent
  /\ A.phase = IF A.rank = Absent THEN phase ELSE "stopped"
  /\ B.phase = IF B.rank = Absent THEN phase ELSE "stopped"
  /\ emits => A.unexpected = Absent

\* A scan of a text in a running phase, with nothing pending before an offset.
Behind(A, from, text) ==
  /\ A.s.offset \in from..Len(text)
  /\ A.unexpected # Absent => A.unexpected \in from..A.s.offset
  /\ A.phase \in {"scan", "eof"}
  /\ A.phase = "eof" => A.unexpected = Absent

\* Scans of aligned texts that are alike stay alike.
LEMMA AlikeStep ==
  ASSUME Placeless, NEW a, NEW b, NEW from, NEW d, Aligned(a, b, from, d),
         NEW A, NEW B, NEW v, NEW w, NEW p, NEW q, Alike(A, B, d, p, q), B.phase = A.phase,
         Behind(A, from, a), IsSeq(A.out), IsSeq(B.out),
         NEW AA, Does(A, AA, v, Effect(A.s, A.unexpected, A.phase, a)),
         NEW BB, Does(B, BB, w, Effect(B.s, B.unexpected, B.phase, b))
  PROVE  /\ Alike(AA, BB, d, p, q)
         /\ \E emits \in BOOLEAN, phase \in {"scan", "eof", "stopped", "fail"} : SameTurn(AA, BB, v, w, emits, phase)
<1> DEFINE m == Effect(A.s, A.unexpected, A.phase, a)
           n == Effect(B.s, B.unexpected, B.phase, b)
<1>1. SamePlace(a, b, from, d, A.s, B.s, A.unexpected, B.unexpected, A.phase)
  BY DEF SamePlace, Alike, Behind
<1>2. SameEffect(m, n, d)
  <2>1. SameEffect(Effect(A.s, A.unexpected, A.phase, a), Effect(B.s, B.unexpected, A.phase, b), d)
    BY <1>1, EffectAligned
  <2> QED
    BY <2>1
<1>3. EffectOK(m, A.s, A.phase, a)
  BY EffectFacts DEF Behind
<1>4. Does(A, AA, v, m) /\ Does(B, BB, w, n)
  OBVIOUS
<1> HIDE DEF m, n
<1>5. n.emits = m.emits /\ n.token = m.token /\ n.phase = m.phase /\ m.emits \in BOOLEAN
      /\ m.phase \in {"scan", "eof", "stopped", "fail"} /\ (m.emits => m.unexpected = Absent)
  BY <1>2, <1>3 DEF SameEffect, EffectOK
<1>6. SameTurn(AA, BB, v, w, m.emits, m.phase)
  BY <1>4, <1>5 DEF SameTurn, Does
<1>7. SameTail(AA.out, p, BB.out, q)
  <2>1. SameTail(A.out, p, B.out, q)
    BY DEF Alike
  <2>2. CASE m.emits
    <3>1. AA.out = Append(A.out, m.token) /\ BB.out = Append(B.out, m.token)
      BY <1>4, <1>5, <2>2 DEF Does
    <3>2. SameTail(Append(A.out, m.token), p, Append(B.out, m.token), q)
      BY <2>1, TailAppend
    <3> QED
      BY <3>1, <3>2
  <2>3. CASE ~m.emits
    BY <1>4, <1>5, <2>1, <2>3 DEF Does
  <2> QED
    BY <2>2, <2>3
<1>8. Alike(AA, BB, d, p, q)
  BY <1>2, <1>4, <1>7 DEF Alike, SameEffect, Does
<1> QED
  BY <1>5, <1>6, <1>8

-----------------------------------------------------------------------------
(* A replay follows the lex from scratch *)

\* Text is aligned with itself.
LEMMA AlignedSelf ==
  ASSUME NEW text, IsSeq(text)
  PROVE  Aligned(text, text, 0, 0)
BY SeqParts DEF Aligned

\* Scan A of a replay and scan B of the lex from scratch: at the same place, in
\* the same phase, or one of them is ahead at the end of the text, at rest.
Tracks(A, B, text, q) ==
  /\ Alike(A, B, 0, 0, q)
  /\ \/ A.phase = B.phase /\ A.phase # "stopped"
     \/ A.phase = "scan" /\ B.phase = "eof" /\ A.s.offset = Len(text) /\ A.unexpected = Absent
     \/ /\ A.phase # "stopped" /\ B.phase = "stopped"
        /\ A.s.offset = Len(text) /\ A.unexpected = Absent /\ Rests(A.s.stack)
     \/ A.phase = "stopped" /\ (A.rank # Absent \/ B.phase = "stopped")

\* A quiet turn of the replay leaves it where the lex from scratch is.
LEMMA QuietTracks ==
  ASSUME NEW A, NEW B, NEW AA, NEW d, NEW p, NEW q, Alike(A, B, d, p, q),
         AA.s = A.s, A.unexpected = Absent, AA.unexpected = Absent, AA.out = A.out
  PROVE  Alike(AA, B, d, p, q)
BY DEF Alike

\* A turn of both.
LEMMA TrackTurn ==
  ASSUME Placeless, QuietEnd, NEW text, IsSeq(text), NEW w, NEW A, NEW B, NEW AA, NEW BB, NEW q,
         Alike(A, B, 0, 0, q), B.phase = A.phase, Behind(A, 0, text), IsSeq(A.out), IsSeq(B.out),
         Does(A, AA, w, Effect(A.s, A.unexpected, A.phase, text)),
         Does(B, BB, FreshWindow(text), Effect(B.s, B.unexpected, B.phase, text)),
         AA.s.offset \in Int, BB.s.offset \in Int, AA.phase # "fail", BB.phase # "fail"
  PROVE  Tracks(AA, BB, text, q)
<1>0. Len(text) \in Nat
  BY SeqParts
<1>1. /\ Alike(AA, BB, 0, 0, q)
      /\ \E emits \in BOOLEAN, phase \in {"scan", "eof", "stopped", "fail"} :
           SameTurn(AA, BB, w, FreshWindow(text), emits, phase)
  BY AlignedSelf, AlikeStep
<1>2. PICK emits \in BOOLEAN, phase \in {"scan", "eof", "stopped", "fail"} :
        SameTurn(AA, BB, w, FreshWindow(text), emits, phase)
  BY <1>1
<1>3. /\ AA.phase = IF AA.rank = Absent THEN phase ELSE "stopped"
      /\ BB.phase = IF BB.rank = Absent THEN phase ELSE "stopped"
      /\ BB.rank = IF emits THEN ConvergedRank(FreshWindow(text), BB.s) ELSE Absent
      /\ emits => AA.unexpected = Absent
  BY <1>2 DEF SameTurn
<1>4. CASE AA.rank # Absent
  BY <1>1, <1>3, <1>4 DEF Tracks
<1>5. CASE AA.rank = Absent /\ BB.rank = Absent
  BY <1>1, <1>3, <1>5 DEF Tracks
<1>6. CASE AA.rank = Absent /\ BB.rank # Absent
  <2>1. emits /\ ConvergedRank(FreshWindow(text), BB.s) # Absent
    BY <1>3, <1>6
  <2>2. BB.s.offset = Len(text) /\ BB.s.stack = InitialStack
    BY <1>0, <2>1, FreshConverges
  <2>3. BB.s.offset = AA.s.offset + 0 /\ BB.s.stack = AA.s.stack
    BY <1>1 DEF Alike, MovedState
  <2>4. AA.s.stack = InitialStack /\ AA.unexpected = Absent /\ BB.phase = "stopped"
    BY <1>3, <1>6, <2>1, <2>2, <2>3
  <2>5. Rests(AA.s.stack)
    BY <2>4 DEF QuietEnd
  <2>6. CASE AA.phase = "stopped"
    BY <1>1, <2>4, <2>6 DEF Tracks
  <2>7. CASE AA.phase # "stopped" /\ AA.s.offset = Len(text)
    BY <1>1, <2>4, <2>5, <2>7 DEF Tracks
  <2>8. AA.s.offset = Len(text)
    BY <1>0, <2>2, <2>3
  <2> QED
    BY <2>6, <2>7, <2>8
<1> QED
  BY <1>4, <1>5, <1>6

\* A replay from a place the lex from scratch passes tracks it to its end.
LEMMA Tracking ==
  ASSUME Placeless, QuietEnd, NEW text, IsSeq(text),
         NEW P, NEW w, NEW R, NEW start, Runs(P, w, R, start, text),
         NEW F, FreshRuns(F, text), NEW o \in 0..MaxTurns,
         MovedState(start, F[o].s, 0), F[o].unexpected = Absent, ~EndsUnclosed(F[o].out)
  PROVE  \E i \in 0..MaxTurns : Tracks(P[MaxTurns], F[i], text, Len(F[o].out))
<1> DEFINE q == Len(F[o].out)
           S == {n \in Nat : n <= MaxTurns => \E i \in 0..MaxTurns : Tracks(P[n], F[i], text, q)}
<1>0. MaxTurns \in Nat /\ Len(text) \in Nat
  BY LexerAssumption, SeqParts
<1>1. ASSUME NEW n \in 0..MaxTurns
      PROVE  /\ Scanned(P[n], w, R, start.offset, text) /\ P[n].phase \in {"scan", "eof", "stopped"}
             /\ n < MaxTurns => TurnOK(P[n], P[n + 1], w, text)
  BY DEF Runs
<1>2. ASSUME NEW n \in 0..MaxTurns
      PROVE  /\ Scanned(F[n], FreshWindow(text), 0, FreshStart.offset, text)
             /\ F[n].phase \in {"scan", "eof", "stopped"}
             /\ n < MaxTurns => TurnOK(F[n], F[n + 1], FreshWindow(text), text)
             /\ EndOK(F[n], text)
  BY FreshEnds DEF Runs, FreshRuns
<1>3. 0 \in S
  <2> DEFINE A == P[0]
             B == F[o]
  <2>1. A.s = start /\ A.unexpected = Absent /\ A.out = <<>> /\ A.phase = "scan"
    BY DEF Runs
  <2>2. B.phase \in {"scan", "eof", "stopped"} /\ EndOK(B, text) /\ Sized(B.out)
    BY <1>2 DEF Scanned
  <2>3. MovedState(start, B.s, 0) /\ B.unexpected = Absent /\ ~EndsUnclosed(B.out)
    OBVIOUS
  <2>4. q = Len(B.out) /\ q \in Nat
    BY <2>2, SeqParts DEF Sized
  <2> HIDE DEF A, B, q
  <2>5. Alike(A, B, 0, 0, q)
    <3>1. SameTail(A.out, 0, B.out, q)
      BY <2>1, <2>4, SeqEmpty DEF SameTail
    <3> QED
      BY <2>1, <2>3, <3>1 DEF Alike, MovedPending
  <2>6. B.s.offset = start.offset + 0 /\ B.s.stack = start.stack /\ start.offset + 0 = start.offset
    <3>1. start.offset \in Int
      BY <1>0, <1>1, <2>1 DEF Scanned, A
    <3> QED
      BY <2>3, <3>1 DEF MovedState
  <2>7. Tracks(A, B, text, q)
    <3>1. CASE B.phase = "scan"
      BY <2>1, <2>5, <3>1 DEF Tracks
    <3>2. CASE B.phase = "eof"
      <4>1. B.s.offset = Len(text)
        BY <2>2, <3>2 DEF EndOK
      <4> QED
        BY <2>1, <2>5, <2>6, <3>2, <4>1 DEF Tracks
    <3>3. CASE B.phase = "stopped"
      <4>1. B.s.offset = Len(text) /\ Rests(B.s.stack)
        BY <2>2, <2>3, <3>3 DEF EndOK
      <4> QED
        BY <2>1, <2>5, <2>6, <3>3, <4>1 DEF Tracks
    <3> QED
      BY <2>2, <3>1, <3>2, <3>3
  <2> QED
    BY <2>7 DEF A, B
<1> HIDE DEF q
<1>4. ASSUME NEW n \in Nat, n \in S PROVE n + 1 \in S
  <2> SUFFICES ASSUME n + 1 <= MaxTurns PROVE \E i \in 0..MaxTurns : Tracks(P[n + 1], F[i], text, q)
    OBVIOUS
  <2>1. n \in 0..MaxTurns /\ n + 1 \in 0..MaxTurns /\ n < MaxTurns
    BY <1>0
  <2>2. PICK i \in 0..MaxTurns : Tracks(P[n], F[i], text, q)
    BY <1>4, <2>1
  <2> DEFINE A == P[n]
             AA == P[n + 1]
             B == F[i]
  <2>3. /\ Scanned(A, w, R, start.offset, text) /\ A.phase \in {"scan", "eof", "stopped"}
        /\ TurnOK(A, AA, w, text) /\ AA.phase # "fail" /\ AA.s.offset \in Int
    <3>1. /\ Scanned(P[n], w, R, start.offset, text) /\ P[n].phase \in {"scan", "eof", "stopped"}
          /\ TurnOK(P[n], P[n + 1], w, text)
      BY <1>1, <2>1
    <3>2. Scanned(AA, w, R, start.offset, text) /\ AA.phase \in {"scan", "eof", "stopped"}
      BY <1>1, <2>1
    <3>3. AA.phase # "fail"
      BY <3>2
    <3>4. AA.s.offset \in Int
      BY <1>0, <3>2 DEF Scanned
    <3> QED
      BY <3>1, <3>3, <3>4
  <2>4. Scanned(B, FreshWindow(text), 0, FreshStart.offset, text) /\ B.phase \in {"scan", "eof", "stopped"}
    BY <1>2
  <2>5. Tracks(A, B, text, q)
    BY <2>2
  <2> HIDE DEF A, AA, B
  <2>6. CASE A.phase = "stopped"
    <3>1. AA = A
      BY <2>3, <2>6 DEF TurnOK
    <3> QED
      BY <2>5, <3>1 DEF A, AA, B
  <2>7. ASSUME A.phase # "stopped" PROVE Does(A, AA, w, Effect(A.s, A.unexpected, A.phase, text))
    BY <2>3, <2>7 DEF TurnOK
  <2>8. CASE A.phase = B.phase /\ A.phase # "stopped"
    <3>1. i < MaxTurns /\ i + 1 \in 0..MaxTurns
      <4>1. i # MaxTurns
        BY <2>8 DEF B, Runs, FreshRuns
      <4> QED
        BY <1>0, <4>1
    <3> DEFINE BB == F[i + 1]
    <3>2. Does(B, BB, FreshWindow(text), Effect(B.s, B.unexpected, B.phase, text))
      BY <1>2, <2>8, <3>1 DEF TurnOK, B
    <3>3. BB.s.offset \in Int /\ BB.phase # "fail"
      BY <1>0, <1>2, <3>1 DEF Scanned
    <3> HIDE DEF BB
    <3>4. Behind(A, 0, text) /\ IsSeq(A.out) /\ IsSeq(B.out)
      BY <2>3, <2>4, <2>8 DEF Scanned, Behind, Sized
    <3>5. Alike(A, B, 0, 0, q)
      BY <2>5 DEF Tracks
    <3>6. Tracks(AA, BB, text, q)
      BY <2>3, <2>7, <2>8, <3>2, <3>3, <3>4, <3>5, TrackTurn
    <3> QED
      BY <3>1, <3>6 DEF AA, BB
  <2>9. CASE A.phase = "scan" /\ A.s.offset = Len(text) /\ A.unexpected = Absent
             /\ (B.phase = "eof" \/ (B.phase = "stopped" /\ Rests(A.s.stack)))
    <3>0. AtEnd(A, text) /\ Does(A, AA, w, Effect(A.s, A.unexpected, A.phase, text))
      BY <2>7, <2>9 DEF AtEnd
    <3>1. AA.s = A.s /\ AA.unexpected = Absent /\ AA.out = A.out /\ AA.phase = "eof"
      BY <3>0, EndTurn
    <3>2. Alike(AA, B, 0, 0, q)
      BY <2>5, <2>9, <3>1, QuietTracks DEF Tracks
    <3>3. Tracks(AA, B, text, q)
      BY <2>9, <3>1, <3>2 DEF Tracks
    <3> QED
      BY <3>3 DEF AA, B
  <2>10. CASE A.phase = "eof" /\ A.unexpected = Absent /\ B.phase = "stopped" /\ Rests(A.s.stack)
    <3>1. AA.s = A.s /\ AA.unexpected = Absent /\ AA.out = A.out /\ AA.phase = "stopped"
      BY <2>7, <2>10, RestTurn
    <3>2. Alike(AA, B, 0, 0, q)
      BY <2>5, <2>10, <3>1, QuietTracks DEF Tracks
    <3>3. Tracks(AA, B, text, q)
      BY <2>10, <3>1, <3>2 DEF Tracks
    <3> QED
      BY <3>3 DEF AA, B
  <2> QED
    BY <2>3, <2>5, <2>6, <2>8, <2>9, <2>10 DEF Tracks
<1>5. \A n \in Nat : n \in S
  <2> HIDE DEF S
  <2> QED
    BY <1>3, <1>4, Refs!SetInduction
<1>6. \E i \in 0..MaxTurns : Tracks(P[MaxTurns], F[i], text, q)
  BY <1>0, <1>5
<1> QED
  BY <1>6 DEF q

-----------------------------------------------------------------------------
(* Behind the splice the old and the new lex run in step *)

\* A turn keeps what was emitted before.
LEMMA DoesKeeps ==
  ASSUME NEW A, NEW B, NEW w, NEW m, Does(A, B, w, m), Sized(A.out), Sized(B.out), NEW p \in 0..Len(A.out)
  PROVE  p \in 0..Len(B.out) /\ LexicalStart(B.out, p) = LexicalStart(A.out, p)
<1>0. IsSeq(A.out) /\ Len(A.out) \in Nat
  BY SeqParts DEF Sized
<1>1. CASE m.emits
  <2>1. B.out = Append(A.out, m.token)
    BY <1>1 DEF Does
  <2>2. Len(B.out) = Len(A.out) + 1 /\ \A k \in 1..Len(A.out) : B.out[k] = A.out[k]
    BY <1>0, <2>1, SeqAppend
  <2>3. p \in Nat /\ p <= Len(A.out) /\ p <= Len(B.out) /\ \A k \in 1..p : B.out[k].width = A.out[k].width
    BY <1>0, <2>2
  <2>4. LexicalStart(B.out, p) = LexicalStart(A.out, p)
    BY <2>3, StartAgree
  <2> QED
    BY <1>0, <2>2, <2>3, <2>4
<1>2. CASE ~m.emits
  BY <1>2 DEF Does
<1> QED
  BY <1>1, <1>2

\* A scan from the start of a text has nothing pending before its first p tokens end.
LEMMA ScanBehind ==
  ASSUME NEW A, NEW w, NEW text, Len(text) \in Nat, Scanned(A, w, 0, 0, text),
         A.phase \in {"scan", "eof"}, NEW p \in 0..Len(A.out)
  PROVE  Behind(A, LexicalStart(A.out, p), text) /\ LexicalStart(A.out, p) \in Nat
<1>1. /\ A.s.offset \in 0..Len(text) /\ Sized(A.out)
      /\ (A.unexpected = Absent => Reach(A.out, 0) = A.s.offset)
      /\ (A.unexpected # Absent => A.unexpected \in 0..A.s.offset /\ Reach(A.out, 0) = A.unexpected)
      /\ (A.phase = "eof" => A.unexpected = Absent)
  BY DEF Scanned
<1>2. Len(A.out) \in Nat /\ Len(A.out) \in p..Len(A.out)
  BY <1>1, StartSteps
<1>3. LexicalStart(A.out, p) <= LexicalStart(A.out, Len(A.out))
  BY <1>1, <1>2, StartMonotone
<1>4. LexicalStart(A.out, p) \in Nat /\ LexicalStart(A.out, Len(A.out)) \in Nat
  BY <1>1, <1>2, StartTypes
<1>5. Reach(A.out, 0) = LexicalStart(A.out, Len(A.out))
  BY <1>4 DEF Reach
<1>6. CASE A.unexpected = Absent
  BY <1>1, <1>3, <1>4, <1>5, <1>6 DEF Behind
<1>7. CASE A.unexpected # Absent
  BY <1>1, <1>3, <1>4, <1>5, <1>7 DEF Behind
<1> QED
  BY <1>6, <1>7

\* Scans of the two texts from scratch in the same phase, alike behind the first
\* p and q tokens.
SideBySide(A, B, d, p, q, from) ==
  /\ Alike(A, B, d, p, q)
  /\ B.phase = A.phase
  /\ p \in 0..Len(A.out) /\ LexicalStart(A.out, p) = from

\* They stay so.
LEMMA StepTogether ==
  ASSUME Placeless, NEW a, NEW b, NEW from, NEW d, Aligned(a, b, from, d),
         NEW A, NEW B, NEW AA, NEW BB, NEW p, NEW q, SideBySide(A, B, d, p, q, from),
         A.phase \in {"scan", "eof"},
         Scanned(A, FreshWindow(a), 0, 0, a), Scanned(AA, FreshWindow(a), 0, 0, a),
         Scanned(B, FreshWindow(b), 0, 0, b), Scanned(BB, FreshWindow(b), 0, 0, b),
         Does(A, AA, FreshWindow(a), Effect(A.s, A.unexpected, A.phase, a)),
         Does(B, BB, FreshWindow(b), Effect(B.s, B.unexpected, B.phase, b))
  PROVE  SideBySide(AA, BB, d, p, q, from)
<1>0. Len(a) \in Nat /\ Len(b) \in Nat /\ d \in Int /\ Len(b) = Len(a) + d
  BY SeqParts DEF Aligned
<1>1. Alike(A, B, d, p, q) /\ B.phase = A.phase /\ p \in 0..Len(A.out) /\ LexicalStart(A.out, p) = from
  BY DEF SideBySide
<1>2. Sized(A.out) /\ Sized(B.out) /\ Sized(AA.out) /\ AA.s.offset \in Int /\ BB.s.offset \in Int
  BY <1>0 DEF Scanned
<1>3. IsSeq(A.out) /\ IsSeq(B.out)
  BY <1>2 DEF Sized
<1>4. Behind(A, from, a)
  BY <1>0, <1>1, ScanBehind
<1>5. /\ Alike(AA, BB, d, p, q)
      /\ \E emits \in BOOLEAN, phase \in {"scan", "eof", "stopped", "fail"} :
           SameTurn(AA, BB, FreshWindow(a), FreshWindow(b), emits, phase)
  <2> DEFINE v == FreshWindow(a)
             w == FreshWindow(b)
  <2>1. Does(A, AA, v, Effect(A.s, A.unexpected, A.phase, a)) /\ Does(B, BB, w, Effect(B.s, B.unexpected, B.phase, b))
    OBVIOUS
  <2>2. Alike(A, B, d, p, q) /\ B.phase = A.phase /\ Behind(A, from, a) /\ IsSeq(A.out) /\ IsSeq(B.out)
    BY <1>1, <1>3, <1>4
  <2> HIDE DEF v, w
  <2>3. /\ Alike(AA, BB, d, p, q)
        /\ \E emits \in BOOLEAN, phase \in {"scan", "eof", "stopped", "fail"} : SameTurn(AA, BB, v, w, emits, phase)
    BY <2>1, <2>2, AlikeStep
  <2> QED
    BY <2>3 DEF v, w
<1>6. PICK emits \in BOOLEAN, phase \in {"scan", "eof", "stopped", "fail"} :
        SameTurn(AA, BB, FreshWindow(a), FreshWindow(b), emits, phase)
  BY <1>5
<1>7. ConvergedRank(FreshWindow(a), AA.s) # Absent <=> ConvergedRank(FreshWindow(b), BB.s) # Absent
  <2>1. ConvergedRank(FreshWindow(a), AA.s) # Absent <=> AA.s.offset = Len(a) /\ AA.s.stack = InitialStack
    BY <1>0, <1>2, FreshConverges
  <2>2. ConvergedRank(FreshWindow(b), BB.s) # Absent <=> BB.s.offset = Len(b) /\ BB.s.stack = InitialStack
    BY <1>0, <1>2, FreshConverges
  <2>3. BB.s.offset = AA.s.offset + d /\ BB.s.stack = AA.s.stack
    BY <1>5 DEF Alike, MovedState
  <2>4. BB.s.offset = Len(b) <=> AA.s.offset = Len(a)
    BY <1>0, <1>2, <2>3
  <2> QED
    BY <2>1, <2>2, <2>3, <2>4
<1>8. BB.phase = AA.phase
  BY <1>6, <1>7 DEF SameTurn
<1>9. p \in 0..Len(AA.out) /\ LexicalStart(AA.out, p) = LexicalStart(A.out, p)
  BY <1>1, <1>2, DoesKeeps
<1> QED
  BY <1>1, <1>5, <1>8, <1>9 DEF SideBySide

\* The rest of the new lex is the rest of the old one.
LEMMA Lockstep ==
  ASSUME Placeless, NEW a, NEW b, NEW from, NEW d, Aligned(a, b, from, d),
         NEW O, NEW F, FreshRuns(O, a), FreshRuns(F, b), NEW j \in 0..MaxTurns, NEW i \in 0..MaxTurns,
         NEW p, NEW q, SideBySide(O[j], F[i], d, p, q, from)
  PROVE  SameTail(O[MaxTurns].out, p, F[MaxTurns].out, q)
<1>0. MaxTurns \in Nat /\ FreshStart.offset = 0
  BY LexerAssumption DEF FreshStart
<1> DEFINE S == {k \in Nat : j + k <= MaxTurns /\ i + k <= MaxTurns => SideBySide(O[j + k], F[i + k], d, p, q, from)}
<1>1. 0 \in S
  OBVIOUS
<1>2. ASSUME NEW k \in Nat, k \in S PROVE k + 1 \in S
  <2> SUFFICES ASSUME j + (k + 1) <= MaxTurns, i + (k + 1) <= MaxTurns
               PROVE  SideBySide(O[j + (k + 1)], F[i + (k + 1)], d, p, q, from)
    OBVIOUS
  <2> DEFINE x == j + k
             y == i + k
  <2>1. /\ x \in 0..MaxTurns /\ x + 1 \in 0..MaxTurns /\ x < MaxTurns /\ j + (k + 1) = x + 1
        /\ y \in 0..MaxTurns /\ y + 1 \in 0..MaxTurns /\ y < MaxTurns /\ i + (k + 1) = y + 1
    BY <1>0
  <2>2. SideBySide(O[x], F[y], d, p, q, from)
    BY <1>2, <2>1
  <2> HIDE DEF x, y
  <2> DEFINE A == O[x]
             AA == O[x + 1]
             B == F[y]
             BB == F[y + 1]
  <2>3. /\ Scanned(A, FreshWindow(a), 0, 0, a) /\ Scanned(AA, FreshWindow(a), 0, 0, a)
        /\ A.phase \in {"scan", "eof", "stopped"} /\ TurnOK(A, AA, FreshWindow(a), a)
    BY <1>0, <2>1 DEF FreshRuns, Runs
  <2>4. /\ Scanned(B, FreshWindow(b), 0, 0, b) /\ Scanned(BB, FreshWindow(b), 0, 0, b)
        /\ TurnOK(B, BB, FreshWindow(b), b)
    BY <1>0, <2>1 DEF FreshRuns, Runs
  <2>5. SideBySide(A, B, d, p, q, from)
    BY <2>2
  <2> HIDE DEF A, AA, B, BB
  <2>6. B.phase = A.phase
    BY <2>5 DEF SideBySide
  <2>7. SideBySide(AA, BB, d, p, q, from)
    <3>1. CASE A.phase = "stopped"
      BY <2>3, <2>4, <2>5, <2>6, <3>1 DEF TurnOK
    <3>2. CASE A.phase # "stopped"
      <4>1. /\ A.phase \in {"scan", "eof"}
            /\ Does(A, AA, FreshWindow(a), Effect(A.s, A.unexpected, A.phase, a))
            /\ Does(B, BB, FreshWindow(b), Effect(B.s, B.unexpected, B.phase, b))
        BY <2>3, <2>4, <2>6, <3>2 DEF TurnOK
      <4> QED
        BY <2>3, <2>4, <2>5, <4>1, StepTogether
    <3> QED
      BY <3>1, <3>2
  <2> QED
    BY <2>1, <2>7 DEF AA, BB
<1>3. \A k \in Nat : k \in S
  <2> HIDE DEF S
  <2> QED
    BY <1>1, <1>2, Refs!SetInduction
<1>4. \E k \in Nat : /\ j + k \in 0..MaxTurns /\ i + k \in 0..MaxTurns
                     /\ j + k = MaxTurns \/ i + k = MaxTurns
  <2>1. CASE j <= i
    <3> DEFINE k == MaxTurns - i
    <3>1. k \in Nat /\ i + k = MaxTurns /\ j + k \in 0..MaxTurns /\ i + k \in 0..MaxTurns
      BY <1>0, <2>1
    <3> HIDE DEF k
    <3> QED
      BY <3>1
  <2>2. CASE i <= j
    <3> DEFINE k == MaxTurns - j
    <3>1. k \in Nat /\ j + k = MaxTurns /\ i + k \in 0..MaxTurns /\ j + k \in 0..MaxTurns
      BY <1>0, <2>2
    <3> HIDE DEF k
    <3> QED
      BY <3>1
  <2> QED
    BY <1>0, <2>1, <2>2
<1>5. PICK k \in Nat : /\ j + k \in 0..MaxTurns /\ i + k \in 0..MaxTurns
                       /\ j + k = MaxTurns \/ i + k = MaxTurns
  BY <1>4
<1>6. PICK x \in 0..MaxTurns : x = j + k
  BY <1>5
<1>7. PICK y \in 0..MaxTurns : y = i + k
  BY <1>5
<1>8. SideBySide(O[x], F[y], d, p, q, from)
  BY <1>0, <1>3, <1>6, <1>7
<1>9. O[MaxTurns].phase = "stopped" /\ F[MaxTurns].phase = "stopped"
  BY DEF FreshRuns, Runs
<1>10. O[x].phase = "stopped" /\ F[y].phase = "stopped"
  BY <1>5, <1>6, <1>7, <1>8, <1>9 DEF SideBySide
<1>11. O[MaxTurns] = O[x] /\ F[MaxTurns] = F[y]
  BY <1>10, RunStays DEF FreshRuns
<1> QED
  BY <1>8, <1>11 DEF SideBySide, Alike

-----------------------------------------------------------------------------
(* Where a replay ends *)

\* The tokens of a run are the first ones of what it emits in the end.
LEMMA RunGrows ==
  ASSUME NEW L, NEW w, NEW R, NEW start, NEW text, Runs(L, w, R, start, text), NEW n \in 0..MaxTurns
  PROVE  /\ Len(L[n].out) <= Len(L[MaxTurns].out)
         /\ \A k \in 1..Len(L[n].out) : L[MaxTurns].out[k] = L[n].out[k]
<1>0. MaxTurns \in Nat
  BY LexerAssumption
<1> DEFINE Grown(i) == /\ Len(L[n].out) <= Len(L[i].out)
                       /\ \A k \in 1..Len(L[n].out) : L[i].out[k] = L[n].out[k]
           T == {j \in Nat : n + j <= MaxTurns => Grown(n + j)}
<1>1. ASSUME NEW i \in 0..MaxTurns PROVE IsSeq(L[i].out) /\ Len(L[i].out) \in Nat
  BY SeqParts DEF Runs, Scanned, Sized
<1>2. 0 \in T
  BY <1>1
<1>3. ASSUME NEW j \in Nat, j \in T PROVE j + 1 \in T
  <2> SUFFICES ASSUME n + (j + 1) <= MaxTurns PROVE Grown(n + (j + 1))
    OBVIOUS
  <2> DEFINE i == n + j
  <2>1. i \in 0..MaxTurns /\ i + 1 = n + (j + 1) /\ i < MaxTurns
    BY <1>0
  <2>2. Grown(i)
    BY <1>3, <2>1
  <2>3. TurnOK(L[i], L[i + 1], w, text)
    BY <2>1 DEF Runs
  <2> HIDE DEF i
  <2>4. CASE L[i + 1].out = L[i].out
    BY <2>1, <2>2, <2>4
  <2>5. CASE L[i + 1].out # L[i].out
    <3> DEFINE m == Effect(L[i].s, L[i].unexpected, L[i].phase, text)
    <3>1. L[i].phase # "stopped"
      BY <2>3, <2>5 DEF TurnOK
    <3>2. Does(L[i], L[i + 1], w, m)
      BY <2>3, <3>1 DEF TurnOK
    <3> HIDE DEF m
    <3>3. L[i + 1].out = Append(L[i].out, m.token)
      BY <2>5, <3>2 DEF Does
    <3>4. /\ Len(L[i + 1].out) = Len(L[i].out) + 1
          /\ \A k \in 1..Len(L[i].out) : L[i + 1].out[k] = L[i].out[k]
      BY <1>1, <2>1, <3>3, SeqAppend
    <3>5. Len(L[n].out) \in Nat /\ Len(L[i].out) \in Nat /\ Len(L[n].out) <= Len(L[i].out)
      BY <1>1, <2>1, <2>2
    <3>6. \A k \in 1..Len(L[n].out) : k \in 1..Len(L[i].out)
      BY <3>5
    <3>7. Grown(i + 1)
      BY <2>2, <3>4, <3>5, <3>6
    <3> QED
      BY <2>1, <3>7
  <2> QED
    BY <2>4, <2>5
<1>4. \A j \in Nat : j \in T
  <2> HIDE DEF T
  <2> QED
    BY <1>2, <1>3, Refs!SetInduction
<1> DEFINE q == MaxTurns - n
<1>5. q \in Nat /\ n + q = MaxTurns /\ n + q <= MaxTurns
  BY <1>0
<1> HIDE DEF q
<1>6. Grown(n + q)
  BY <1>4, <1>5
<1> QED
  BY <1>5, <1>6

\* A run that stopped at a rank converged there.
LEMMA RunConverges ==
  ASSUME NEW L, NEW w, NEW R, NEW start, NEW text, Runs(L, w, R, start, text)
  PROVE  L[MaxTurns].rank # Absent => L[MaxTurns].rank = ConvergedRank(w, L[MaxTurns].s)
<1>0. MaxTurns \in Nat
  BY LexerAssumption
<1> DEFINE Q(n) == L[n].rank # Absent => L[n].rank = ConvergedRank(w, L[n].s)
           S == {n \in Nat : n <= MaxTurns => Q(n)}
<1>1. 0 \in S
  BY <1>0 DEF Runs, Scanned
<1>2. ASSUME NEW n \in Nat, n \in S PROVE n + 1 \in S
  <2> SUFFICES ASSUME n + 1 <= MaxTurns PROVE Q(n + 1)
    OBVIOUS
  <2>1. n \in 0..MaxTurns /\ n < MaxTurns
    BY <1>0
  <2>2. Q(n) /\ TurnOK(L[n], L[n + 1], w, text)
    BY <1>2, <2>1 DEF Runs
  <2>3. CASE L[n].phase = "stopped"
    <3>1. L[n + 1] = L[n]
      BY <2>2, <2>3 DEF TurnOK
    <3> QED
      BY <2>2, <3>1
  <2>4. CASE L[n].phase # "stopped"
    BY <2>2, <2>4 DEF TurnOK, Does
  <2> QED
    BY <2>3, <2>4
<1>3. \A n \in Nat : n \in S
  <2> HIDE DEF S
  <2> QED
    BY <1>1, <1>2, Refs!SetInduction
<1> QED
  BY <1>0, <1>3

\* At s the window converges at a rank of the old tape.
Converged(w, s, rank) ==
  /\ rank \in 0..Len(w.tape)
  /\ s.offset - w.shift >= w.oldEnd
  /\ LexicalStart(w.tape, rank) = s.offset - w.shift
  /\ StackBeforeRank(w.tape, rank) = s.stack
  /\ \A k \in 1..Len(w.tape) : LexicalStart(w.tape, k) <= s.offset - w.shift => k <= rank

\* It does so at the rank that is found.
LEMMA ConvergesAt ==
  ASSUME NEW w, Sized(w.tape), w.shift \in Int, NEW s, s.offset \in Int, ConvergedRank(w, s) # Absent
  PROVE  Converged(w, s, ConvergedRank(w, s))
<1> DEFINE old  == s.offset - w.shift
           rank == LexicalRankAtByte(w.tape, old)
<1>1. old \in Int
  OBVIOUS
<1>2. /\ rank \in 0..Len(w.tape)
      /\ \A r \in 1..Len(w.tape) : LexicalStart(w.tape, r) <= old <=> r <= rank
  <2> HIDE DEF old
  <2> QED
    BY <1>1, RankAt
<1>3. ConvergedRank(w, s) =
        IF /\ s.offset >= w.newEnd /\ old >= w.oldEnd /\ LexicalStart(w.tape, rank) = old
           /\ StackBeforeRank(w.tape, rank) = s.stack
        THEN rank ELSE Absent
  BY DEF ConvergedRank
<1> HIDE DEF rank, old
<1>4. ConvergedRank(w, s) = rank /\ old >= w.oldEnd /\ LexicalStart(w.tape, rank) = old
      /\ StackBeforeRank(w.tape, rank) = s.stack
  BY <1>3
<1> QED
  BY <1>2, <1>4 DEF Converged, old

\* Aligned texts are aligned further on.
LEMMA AlignedLater ==
  ASSUME NEW a, NEW b, NEW from, NEW d, Aligned(a, b, from, d), NEW to \in Int, from <= to, to <= Len(a)
  PROVE  Aligned(a, b, to, d)
<1>1. /\ IsSeq(a) /\ IsSeq(b) /\ d \in Int /\ Len(b) = Len(a) + d /\ Len(a) \in Nat
      /\ from \in 0..Len(a) /\ 0 <= from + d
      /\ \A k \in (from + 1)..Len(a) : b[k + d] = a[k]
  BY SeqParts DEF Aligned
<1>2. to \in 0..Len(a) /\ 0 <= to + d /\ \A k \in (to + 1)..Len(a) : k \in (from + 1)..Len(a)
  BY <1>1
<1> QED
  BY <1>1, <1>2 DEF Aligned

\* Entries with the same segment have the same width, error and stack.
LEMMA SegmentParts ==
  ASSUME NEW x, NEW y, SameSegment(x, y)
  PROVE  x.width = y.width /\ x.error = y.error /\ x.stack = y.stack
<1>1. Payload(x) = Payload(y) /\ x.stack = y.stack
  BY DEF SameSegment, Segment
<1>2. Payload(x).width = x.width /\ Payload(y).width = y.width /\ Payload(x).error = x.error /\ Payload(y).error = y.error
  BY DEF Payload
<1> QED
  BY <1>1, <1>2

\* Tapes that say the same, up to identities.
SameSegments(x, y) == Len(y) = Len(x) /\ \A k \in 1..Len(x) : SameSegment(x[k], y[k])

\* They start their entries at the same offsets, in the same state.
LEMMA SameStarts ==
  ASSUME NEW x, NEW y, Sized(x), Sized(y), NEW r \in Nat, r <= Len(x), r <= Len(y),
         \A k \in 1..r : SameSegment(x[k], y[k])
  PROVE  LexicalStart(y, r) = LexicalStart(x, r) /\ StackBeforeRank(y, r) = StackBeforeRank(x, r)
<1>1. \A k \in 1..r : y[k].width = x[k].width /\ y[k].stack = x[k].stack
  BY SegmentParts
<1>2. LexicalStart(y, r) = LexicalStart(x, r)
  BY <1>1, StartAgree
<1>3. CASE r = 0
  BY <1>2, <1>3 DEF StackBeforeRank
<1>4. CASE r # 0
  <2>1. r \in 1..r
    BY <1>4
  <2> QED
    BY <1>1, <1>2, <1>4, <2>1 DEF StackBeforeRank
<1> QED
  BY <1>3, <1>4

-----------------------------------------------------------------------------
(* A sound replay and the lexes of the two texts *)

\* O and F are the lexes of the old and the new text from scratch, P the replay
\* of window w from rank R of the tape; the tape says what O does, its first R
\* entries are those of F, and it takes over at rank suffix, not behind the
\* error of an unclosed scope.
ReplaySetting(tape, old, text, O, F, P, w, R, start, suffix) ==
  /\ Covers(tape, old) /\ FreshRuns(O, old) /\ FreshRuns(F, text)
  /\ SameSegments(tape, O[MaxTurns].out)
  /\ Runs(P, w, R, start, text)
  /\ w.tape = tape /\ w.shift = Len(text) - Len(old) /\ Aligned(old, text, w.oldEnd, w.shift)
  /\ R \in 0..Len(tape) /\ suffix \in R..Len(tape)
  /\ start.offset = LexicalStart(tape, R) /\ start.stack = StackBeforeRank(tape, R)
  /\ R <= Len(F[MaxTurns].out) /\ \A k \in 1..R : SameSegment(tape[k], F[MaxTurns].out[k])
  /\ suffix = Len(tape) /\ Len(tape) > 0 => tape[Len(tape)].error # "boundary"
  /\ IF P[MaxTurns].rank # Absent THEN Converged(w, P[MaxTurns].s, suffix)
     ELSE suffix = Len(tape)

\* A run from scratch passes the first r of its tokens at the offset where the
\* next one starts.
LEMMA FreshPasses ==
  ASSUME NEW L, NEW text, FreshRuns(L, text), NEW r \in 0..Len(L[MaxTurns].out)
  PROVE  \E i \in 0..MaxTurns : /\ PassesAt(L, i, L[MaxTurns].out, r)
                                /\ L[i].s.offset = LexicalStart(L[MaxTurns].out, r)
                                /\ L[i].s.offset = LexicalStart(L[i].out, r)
<1>0. MaxTurns \in Nat /\ FreshStart.stack = InitialStack /\ FreshStart.offset = 0
  BY LexerAssumption DEF FreshStart
<1>1. PICK i : PassesAt(L, i, L[MaxTurns].out, r)
  BY <1>0, Passing DEF FreshRuns
<1>2. i \in 0..MaxTurns /\ Len(L[i].out) = r /\ L[i].unexpected = Absent
      /\ \A k \in 1..r : L[i].out[k] = L[MaxTurns].out[k]
  BY <1>1 DEF PassesAt
<1>3. Sized(L[i].out) /\ Sized(L[MaxTurns].out)
  BY <1>0, <1>2 DEF FreshRuns, Runs, Scanned
<1>4. Reach(L[i].out, 0) = L[i].s.offset
  BY <1>0, <1>2 DEF FreshRuns, Runs, Scanned
<1>5. Len(L[i].out) \in 0..Len(L[i].out) /\ r \in Nat /\ r <= Len(L[i].out) /\ r <= Len(L[MaxTurns].out)
  BY <1>2, <1>3, StartSteps
<1>6. LexicalStart(L[i].out, r) \in Nat
  BY <1>2, <1>3, <1>5, StartTypes
<1>7. L[i].s.offset = LexicalStart(L[i].out, r)
  BY <1>2, <1>4, <1>6 DEF Reach
<1>8. LexicalStart(L[MaxTurns].out, r) = LexicalStart(L[i].out, r)
  BY <1>2, <1>3, <1>5, StartAgree
<1> QED
  BY <1>1, <1>2, <1>7, <1>8

\* The parts of the setting that every step needs.
LEMMA ReplaySettingParts ==
  ASSUME NEW tape, NEW old, NEW text, NEW O, NEW F, NEW P, NEW w, NEW R, NEW start, NEW suffix,
         ReplaySetting(tape, old, text, O, F, P, w, R, start, suffix)
  PROVE  /\ MaxTurns \in Nat /\ Sized(tape) /\ Len(tape) \in Nat /\ R \in Nat /\ suffix \in Nat
         /\ IsSeq(old) /\ IsSeq(text) /\ Len(old) \in Nat /\ Len(text) \in Nat
         /\ LexicalStart(tape, Len(tape)) = Len(old)
         /\ Sized(O[MaxTurns].out) /\ Len(O[MaxTurns].out) = Len(tape)
         /\ Sized(F[MaxTurns].out) /\ Sized(P[MaxTurns].out)
         /\ P[MaxTurns].phase = "stopped" /\ P[MaxTurns].unexpected = Absent
         /\ P[MaxTurns].s.offset \in 0..Len(text)
<1>1. Covers(tape, old) /\ Aligned(old, text, w.oldEnd, w.shift) /\ R \in 0..Len(tape) /\ suffix \in R..Len(tape)
  BY DEF ReplaySetting
<1>2. MaxTurns \in Nat /\ Sized(tape) /\ Len(tape) \in Nat
  BY <1>1, LexerAssumption, StartSteps DEF Covers
<1>3. IsSeq(old) /\ IsSeq(text) /\ Len(old) \in Nat /\ Len(text) \in Nat
  BY <1>1, SeqParts DEF Aligned
<1>4. FreshRuns(O, old) /\ FreshRuns(F, text) /\ Runs(P, w, R, start, text) /\ SameSegments(tape, O[MaxTurns].out)
  BY DEF ReplaySetting
<1>5. Sized(O[MaxTurns].out) /\ Sized(F[MaxTurns].out) /\ Sized(P[MaxTurns].out)
  BY <1>2, <1>4 DEF FreshRuns, Runs, Scanned
<1>6. P[MaxTurns].phase = "stopped" /\ P[MaxTurns].unexpected = Absent /\ P[MaxTurns].s.offset \in 0..Len(text)
  BY <1>2, <1>4 DEF Runs, Scanned
<1> QED
  BY <1>1, <1>2, <1>3, <1>4, <1>5, <1>6 DEF Covers, SameSegments

\* The lex of the new text passes the place where the replay starts.
LEMMA Restarting ==
  ASSUME QuietEnd,
         NEW tape, NEW old, NEW text, NEW O, NEW F, NEW P, NEW w, NEW R, NEW start, NEW suffix,
         ReplaySetting(tape, old, text, O, F, P, w, R, start, suffix)
  PROVE  \E o \in 0..MaxTurns : /\ MovedState(start, F[o].s, 0) /\ F[o].unexpected = Absent
                                /\ Len(F[o].out) = R /\ ~EndsUnclosed(F[o].out)
<1> DEFINE out == F[MaxTurns].out
           own == O[MaxTurns].out
<1>1. /\ MaxTurns \in Nat /\ Sized(tape) /\ Len(tape) \in Nat /\ R \in Nat /\ suffix \in Nat
      /\ Sized(own) /\ Len(own) = Len(tape) /\ Sized(out) /\ Len(out) \in Nat
  BY ReplaySettingParts, StartSteps
<1>2. /\ FreshRuns(O, old) /\ FreshRuns(F, text) /\ R \in 0..Len(tape) /\ suffix \in R..Len(tape)
      /\ R <= Len(out) /\ (\A k \in 1..R : SameSegment(tape[k], out[k]))
      /\ (\A k \in 1..Len(tape) : SameSegment(tape[k], own[k]))
      /\ start.offset = LexicalStart(tape, R) /\ start.stack = StackBeforeRank(tape, R)
      /\ (suffix = Len(tape) /\ Len(tape) > 0 => tape[Len(tape)].error # "boundary")
  BY DEF ReplaySetting, SameSegments
<1>3. R \in 0..Len(F[MaxTurns].out) /\ R \in 0..Len(O[MaxTurns].out)
  BY <1>1, <1>2
<1>4. PICK o \in 0..MaxTurns : PassesAt(F, o, F[MaxTurns].out, R) /\ F[o].s.offset = LexicalStart(F[MaxTurns].out, R)
  BY <1>2, <1>3, FreshPasses
<1>5. PICK j \in 0..MaxTurns : PassesAt(O, j, O[MaxTurns].out, R)
  BY <1>2, <1>3, FreshPasses
<1> HIDE DEF out, own
<1>6. LexicalStart(out, R) = LexicalStart(tape, R) /\ StackBeforeRank(out, R) = StackBeforeRank(tape, R)
  BY <1>1, <1>2, SameStarts
<1>7. /\ F[o].s.offset = start.offset /\ F[o].s.stack = start.stack /\ F[o].unexpected = Absent
      /\ Len(F[o].out) = R /\ \A k \in 1..R : F[o].out[k] = out[k]
  BY <1>2, <1>4, <1>6 DEF PassesAt, out
<1>8. start.offset \in Nat
  BY <1>1, <1>2, StartTypes
<1>9. MovedState(start, F[o].s, 0)
  BY <1>7, <1>8 DEF MovedState
<1>10. ASSUME EndsUnclosed(F[o].out) PROVE FALSE
  <2>1. R \in 1..R /\ R \in 1..Len(tape) /\ out[R].error = "boundary"
    BY <1>1, <1>2, <1>7, <1>10 DEF EndsUnclosed
  <2>2. tape[R].error = "boundary"
    BY <1>2, <2>1, SegmentParts
  <2>3. own[R].error = "boundary"
    BY <1>2, <2>1, <2>2, SegmentParts
  <2>4. Len(O[j].out) = R /\ O[j].out[R] = own[R]
    BY <1>5, <2>1 DEF PassesAt, own
  <2>5. EndsUnclosed(O[j].out)
    BY <2>1, <2>3, <2>4 DEF EndsUnclosed
  <2>6. O[j].phase = "stopped"
    BY <1>2, <2>5, FreshEnds DEF EndOK
  <2>7. O[MaxTurns] = O[j]
    BY <1>2, <2>6, RunStays DEF FreshRuns
  <2>8. R = Len(tape)
    BY <1>1, <2>4, <2>7 DEF own
  <2> QED
    BY <1>1, <1>2, <2>1, <2>2, <2>8
<1> QED
  BY <1>7, <1>9, <1>10

\* What a replay found, together with the old tape around it, is the tape full.
Assembled(tape, R, suffix, out, full) ==
  /\ Len(full) = R + Len(out) + (Len(tape) - suffix)
  /\ \A k \in 1..R : SameSegment(tape[k], full[k])
  /\ \A k \in 1..Len(out) : full[R + k] = out[k]
  /\ \A k \in 1..(Len(tape) - suffix) : SameSegment(tape[suffix + k], full[R + Len(out) + k])

\* The replay and the lex of the new text end alike, or that lex goes on as the
\* lex of the old text does.
LEMMA Ending ==
  ASSUME Placeless, QuietEnd,
         NEW tape, NEW old, NEW text, NEW O, NEW F, NEW P, NEW w, NEW R, NEW start, NEW suffix,
         ReplaySetting(tape, old, text, O, F, P, w, R, start, suffix),
         NEW i \in 0..MaxTurns, Tracks(P[MaxTurns], F[i], text, R)
  PROVE  SameTail(O[MaxTurns].out, suffix, F[MaxTurns].out, R + Len(P[MaxTurns].out))
<1> DEFINE A == P[MaxTurns]
           B == F[i]
           n == R + Len(A.out)
           own == O[MaxTurns].out
<1>1. /\ MaxTurns \in Nat /\ Sized(tape) /\ Len(tape) \in Nat /\ R \in Nat /\ suffix \in Nat
      /\ IsSeq(old) /\ IsSeq(text) /\ Len(old) \in Nat /\ Len(text) \in Nat
      /\ LexicalStart(tape, Len(tape)) = Len(old)
      /\ Sized(own) /\ Len(own) = Len(tape) /\ Sized(A.out)
      /\ A.phase = "stopped" /\ A.unexpected = Absent /\ A.s.offset \in 0..Len(text)
  BY ReplaySettingParts
<1>2. /\ FreshRuns(O, old) /\ FreshRuns(F, text) /\ suffix \in R..Len(tape)
      /\ (\A k \in 1..Len(tape) : SameSegment(tape[k], own[k]))
      /\ w.tape = tape /\ w.shift = Len(text) - Len(old) /\ Aligned(old, text, w.oldEnd, w.shift)
      /\ (suffix = Len(tape) /\ Len(tape) > 0 => tape[Len(tape)].error # "boundary")
      /\ IF A.rank # Absent THEN Converged(w, A.s, suffix) ELSE suffix = Len(tape)
  BY DEF ReplaySetting, SameSegments
<1>3. /\ Alike(A, B, 0, 0, R) /\ (A.rank # Absent \/ B.phase = "stopped")
  BY <1>1 DEF Tracks
<1>4. Len(A.out) \in Nat
  BY <1>1, StartSteps
<1>5. B.s.offset = A.s.offset /\ B.s.stack = A.s.stack /\ B.unexpected = Absent /\ Len(B.out) = n
  <2>1. MovedState(A.s, B.s, 0) /\ MovedPending(A.unexpected, B.unexpected, 0) /\ SameTail(A.out, 0, B.out, R)
    BY <1>3 DEF Alike
  <2>2. B.unexpected = Absent
    BY <1>1, <2>1, LexerAssumption DEF MovedPending
  <2> QED
    BY <1>1, <1>4, <2>1, <2>2 DEF MovedState, SameTail
<1>6. n \in Nat
  BY <1>1, <1>4
<1>7. ASSUME F[MaxTurns].out = B.out, suffix = Len(tape)
      PROVE  SameTail(own, suffix, F[MaxTurns].out, n)
  <2>1. Len(own) - suffix = 0 /\ Len(F[MaxTurns].out) = n
    BY <1>1, <1>5, <1>7
  <2> QED
    BY <1>1, <1>6, <1>7, <2>1 DEF SameTail
<1> HIDE DEF n
<1>8. CASE A.rank = Absent
  <2>1. F[MaxTurns].out = B.out
    BY <1>2, <1>3, <1>8, RunStays DEF FreshRuns
  <2> QED
    BY <1>2, <1>7, <1>8, <2>1 DEF n
<1>9. CASE A.rank # Absent
  <2>1. Converged(w, A.s, suffix)
    BY <1>2, <1>9
  <2>2. /\ A.s.offset - w.shift >= w.oldEnd /\ LexicalStart(tape, suffix) = A.s.offset - w.shift
        /\ StackBeforeRank(tape, suffix) = A.s.stack
        /\ \A k \in 1..Len(tape) : LexicalStart(tape, k) <= A.s.offset - w.shift => k <= suffix
    BY <1>2, <2>1 DEF Converged
  <2>3. suffix \in 0..Len(O[MaxTurns].out) /\ suffix <= Len(tape) /\ suffix <= Len(own)
    BY <1>1, <1>2
  <2>4. LexicalStart(own, suffix) = LexicalStart(tape, suffix) /\ StackBeforeRank(own, suffix) = StackBeforeRank(tape, suffix)
    <3>1. \A k \in 1..suffix : SameSegment(tape[k], own[k])
      BY <1>1, <1>2
    <3> HIDE DEF own
    <3> QED
      BY <1>1, <2>3, <3>1, SameStarts
  <2>5. CASE A.s.offset = Len(text)
    <3>1. suffix = Len(tape)
      <4>1. A.s.offset - w.shift = Len(old)
        BY <1>1, <1>2, <2>5
      <4>2. Len(tape) > 0 => Len(tape) <= suffix
        BY <1>1, <2>2, <4>1
      <4> QED
        BY <1>1, <1>2, <4>2
    <3>2. EndOK(O[MaxTurns], old) /\ O[MaxTurns].phase = "stopped"
      <4>1. FreshRuns(O, old) /\ MaxTurns \in 0..MaxTurns
        BY <1>1, <1>2
      <4>2. EndOK(O[MaxTurns], old)
        BY <4>1, FreshEnds
      <4> QED
        BY <4>1, <4>2 DEF FreshRuns, Runs
    <3>3. ~EndsUnclosed(own)
      <4> SUFFICES ASSUME EndsUnclosed(own) PROVE FALSE
        OBVIOUS
      <4>1. Len(tape) \in 1..Len(tape) /\ own[Len(tape)].error = "boundary"
        BY <1>1 DEF EndsUnclosed
      <4>2. tape[Len(tape)].error = "boundary"
        BY <1>2, <4>1, SegmentParts
      <4> QED
        BY <1>1, <1>2, <3>1, <4>1, <4>2
    <3>4. Rests(O[MaxTurns].s.stack) /\ O[MaxTurns].s.stack = StackBeforeRank(own, Len(own))
      BY <3>2, <3>3 DEF EndOK
    <3>5. Rests(B.s.stack)
      BY <1>1, <1>5, <2>2, <2>4, <3>1, <3>4
    <3>6. F[MaxTurns].out = B.out
      <4>1. B.s.offset = Len(text)
        BY <1>5, <2>5
      <4> QED
        BY <1>2, <1>5, <3>5, <4>1, RestStops DEF FreshRuns
    <3> QED
      BY <1>7, <3>1, <3>6 DEF n
  <2>6. CASE A.s.offset # Len(text)
    <3>1. PICK j \in 0..MaxTurns : /\ PassesAt(O, j, O[MaxTurns].out, suffix)
                                   /\ O[j].s.offset = LexicalStart(O[MaxTurns].out, suffix)
                                   /\ O[j].s.offset = LexicalStart(O[j].out, suffix)
      BY <1>2, <2>3, FreshPasses
    <3>2. Len(O[j].out) = suffix /\ O[j].unexpected = Absent /\ O[j].s.stack = StackBeforeRank(own, suffix)
      BY <3>1 DEF PassesAt
    <3>3. O[j].s.offset = A.s.offset - w.shift /\ O[j].s.stack = A.s.stack
      BY <2>2, <2>4, <3>1, <3>2
    <3> DEFINE from == O[j].s.offset
    <3>4. from \in Int /\ from # Len(old) /\ B.s.offset # Len(text) /\ from <= Len(old) /\ w.oldEnd <= from
          /\ B.s.offset = from + w.shift
      BY <1>1, <1>2, <1>5, <2>2, <2>6, <3>3
    <3>5. O[j].phase = "scan" /\ F[i].phase = "scan"
      <4>1. EndOK(O[j], old) /\ EndOK(F[i], text)
        BY <1>2, FreshEnds
      <4> QED
        BY <3>4, <4>1 DEF EndOK
    <3>6. Aligned(old, text, from, w.shift)
      BY <1>2, <3>4, AlignedLater
    <3>7. SameTail(O[j].out, suffix, F[i].out, n)
      <4>1. Len(O[j].out) - suffix = 0
        BY <1>1, <3>2
      <4> QED
        BY <1>1, <1>5, <1>6, <3>2, <4>1 DEF SameTail
    <3>8. SideBySide(O[j], F[i], w.shift, suffix, n, from)
      <4>1. MovedState(O[j].s, F[i].s, w.shift)
        BY <1>5, <3>3, <3>4 DEF MovedState
      <4>2. MovedPending(O[j].unexpected, F[i].unexpected, w.shift)
        BY <1>5, <3>2 DEF MovedPending
      <4>3. suffix \in 0..Len(O[j].out) /\ LexicalStart(O[j].out, suffix) = from
        BY <1>1, <3>1, <3>2
      <4> QED
        BY <3>5, <3>7, <4>1, <4>2, <4>3 DEF SideBySide, Alike
    <3> HIDE DEF from
    <3>9. SameTail(O[MaxTurns].out, suffix, F[MaxTurns].out, n)
      BY <1>2, <3>6, <3>8, Lockstep
    <3> QED
      BY <3>9 DEF n
  <2> QED
    BY <2>5, <2>6
<1> QED
  BY <1>8, <1>9

\* A sound replay, put into the old tape, is the lex of the new text.
LEMMA Assembling ==
  ASSUME Placeless, QuietEnd,
         NEW tape, NEW old, NEW text, NEW O, NEW F, NEW P, NEW w, NEW R, NEW start, NEW suffix,
         ReplaySetting(tape, old, text, O, F, P, w, R, start, suffix)
  PROVE  Assembled(tape, R, suffix, P[MaxTurns].out, F[MaxTurns].out)
<1> DEFINE out == P[MaxTurns].out
           full == F[MaxTurns].out
           own == O[MaxTurns].out
<1>1. /\ MaxTurns \in Nat /\ Len(tape) \in Nat /\ R \in Nat /\ suffix \in Nat
      /\ IsSeq(text) /\ Len(own) = Len(tape) /\ Sized(out)
  BY ReplaySettingParts
<1>2. /\ FreshRuns(F, text) /\ Runs(P, w, R, start, text) /\ suffix \in R..Len(tape)
      /\ (\A k \in 1..Len(tape) : SameSegment(tape[k], own[k]))
      /\ (\A k \in 1..R : SameSegment(tape[k], full[k]))
  BY DEF ReplaySetting, SameSegments
<1>3. PICK o \in 0..MaxTurns : /\ MovedState(start, F[o].s, 0) /\ F[o].unexpected = Absent
                               /\ Len(F[o].out) = R /\ ~EndsUnclosed(F[o].out)
  BY Restarting
<1>4. PICK i \in 0..MaxTurns : Tracks(P[MaxTurns], F[i], text, Len(F[o].out))
  BY <1>1, <1>2, <1>3, Tracking
<1>5. Tracks(P[MaxTurns], F[i], text, R)
  BY <1>3, <1>4
<1>6. SameTail(own, suffix, full, R + Len(out))
  BY <1>5, Ending
<1>7. SameTail(out, 0, F[i].out, R)
  BY <1>5 DEF Tracks, Alike
<1>8. Len(F[i].out) <= Len(full) /\ \A k \in 1..Len(F[i].out) : full[k] = F[i].out[k]
  BY <1>2, RunGrows DEF FreshRuns
<1>9. Len(out) \in Nat
  BY <1>1, StartSteps
<1> HIDE DEF out, full, own
<1>10. \A k \in 1..Len(out) : full[R + k] = out[k]
  <2>1. Len(F[i].out) = R + Len(out) /\ \A k \in 1..Len(out) : F[i].out[R + k] = out[k]
    BY <1>1, <1>7, <1>9 DEF SameTail
  <2>2. \A k \in 1..Len(out) : R + k \in 1..Len(F[i].out)
    BY <1>1, <1>9, <2>1
  <2> QED
    BY <1>8, <2>1, <2>2
<1>11. /\ Len(full) = R + Len(out) + (Len(tape) - suffix)
       /\ \A k \in 1..(Len(tape) - suffix) : full[R + Len(out) + k] = own[suffix + k]
  <2>1. /\ Len(full) = (R + Len(out)) + (Len(tape) - suffix)
        /\ \A k \in 1..(Len(tape) - suffix) : full[(R + Len(out)) + k] = own[suffix + k]
    BY <1>1, <1>6 DEF SameTail
  <2> QED
    BY <1>1, <1>9, <2>1
<1>12. \A k \in 1..(Len(tape) - suffix) : SameSegment(tape[suffix + k], full[R + Len(out) + k])
  <2>1. \A k \in 1..(Len(tape) - suffix) : suffix + k \in 1..Len(tape)
    BY <1>1, <1>2
  <2> QED
    BY <1>2, <1>11, <2>1
<1>13. Assembled(tape, R, suffix, out, full)
  BY <1>2, <1>10, <1>11, <1>12 DEF Assembled
<1> QED
  BY <1>13 DEF out, full

-----------------------------------------------------------------------------
(* Relexing a splice of a document that is the lex of its text *)

\* The tape of a document is the lex of its text from scratch.
Lexed(doc) == FreshLex(doc.text).ok /\ SameSegments(doc.lexical, FreshLex(doc.text).out)

\* A text and what a splice makes of it.
Edits(old, new, splice) ==
  /\ splice.os \in Nat /\ splice.oe \in Int /\ splice.ne \in Int
  /\ splice.os <= splice.oe /\ splice.os <= Len(new)
  /\ Aligned(old, new, splice.oe, Len(new) - Len(old))

\* A sound replay over such a document is the lex of the new text.
LEMMA ReplayExact ==
  ASSUME Placeless, QuietEnd,
         NEW doc, Covers(doc.lexical, doc.text), Lexed(doc),
         NEW text, NEW splice, Edits(doc.text, text, splice), Replay(doc, text, splice).ok,
         SoundReplay(doc, FreshLex(text), Replay(doc, text, splice))
  PROVE  LET r == Replay(doc, text, splice)
         IN Assembled(doc.lexical, r.restart, r.suffix, r.out, FreshLex(text).out)
<1> DEFINE tape == doc.lexical
           old == doc.text
           R == LexicalRankAtByte(tape, splice.os)
           w == [tape |-> tape, oldEnd |-> splice.oe, newEnd |-> splice.ne,
                 shift |-> Len(text) - Len(doc.text)]
           start == [offset |-> LexicalStart(tape, R), stack |-> StackBeforeRank(tape, R)]
           L == LexCont(w, start, text)
           final == IF L.rank # Absent THEN L.rank ELSE ConvergedRank(w, L.s)
           r == Replay(doc, text, splice)
<1>1. r = [ok |-> L.phase = "stopped", out |-> L.out, restart |-> R,
           suffix |-> IF final = Absent THEN Len(tape) ELSE final]
  BY DEF Replay
<1>2. /\ splice.os \in Nat /\ splice.oe \in Int /\ splice.ne \in Int
      /\ splice.os <= splice.oe /\ splice.os <= Len(text) /\ Aligned(old, text, splice.oe, Len(text) - Len(old))
      /\ IsSeq(text) /\ IsSeq(old)
  BY DEF Edits, Aligned
<1>3. /\ Sized(tape) /\ Len(tape) \in Nat /\ Len(text) \in Nat /\ Len(old) \in Nat
      /\ LexicalStart(tape, Len(tape)) = Len(old)
      /\ \A n \in 0..Len(tape) : LexicalStart(tape, n) \in Nat
  BY <1>2, SeqParts, StartSteps, StartTypes DEF Covers
<1>4. Replays(doc, text, r)
  BY <1>2, Replaying
<1>5. /\ R \in 0..Len(tape)
      /\ \A k \in 1..Len(tape) : LexicalStart(tape, k) <= splice.os <=> k <= R
  <2>1. Sized(tape) /\ splice.os \in Int
    BY <1>2, <1>3
  <2> HIDE DEF tape
  <2> QED
    BY <2>1, RankAt
<1>6. SoundReplay(doc, FreshLex(text), r) /\ r.ok /\ Lexed(doc)
  OBVIOUS
<1> HIDE DEF R
<1>7. LexicalStart(tape, R) \in Nat /\ LexicalStart(tape, R) <= splice.os
  <2>1. CASE R = 0
    BY <1>2, <1>3, <2>1, StartSteps
  <2>2. CASE R # 0
    <3>1. R \in 1..Len(tape) /\ R <= R
      BY <1>3, <1>5, <2>2
    <3> QED
      BY <1>3, <1>5, <3>1
  <2> QED
    BY <2>1, <2>2
<1>8. w.tape = tape /\ w.oldEnd = splice.oe /\ w.newEnd = splice.ne /\ w.shift = Len(text) - Len(old)
  OBVIOUS
<1>9. start.offset = LexicalStart(tape, R) /\ start.stack = StackBeforeRank(tape, R)
  OBVIOUS
<1> HIDE DEF w, start
<1>10. WindowOK(w, R) /\ start.offset \in 0..Len(text)
  BY <1>2, <1>3, <1>5, <1>7, <1>8, <1>9 DEF WindowOK
<1> HIDE DEF L
<1>11. L.phase = "stopped"
  <2> HIDE DEF r, final
  <2>1. r.ok = (L.phase = "stopped")
    BY <1>1, Zenon
  <2> QED
    BY <1>6, <2>1, Zenon
<1>12. PICK P : Runs(P, w, R, start, text) /\ P[MaxTurns] = L
  BY <1>3, <1>10, <1>11, ScanRuns DEF L
<1>13. FreshLex(text).ok /\ FreshLex(old).ok /\ SameSegments(tape, FreshLex(old).out)
  BY <1>6 DEF SoundReplay, Lexed
<1>14. PICK F : FreshRuns(F, text) /\ F[MaxTurns].out = FreshLex(text).out
  BY <1>2, <1>13, FreshRunning
<1>15. PICK O : FreshRuns(O, old) /\ O[MaxTurns].out = FreshLex(old).out
  BY <1>2, <1>13, FreshRunning
<1>16. r.restart = R /\ r.out = L.out /\ r.suffix = IF final = Absent THEN Len(tape) ELSE final
  BY <1>1
<1>17. r.suffix \in R..Len(tape)
  BY <1>4, <1>16 DEF Replays
<1>18. /\ R <= Len(F[MaxTurns].out)
       /\ \A k \in 1..R : SameSegment(tape[k], F[MaxTurns].out[k])
       /\ r.suffix = Len(tape) /\ Len(tape) > 0 => tape[Len(tape)].error # "boundary"
  <2>1. r.suffix = Len(tape) /\ tape # <<>> => Last(tape).error # "boundary"
    BY <1>6 DEF SoundReplay
  <2>2. Len(tape) > 0 => tape # <<>>
    BY SeqEmpty
  <2>3. Last(tape) = tape[Len(tape)]
    BY DEF Last
  <2>4. r.restart <= Len(FreshLex(text).out) /\ \A k \in 1..r.restart : SameSegment(tape[k], FreshLex(text).out[k])
    BY <1>6 DEF SoundReplay
  <2> HIDE DEF r, tape
  <2> QED
    BY <1>14, <1>16, <2>1, <2>2, <2>3, <2>4
<1>19. IF P[MaxTurns].rank # Absent THEN Converged(w, P[MaxTurns].s, r.suffix) ELSE r.suffix = Len(tape)
  <2>0. /\ Sized(w.tape) /\ w.shift \in Int /\ L.s.offset \in 0..Len(text) /\ L.s.offset \in Int
        /\ L.rank = Absent => L.s.offset = Len(text)
    <3>1. Scanned(P[MaxTurns], w, R, start.offset, text)
      BY LexerAssumption, <1>12 DEF Runs
    <3> QED
      BY <1>3, <1>8, <1>11, <1>12, <3>1 DEF Scanned
  <2>1. ConvergedRank(w, L.s) # Absent => Converged(w, L.s, ConvergedRank(w, L.s))
    <3> DEFINE at == L.s
    <3>1. Sized(w.tape) /\ w.shift \in Int /\ at.offset \in Int
      BY <2>0
    <3> HIDE DEF at
    <3>2. ConvergedRank(w, at) # Absent => Converged(w, at, ConvergedRank(w, at))
      BY <3>1, ConvergesAt
    <3> QED
      BY <3>2 DEF at
  <2>2. CASE L.rank # Absent
    <3>1. L.rank = ConvergedRank(w, L.s)
      BY <1>12, <2>2, RunConverges
    <3>2. r.suffix = L.rank
      BY <1>16, <2>2
    <3> HIDE DEF r, final
    <3> QED
      BY <1>12, <2>1, <2>2, <3>1, <3>2
  <2>3. CASE L.rank = Absent
    <3>1. final = ConvergedRank(w, L.s)
      BY <2>3
    <3> HIDE DEF final
    <3>2. CASE final = Absent
      BY <1>12, <1>16, <2>3, <3>2
    <3>3. CASE final # Absent
      <4>1. Converged(w, L.s, final) /\ r.suffix = final /\ L.s.offset - w.shift = Len(old)
        <5>1. L.s.offset = Len(text) /\ w.shift = Len(text) - Len(old)
          BY <1>8, <2>0, <2>3
        <5>2. L.s.offset - w.shift = Len(old)
          BY <1>3, <5>1
        <5>3. Converged(w, L.s, final)
          BY <2>1, <3>1, <3>3
        <5>4. r.suffix = final
          <6> HIDE DEF r
          <6> QED
            BY <1>16, <3>3
        <5> QED
          BY <5>2, <5>3, <5>4
      <4>2. Len(tape) > 0 => Len(tape) <= final
        BY <1>3, <1>8, <4>1 DEF Converged
      <4>3. final \in 0..Len(tape)
        BY <1>8, <4>1 DEF Converged
      <4>4. r.suffix = Len(tape)
        BY <1>3, <4>1, <4>2, <4>3
      <4> QED
        BY <1>12, <2>3, <4>4
    <3> QED
      BY <3>2, <3>3
  <2> QED
    BY <2>2, <2>3
<1> HIDE DEF r, tape, old, final
<1>20. Covers(tape, old)
  BY DEF tape, old
<1>21. ReplaySetting(tape, old, text, O, F, P, w, R, start, r.suffix)
  BY <1>2, <1>5, <1>8, <1>9, <1>12, <1>13, <1>14, <1>15, <1>17, <1>18, <1>19, <1>20 DEF ReplaySetting
<1>22. Assembled(tape, R, r.suffix, P[MaxTurns].out, F[MaxTurns].out)
  BY <1>21, Assembling
<1>23. Assembled(tape, r.restart, r.suffix, r.out, FreshLex(text).out)
  BY <1>12, <1>14, <1>16, <1>22
<1> QED
  BY <1>23 DEF r, tape

-----------------------------------------------------------------------------
(* A document after a sound splice *)

\* Entries put into a tape for replayed tokens differ from these in their identity only.
Renames(tokens, out) ==
  /\ IsSeq(tokens) /\ Len(tokens) = Len(out)
  /\ \A k \in 1..Len(out) : SameSegment(tokens[k], out[k])

\* What the relexing of a splice makes of the tape.
Respliced(doc, text, r, d) ==
  /\ r.ok /\ Replays(doc, text, r)
  /\ d.sound = SoundReplay(doc, FreshLex(text), r)
  /\ d.doc.text = text
  /\ \E tokens : /\ Renames(tokens, r.out)
                 /\ d.doc.lexical = ReplaceRange(doc.lexical, r.restart, r.suffix, tokens)

\* A splice replaces the window of its replay by the tokens it found.
LEMMA Resplicing ==
  ASSUME NEW doc, DocumentOK(doc), NEW text, IsSeq(text),
         NEW splice, splice.os \in Nat, splice.oe \in Int, splice.ne \in Int,
         splice.os <= splice.oe, splice.os <= Len(text), RelexSplice(doc, text, splice).ok
  PROVE  Respliced(doc, text, Replay(doc, text, splice), RelexSplice(doc, text, splice))
<1> DEFINE r == Replay(doc, text, splice)
           tape == doc.lexical
           m == r.restart
           n == r.suffix
           W == SubSeq(tape, m + 1, n)
           ids == ReconcileOccurrenceIds(W, r.out, doc.next)
           from == Len(Semantic(SubSeq(tape, 1, m)))
           to == Len(Semantic(SubSeq(tape, 1, n)))
           patch == DirectPatch(doc, W, ids.tokens, from, to)
           new == SplicedDocument(doc, text, r, ids, patch, from, to)
           sound == SoundReplay(doc, FreshLex(text), r)
           R == RelexSplice(doc, text, splice)
<1>1. R = IF ~r.ok THEN [ok |-> FALSE]
          ELSE [ok |-> TRUE, patch |-> patch, sound |-> sound, doc |-> new]
  BY DEF RelexSplice
<1> HIDE DEF new, patch, sound
<1>2. r.ok
  <2> HIDE DEF r, R
  <2>1. CASE ~r.ok
    <3>1. R.ok = FALSE
      BY <1>1, <2>1
    <3>2. R.ok
      BY DEF R
    <3> QED
      BY <3>1, <3>2
  <2> QED
    BY <2>1
<1>3. R.doc = new /\ R.sound = sound
  <2> HIDE DEF r, R
  <2> QED
    BY <1>1, <1>2
<1>4. Replays(doc, text, r)
  BY <1>2, Replaying DEF DocumentOK
<1> HIDE DEF r, R
<1>5. Ided(tape, doc.next) /\ m \in 0..Len(tape) /\ n \in m..Len(tape) /\ IsSeq(r.out)
  BY <1>4 DEF Replays, DocumentOK, Sized
<1> HIDE DEF m, n, tape
<1>6. Ided(W, doc.next)
  BY <1>5, PartIded
<1> HIDE DEF W
<1>7. Numbers(W, r.out, doc.next, ids)
  BY <1>5, <1>6, Reconciling
<1> HIDE DEF ids
<1>8. \A x, id : SameSegment(Identified(x, id), x)
  BY DEF Identified, SameSegment, Segment, Payload
<1>9. ASSUME NEW k \in 1..Len(r.out) PROVE SameSegment(ids.tokens[k], r.out[k])
  <2>1. ids.tokens[k] = Identified(r.out[k], ids.tokens[k].id)
    BY <1>7 DEF Numbers
  <2> QED
    BY <1>8, <2>1, Zenon
<1>10. Renames(ids.tokens, r.out)
  BY <1>7, <1>9 DEF Renames, Numbers, Ided
<1>11. new.lexical = ReplaceRange(tape, m, n, ids.tokens) /\ new.text = text
  BY DEF new, SplicedDocument, tape, m, n
<1>12. Respliced(doc, text, r, R)
  BY <1>2, <1>3, <1>4, <1>10, <1>11, Zenon DEF Respliced, sound, tape, m, n
<1> QED
  BY <1>12 DEF r, R

\* A tape whose window is replaced by what belongs there is the whole lex.
LEMMA AssembledTape ==
  ASSUME NEW tape, IsSeq(tape), NEW R \in 0..Len(tape), NEW suffix \in R..Len(tape),
         NEW out, NEW full, Assembled(tape, R, suffix, out, full), NEW tokens, Renames(tokens, out)
  PROVE  SameSegments(ReplaceRange(tape, R, suffix, tokens), full)
<1> DEFINE t == ReplaceRange(tape, R, suffix, tokens)
<1>1. Replaced(tape, R, suffix, tokens, t)
  BY Replacing DEF Renames
<1> HIDE DEF t
<1>2. Len(tape) \in Nat /\ Len(out) \in Nat /\ Len(tokens) = Len(out) /\ IsSeq(t)
  BY <1>1, SeqParts DEF Renames, Replaced
<1>3. Len(t) = R + Len(out) + (Len(tape) - suffix) /\ Len(full) = Len(t)
  BY <1>1, <1>2 DEF Replaced, Assembled
<1>4. ASSUME NEW k \in 1..Len(t) PROVE SameSegment(t[k], full[k])
  <2>1. CASE k <= R
    <3>1. k \in 1..R /\ t[k] = tape[k] /\ SameSegment(tape[k], full[k])
      BY <1>1, <1>2, <1>3, <2>1 DEF Replaced, Assembled
    <3> QED
      BY <3>1
  <2>2. CASE R < k /\ k <= R + Len(out)
    <3> DEFINE j == k - R
    <3>1. j \in 1..Len(out) /\ k = R + j
      BY <1>2, <1>3, <2>2
    <3> HIDE DEF j
    <3>2. t[R + j] = tokens[j] /\ full[R + j] = out[j] /\ SameSegment(tokens[j], out[j])
      BY <1>1, <1>2, <3>1 DEF Replaced, Assembled, Renames
    <3> QED
      BY <3>1, <3>2
  <2>3. CASE R + Len(out) < k
    <3> DEFINE j == k - (R + Len(out))
    <3>1. j \in 1..(Len(tape) - suffix) /\ k = R + Len(out) + j
      BY <1>2, <1>3, <2>3
    <3> HIDE DEF j
    <3>2. t[R + Len(out) + j] = tape[suffix + j] /\ SameSegment(tape[suffix + j], full[R + Len(out) + j])
      BY <1>1, <1>2, <3>1 DEF Replaced, Assembled
    <3> QED
      BY <3>1, <3>2
  <2> QED
    BY <1>2, <1>3, <2>1, <2>2, <2>3
<1>5. SameSegments(t, full)
  BY <1>3, <1>4 DEF SameSegments
<1> QED
  BY <1>5 DEF t

\* A sound splice of a document that is the lex of its text gives such a document.
LEMMA SpliceLexed ==
  ASSUME Placeless, QuietEnd, NEW doc, DocumentOK(doc), Lexed(doc),
         NEW text, NEW splice, Edits(doc.text, text, splice),
         RelexSplice(doc, text, splice).ok, RelexSplice(doc, text, splice).sound
  PROVE  Lexed(RelexSplice(doc, text, splice).doc)
<1> DEFINE r == Replay(doc, text, splice)
           d == RelexSplice(doc, text, splice)
<1>1. IsSeq(text) /\ Covers(doc.lexical, doc.text)
  BY DEF Edits, Aligned, DocumentOK
<1>2. Respliced(doc, text, r, d)
  BY <1>1, Resplicing DEF Edits
<1>3. r.ok /\ Replays(doc, text, r) /\ SoundReplay(doc, FreshLex(text), r) /\ d.doc.text = text
  <2>1. d.sound
    OBVIOUS
  <2> HIDE DEF d, r
  <2> QED
    BY <1>2, <2>1 DEF Respliced
<1>4. Assembled(doc.lexical, r.restart, r.suffix, r.out, FreshLex(text).out)
  BY <1>1, <1>3, ReplayExact
<1> HIDE DEF d, r
<1>5. PICK tokens : Renames(tokens, r.out) /\ d.doc.lexical = ReplaceRange(doc.lexical, r.restart, r.suffix, tokens)
  BY <1>2 DEF Respliced
<1>6. IsSeq(doc.lexical) /\ r.restart \in 0..Len(doc.lexical) /\ r.suffix \in r.restart..Len(doc.lexical)
  BY <1>1, <1>3 DEF Covers, Sized, Replays
<1>7. SameSegments(d.doc.lexical, FreshLex(text).out)
  BY <1>4, <1>5, <1>6, AssembledTape
<1>8. FreshLex(text).ok
  BY <1>3 DEF SoundReplay
<1>9. Lexed(d.doc)
  BY <1>3, <1>7, <1>8 DEF Lexed
<1> QED
  BY <1>9 DEF d

-----------------------------------------------------------------------------
(* Deriving a document *)

\* A replay depends on the tape and the text of the document only.
LEMMA ReplaySame ==
  ASSUME NEW c, NEW d, c.lexical = d.lexical, c.text = d.text, NEW text, NEW s, NEW t,
         s.os = t.os, s.oe = t.oe, s.ne = t.ne
  PROVE  Replay(c, text, s) = Replay(d, text, t)
BY DEF Replay

\* The first splice of a new document is a lex from scratch.
LEMMA FirstSplice ==
  ASSUME NEW doc, NEW id, doc = EmptyDocument(id), NEW text, IsSeq(text),
         NEW splice, splice.os = 0, splice.oe = 0, splice.ne = Len(text),
         RelexSplice(doc, text, splice).ok, RelexSplice(doc, text, splice).sound
  PROVE  Lexed(RelexSplice(doc, text, splice).doc)
<1> DEFINE r == Replay(doc, text, splice)
           d == RelexSplice(doc, text, splice)
           fresh == EmptyDocument(Absent)
           whole == [os |-> 0, oe |-> 0, ns |-> 0, ne |-> Len(text)]
<1>1. DocumentOK(doc) /\ doc.lexical = <<>> /\ doc.text = <<>> /\ fresh.lexical = <<>> /\ fresh.text = <<>>
  BY EmptyOK DEF EmptyDocument
<1>2. Len(text) \in Nat /\ whole.os = 0 /\ whole.oe = 0 /\ whole.ne = Len(text)
  BY SeqParts
<1>3. r = FreshLex(text)
  <2>1. FreshLex(text) = Replay(fresh, text, whole)
    BY DEF FreshLex
  <2> HIDE DEF fresh, whole
  <2> QED
    BY <1>1, <1>2, <2>1, ReplaySame
<1>4. Respliced(doc, text, r, d)
  <2>1. splice.os \in Nat /\ splice.oe \in Int /\ splice.ne \in Int /\ splice.os <= splice.oe /\ splice.os <= Len(text)
    BY <1>2
  <2> QED
    BY <1>1, <2>1, Resplicing
<1>5. d.sound
  OBVIOUS
<1> HIDE DEF r, d, fresh, whole
<1>6. PICK tokens : Renames(tokens, r.out) /\ d.doc.lexical = ReplaceRange(doc.lexical, r.restart, r.suffix, tokens)
  BY <1>4 DEF Respliced
<1>7. FreshLex(text).ok /\ d.doc.text = text /\ Replays(doc, text, r)
  BY <1>4, <1>5 DEF Respliced, SoundReplay
<1>8. IsSeq(doc.lexical) /\ Len(doc.lexical) = 0
  BY <1>1, SeqEmpty
<1>9. r.restart = 0 /\ r.suffix = 0 /\ Len(r.out) \in Nat
  BY <1>7, <1>8, SeqParts DEF Replays, Sized
<1>10. Assembled(doc.lexical, 0, 0, r.out, r.out)
  BY <1>8, <1>9 DEF Assembled
<1>11. SameSegments(d.doc.lexical, r.out)
  <2>1. 0 \in 0..Len(doc.lexical)
    BY <1>8
  <2>2. d.doc.lexical = ReplaceRange(doc.lexical, 0, 0, tokens)
    BY <1>6, <1>9
  <2> QED
    BY <1>6, <1>8, <1>10, <2>1, <2>2, AssembledTape
<1>12. Lexed(d.doc)
  BY <1>3, <1>7, <1>11 DEF Lexed
<1> QED
  BY <1>12 DEF d

\* The text behind a replaced range moves by the difference in length.
LEMMA EditedText ==
  ASSUME NEW old, IsSeq(old), NEW ins, IsSeq(ins), NEW a \in 0..Len(old), NEW b \in a..Len(old),
         NEW splice, splice.os = a, splice.oe = b, splice.ne = a + Len(ins)
  PROVE  Edits(old, ReplaceRange(old, a, b, ins), splice)
<1> DEFINE new == ReplaceRange(old, a, b, ins)
           d == Len(ins) - (b - a)
<1>1. Replaced(old, a, b, ins, new)
  BY Replacing
<1> HIDE DEF new
<1>2. /\ Len(old) \in Nat /\ Len(ins) \in Nat /\ IsSeq(new) /\ Len(new) = Len(old) - (b - a) + Len(ins)
      /\ \A k \in 1..(Len(old) - b) : new[a + Len(ins) + k] = old[b + k]
  BY <1>1, SeqParts DEF Replaced
<1>3. a \in Nat /\ b \in Nat /\ a <= b /\ b <= Len(old) /\ Len(new) - Len(old) = d /\ d \in Int
  BY <1>2
<1>4. ASSUME NEW k \in (b + 1)..Len(old) PROVE new[k + d] = old[k]
  <2> DEFINE j == k - b
  <2>1. j \in 1..(Len(old) - b) /\ a + Len(ins) + j = k + d /\ b + j = k
    BY <1>2, <1>3
  <2> HIDE DEF j, d
  <2> QED
    BY <1>2, <2>1
<1>5. Aligned(old, new, b, d)
  <2>1. Len(new) = Len(old) + d /\ b \in 0..Len(old) /\ 0 <= b + d
    BY <1>2, <1>3
  <2> QED
    BY <1>2, <1>3, <1>4, <2>1 DEF Aligned
<1>6. splice.os \in Nat /\ splice.oe \in Int /\ splice.ne \in Int /\ splice.os <= splice.oe /\ splice.os <= Len(new)
  BY <1>2, <1>3
<1>7. Edits(old, new, splice)
  BY <1>3, <1>5, <1>6 DEF Edits
<1> QED
  BY <1>7 DEF new

\* A document that is the lex of its text, unless a splice was not sound, or a new
\* one, of which splice s gives the text.
Ready(d, s) ==
  \/ d.sound => Lexed(d.doc)
  \/ /\ \E id : d.doc = EmptyDocument(id)
     /\ d.shift = 0 /\ s.os = 0 /\ s.oe = 0

\* One splice of a revision.
LEMMA LexedStep ==
  ASSUME Placeless, QuietEnd,
         NEW doc, DocumentOK(doc), NEW source, IsSeq(source), NEW splices, IsSeq(splices),
         ValidateSourceDelta(doc.text, source, splices), NEW n \in 1..Len(splices),
         NEW d, d.ok, Derives(doc, source, splices, n - 1, d), Ready(d, splices[n]),
         NEW e, e.splice = splices[n], e.source = source,
         DeriveSplice(d, e).ok, DeriveSplice(d, e).sound
  PROVE  Lexed(DeriveSplice(d, e).doc)
<1> DEFINE s == splices[n]
           ins == Lexeme(source, s.ns, s.ne)
           start == s.os + d.shift
           text == ReplaceRange(d.doc.text, start, s.oe + d.shift, ins)
           ev == [os |-> start, oe |-> s.oe + d.shift, ns |-> start, ne |-> start + Len(ins)]
           r == RelexSplice(d.doc, text, ev)
           D == DeriveSplice(d, e)
<1>1. D = IF ~r.ok THEN [ok |-> FALSE]
          ELSE [ok |-> TRUE, sound |-> d.sound /\ r.sound, doc |-> r.doc,
                patch |-> Absorb(d.patch, r.patch),
                shift |-> d.shift + Len(ins) - (s.oe - s.os)]
  <2> HIDE DEF r
  <2> QED
    BY DEF DeriveSplice, r
<1>2. IsSeq(doc.text) /\ IsSeq(d.doc.text) /\ DocumentOK(d.doc) /\ d.shift \in Int
  BY DEF Derives, DocumentOK, Covers
<1>3. /\ IsSeq(ins) /\ Len(ins) \in Nat /\ s.os \in Nat /\ s.oe \in Nat
      /\ s.oe <= Len(doc.text) /\ s.os <= s.oe /\ s.os + d.shift >= 0
  <2>1. OldEnd(splices, n - 1) + d.shift >= 0
    BY DEF Derives
  <2> QED
    BY <1>2, <2>1, SpliceRange
<1>4. D.ok /\ D.sound /\ Ready(d, s)
  OBVIOUS
<1> HIDE DEF r, D, s
<1>5. r.ok
  <2>1. CASE ~r.ok
    <3>1. D.ok = FALSE
      BY <1>1, <2>1
    <3> QED
      BY <1>4, <3>1
  <2> QED
    BY <2>1
<1>6. D.doc = r.doc /\ d.sound /\ r.sound
  <2>1. D.doc = r.doc /\ D.sound = (d.sound /\ r.sound)
    BY <1>1, <1>5, Zenon
  <2> QED
    BY <1>4, <2>1, Zenon
<1>7. PICK a \in Nat : a = start
  BY <1>2, <1>3
<1>8. PICK b \in Nat : b = s.oe + d.shift
  BY <1>2, <1>3
<1>9. a \in 0..Len(d.doc.text) /\ b \in a..Len(d.doc.text)
  <2>1. Len(d.doc.text) = Len(doc.text) + d.shift /\ Len(doc.text) \in Nat
    BY <1>2, SeqParts DEF Derives
  <2>2. a = s.os + d.shift
    BY <1>7
  <2> HIDE DEF start
  <2>3. a <= b
    BY <1>2, <1>3, <1>8, <2>2
  <2>4. b <= Len(d.doc.text)
    BY <1>2, <1>3, <1>8, <2>1
  <2> QED
    BY <1>2, <2>3, <2>4, SeqParts
<1>10. text = ReplaceRange(d.doc.text, a, b, ins) /\ ev.os = a /\ ev.oe = b /\ ev.ne = a + Len(ins)
  BY <1>7, <1>8
<1> HIDE DEF text, ev, ins, start
<1>11. Edits(d.doc.text, text, ev)
  <2>1. Edits(d.doc.text, ReplaceRange(d.doc.text, a, b, ins), ev)
    BY <1>2, <1>3, <1>9, <1>10, EditedText
  <2> QED
    BY <1>10, <2>1
<1>12. CASE d.sound => Lexed(d.doc)
  <2>1. Lexed(RelexSplice(d.doc, text, ev).doc)
    <3> DEFINE x == d.doc
    <3>1. DocumentOK(x) /\ Lexed(x) /\ Edits(x.text, text, ev) /\ RelexSplice(x, text, ev).ok /\ RelexSplice(x, text, ev).sound
      BY <1>2, <1>5, <1>6, <1>11, <1>12 DEF r
    <3> HIDE DEF x
    <3>2. Lexed(RelexSplice(x, text, ev).doc)
      BY <3>1, SpliceLexed
    <3> QED
      BY <3>2 DEF x
  <2> QED
    BY <1>6, <2>1 DEF r, D
<1>13. CASE ~(d.sound => Lexed(d.doc))
  <2>1. PICK id : d.doc = EmptyDocument(id)
    BY <1>4, <1>13 DEF Ready
  <2>2. d.shift = 0 /\ s.os = 0 /\ s.oe = 0
    BY <1>4, <1>13 DEF Ready
  <2>3. a = 0 /\ b = 0
    BY <1>7, <1>8, <2>2 DEF start
  <2>4. Replaced(d.doc.text, a, b, ins, text)
    BY <1>2, <1>3, <1>9, <1>10, Replacing
  <2>5. d.doc.text = <<>> /\ Len(d.doc.text) = 0
    BY <2>1, SeqEmpty DEF EmptyDocument
  <2>6. IsSeq(text) /\ Len(text) = Len(ins)
    BY <1>3, <2>3, <2>4, <2>5 DEF Replaced
  <2>7. ev.os = 0 /\ ev.oe = 0 /\ ev.ne = Len(text)
    BY <1>3, <1>10, <2>3, <2>6
  <2>8. Lexed(RelexSplice(d.doc, text, ev).doc)
    <3> DEFINE x == d.doc
    <3>1. x = EmptyDocument(id) /\ RelexSplice(x, text, ev).ok /\ RelexSplice(x, text, ev).sound
      BY <1>5, <1>6, <2>1 DEF r
    <3> HIDE DEF x
    <3>2. Lexed(RelexSplice(x, text, ev).doc)
      BY <2>6, <2>7, <3>1, FirstSplice
    <3> QED
      BY <3>2 DEF x
  <2> QED
    BY <1>6, <2>8 DEF r, D
<1> QED
  BY <1>12, <1>13

\* A document derived from one that is the lex of its text, or from a new one.
Lexable(doc, splices) ==
  \/ Lexed(doc)
  \/ /\ \E id : doc = EmptyDocument(id)
     /\ Len(splices) = 1 /\ splices[1].os = 0 /\ splices[1].oe = 0

\* The splices of a revision, if each was sound.
LEMMA LexedSplices ==
  ASSUME Placeless, QuietEnd,
         NEW doc, DocumentOK(doc), NEW source, IsSeq(source), NEW splices, IsSeq(splices),
         ValidateSourceDelta(doc.text, source, splices), Lexable(doc, splices),
         NEW structure, structure = doc.structure,
         NEW d0, d0 = [ok |-> TRUE, sound |-> TRUE, doc |-> doc, patch |-> NewPatch(structure), shift |-> 0],
         NEW es, es = [k \in DOMAIN splices |-> [splice |-> splices[k], source |-> source]],
         Derivation!After(d0, es).ok, Derivation!After(d0, es).sound
  PROVE  Lexed(Derivation!After(d0, es).doc)
<1> DEFINE A == Derivation!States(d0, es)
           N == Len(splices)
           S == {n \in Nat : n <= N /\ A[n].ok /\ A[n].sound => Lexed(A[n].doc) \/ (n = 0 /\ ~Lexed(doc))}
<1>0. N \in Nat /\ DOMAIN splices = 1..N
  BY SeqParts
<1>1. Len(es) = N /\ \A n \in 1..N : es[n].splice = splices[n] /\ es[n].source = source
  BY <1>0
<1>2. A[0] = d0 /\ \A n \in 1..N : A[n] = DeriveSplice(A[n - 1], es[n])
  <2>1. Len(es) \in Nat
    BY <1>0, <1>1
  <2>2. A[0] = d0 /\ \A n \in 1..Len(es) : A[n] = DeriveSplice(A[n - 1], es[n])
    BY <2>1, Derivation!Iterates
  <2> QED
    BY <1>1, <2>2
<1>3. /\ Derivation!After(d0, es) = A[N]
      /\ \A n \in 0..N : A[n].ok => Derives(doc, source, splices, n, A[n])
  BY Deriving
<1>4. d0.doc = doc /\ d0.shift = 0
  OBVIOUS
<1>5. A[N].ok /\ A[N].sound
  BY <1>3
<1> HIDE DEF A
<1>6. 0 \in S
  BY <1>2, <1>4
<1>7. ASSUME NEW n \in Nat, n \in S PROVE n + 1 \in S
  <2> SUFFICES ASSUME n + 1 <= N, A[n + 1].ok, A[n + 1].sound
               PROVE  Lexed(A[n + 1].doc)
    OBVIOUS
  <2> DEFINE i == n + 1
             d == A[n]
             e == es[n + 1]
  <2>1. i \in 1..N /\ i - 1 = n /\ n \in 0..N /\ n <= N
    BY <1>0
  <2>2. A[i] = DeriveSplice(d, e)
    <3> HIDE DEF i, e
    <3>1. A[i] = DeriveSplice(A[i - 1], es[i])
      BY <1>2, <2>1
    <3>2. e = es[i] /\ d = A[i - 1]
      BY <2>1 DEF e, i
    <3> HIDE DEF d
    <3> QED
      BY <3>1, <3>2, Zenon
  <2>3. A[i].ok /\ A[i].sound
    OBVIOUS
  <2>4. d.ok
    <3>1. CASE ~d.ok
      <4>1. A[i] = d
        <5> HIDE DEF i, d, e
        <5> QED
          BY <2>2, <3>1 DEF DeriveSplice
      <4> QED
        BY <2>3, <3>1, <4>1
    <3> QED
      BY <3>1
  <2>5. Derives(doc, source, splices, n, d)
    BY <1>3, <2>1, <2>4
  <2>6. e.splice = splices[i] /\ e.source = source
    BY <1>1, <2>1
  <2>7. n = 0 /\ ~Lexed(doc) => /\ \E id : d.doc = EmptyDocument(id)
                                /\ d.shift = 0 /\ splices[i].os = 0 /\ splices[i].oe = 0
    BY <1>2, <1>4 DEF Lexable
  <2>8. d.sound => Lexed(d.doc) \/ (n = 0 /\ ~Lexed(doc))
    BY <1>7, <2>1, <2>4
  <2> HIDE DEF i, d, e
  <2>9. Ready(d, splices[i])
    BY <2>7, <2>8 DEF Ready
  <2>10. Derives(doc, source, splices, i - 1, d) /\ DeriveSplice(d, e).ok /\ DeriveSplice(d, e).sound
    BY <2>1, <2>2, <2>3, <2>5
  <2>11. Lexed(DeriveSplice(d, e).doc)
    BY <2>1, <2>4, <2>6, <2>9, <2>10, LexedStep
  <2>12. Lexed(A[i].doc)
    BY <2>2, <2>11
  <2> QED
    BY <2>12 DEF i
<1>8. \A n \in Nat : n \in S
  <2> HIDE DEF S
  <2> QED
    BY <1>6, <1>7, Refs!SetInduction
<1>9. Lexed(A[N].doc) \/ (N = 0 /\ ~Lexed(doc))
  BY <1>0, <1>5, <1>8
<1>10. N = 0 => Lexed(doc)
  BY DEF Lexable
<1> QED
  BY <1>3, <1>9, <1>10

\* A revision whose splices were sound gives a document that is the lex of its
\* text, if the one before was, or if there was none.
LEMMA LexedRevision ==
  ASSUME Placeless, QuietEnd, NEW latest, NEW u, NEW revision, IsSeq(revision.text),
         revision.previous # Absent =>
           IsSeq(revision.splices) /\ (u \in DOMAIN latest => DocumentOK(latest[u]) /\ Lexed(latest[u])),
         DeriveDocument(latest, u, revision).outcome = "ok", DeriveDocument(latest, u, revision).sound
  PROVE  Lexed(DeriveDocument(latest, u, revision).doc)
<1> DEFINE fresh    == revision.previous = Absent
           stale    == ~fresh /\ (\/ u \notin DOMAIN latest
                                  \/ latest[u].id # revision.document
                                  \/ latest[u].source # revision.previous)
           doc      == Previous(latest, u, revision)
           splices  == SplicesOf(revision)
           source   == revision.text
           structure == doc.structure
           d0 == [ok |-> TRUE, sound |-> TRUE, doc |-> doc, patch |-> NewPatch(structure), shift |-> 0]
           es == [k \in DOMAIN splices |-> [splice |-> splices[k], source |-> source]]
           d  == Derivation!After(d0, es)
           patch == Freeze(d.patch, d.doc.structure)
           R == DeriveDocument(latest, u, revision)
<1>1. R = IF stale THEN [outcome |-> "stale"]
          ELSE IF ~ValidateSourceDelta(doc.text, revision.text, splices) THEN [outcome |-> "failed"]
          ELSE IF d.ok THEN [outcome |-> "ok", patch |-> patch, sound |-> d.sound,
                             doc |-> Finished(d.doc, revision, patch)]
          ELSE [outcome |-> "failed"]
  BY DEF DeriveDocument, Previous, SplicesOf
<1>2. R.outcome = "ok" /\ R.sound
  OBVIOUS
<1> HIDE DEF R, d, patch
<1>3. /\ ~stale /\ ValidateSourceDelta(doc.text, source, splices) /\ d.ok
      /\ d.sound /\ R.doc = Finished(d.doc, revision, patch)
  <2> HIDE DEF stale, doc, splices
  <2>1. CASE stale
    BY <1>1, <1>2, <2>1
  <2>2. CASE ~ValidateSourceDelta(doc.text, revision.text, splices)
    BY <1>1, <1>2, <2>1, <2>2
  <2>3. CASE ~d.ok
    BY <1>1, <1>2, <2>1, <2>2, <2>3
  <2>4. R = [outcome |-> "ok", patch |-> patch, sound |-> d.sound, doc |-> Finished(d.doc, revision, patch)]
    BY <1>1, <2>1, <2>2, <2>3
  <2>5. R.sound = d.sound /\ R.doc = Finished(d.doc, revision, patch)
    BY <2>4, Zenon
  <2>6. d.sound
    BY <1>2, <2>5, Zenon
  <2> QED
    BY <2>1, <2>2, <2>3, <2>5, <2>6
<1>4. DocumentOK(doc) /\ Lexable(doc, splices) /\ IsSeq(splices)
  <2>1. CASE fresh
    <3> DEFINE s == [os |-> 0, oe |-> 0, ns |-> 0, ne |-> Len(revision.text)]
    <3>1. doc = EmptyDocument(revision.document)
      BY <2>1 DEF Previous
    <3>2. splices = <<s>>
      BY <2>1 DEF SplicesOf
    <3>3. s.os = 0 /\ s.oe = 0
      OBVIOUS
    <3> HIDE DEF doc, splices, s
    <3>4. DocumentOK(doc)
      BY <3>1, EmptyOK
    <3>5. IsSeq(splices) /\ Len(splices) = 1 /\ splices[1] = s
      <4>1. \A x : IsSeq(<<x>>)
        BY DEF IsSeq, Range
      <4> QED
        BY <3>2, <4>1
    <3> QED
      BY <3>1, <3>3, <3>4, <3>5 DEF Lexable
  <2>2. CASE ~fresh
    <3>1. u \in DOMAIN latest /\ doc = latest[u] /\ splices = revision.splices
      BY <1>3, <2>2 DEF Previous, SplicesOf
    <3> HIDE DEF doc, splices
    <3> QED
      BY <2>2, <3>1 DEF Lexable
  <2> QED
    BY <2>1, <2>2
<1> HIDE DEF doc, splices, stale
<1>5. Lexed(d.doc)
  <2>1. /\ d0 = [ok |-> TRUE, sound |-> TRUE, doc |-> doc, patch |-> NewPatch(structure), shift |-> 0]
        /\ structure = doc.structure
    OBVIOUS
  <2>2. es = [k \in DOMAIN splices |-> [splice |-> splices[k], source |-> source]]
    OBVIOUS
  <2> HIDE DEF d0, es
  <2>3. Derivation!After(d0, es).ok /\ Derivation!After(d0, es).sound /\ IsSeq(source)
    BY <1>3 DEF d
  <2>4. ValidateSourceDelta(doc.text, source, splices)
    BY <1>3
  <2> HIDE DEF source, structure
  <2>5. Lexed(Derivation!After(d0, es).doc)
    BY <1>4, <2>1, <2>2, <2>3, <2>4, LexedSplices
  <2> QED
    BY <2>5 DEF d
<1>6. R.doc.text = d.doc.text /\ R.doc.lexical = d.doc.lexical
  BY <1>3 DEF Finished
<1>7. Lexed(R.doc)
  BY <1>5, <1>6 DEF Lexed
<1> QED
  BY <1>7 DEF R

-----------------------------------------------------------------------------
(* The pipeline *)

\* The open documents whose replays were all sound are the lexes of their texts.
Exactly(p) ==
  /\ DOMAIN p.exact = Uris /\ DOMAIN p.layouts \subseteq Uris
  /\ \A v \in DOMAIN p.layouts : p.exact[v] => Lexed(p.layouts[v])

\* A run of a component keeps this.
LEMMA RunExact ==
  ASSUME Placeless, QuietEnd, NEW p, p.outcome = "ok", Good(p), Exactly(p),
         NEW u \in Uris, NEW rev, Revises(p.revisions, u, rev),
         RunDocument(p, u, rev).outcome = "ok"
  PROVE  Exactly(RunDocument(p, u, rev))
<1> DEFINE d == DeriveDocument(p.machine, u, rev)
           q == RunDocument(p, u, rev)
           ex == [p.exact EXCEPT ![u] = d.sound /\ (rev.previous # Absent => @)]
<1>1. /\ d.outcome # "ok" => q.outcome = d.outcome
      /\ d.outcome = "ok" => q.layouts = With(p.layouts, u, d.doc) /\ q.exact = ex
  BY RunParts
<1>2. q.outcome = "ok" /\ DOMAIN p.exact = Uris
  BY DEF Exactly
<1>3. u \in DOMAIN p.revisions =>
        u \in DOMAIN p.layouts /\ Attached(u, p.revisions[u], p.layouts[u], p.semantics[u])
  BY DEF Good
<1>4. u \in DOMAIN p.revisions => rev.previous = p.layouts[u].source
  BY <1>3 DEF Revises, Attached
<1>5. DOMAIN ex = Uris /\ ex[u] = (d.sound /\ (rev.previous # Absent => p.exact[u]))
      /\ \A v \in Uris : v # u => ex[v] = p.exact[v]
  <2> DEFINE b == d.sound /\ (rev.previous # Absent => p.exact[u])
  <2>1. ex = [p.exact EXCEPT ![u] = b]
    BY Zenon
  <2> HIDE DEF b, ex
  <2>2. DOMAIN ex = Uris /\ ex[u] = b /\ \A v \in Uris : v # u => ex[v] = p.exact[v]
    BY <1>2, <2>1
  <2> QED
    BY <2>2, Zenon DEF b
<1> HIDE DEF q, ex
<1>6. d.outcome = "ok" /\ q.layouts = With(p.layouts, u, d.doc) /\ q.exact = ex
  <2> HIDE DEF d
  <2> QED
    BY <1>1, <1>2
<1>7. ASSUME ex[u] PROVE Lexed(d.doc)
  <2>1. d.sound /\ (rev.previous # Absent => p.exact[u])
    BY <1>5, <1>7, Zenon
  <2>2. rev.previous # Absent => u \in DOMAIN p.revisions
    BY DEF Revises
  <2>3. rev.previous # Absent => DocumentOK(p.layouts[u]) /\ Lexed(p.layouts[u])
    BY <1>3, <2>1, <2>2 DEF Attached, Exactly
  <2>4. rev.previous # Absent => u \in DOMAIN p.machine /\ p.machine[u].source = rev.previous
    BY <1>6, NotStale
  <2>5. rev.previous # Absent => p.machine[u] = p.layouts[u]
    BY <1>3, <1>4, <2>2, <2>4 DEF Good, Keeps
  <2>6. IsSeq(rev.text) /\ (rev.previous # Absent => IsSeq(rev.splices))
    BY <2>2 DEF Revises, Laid
  <2> DEFINE latest == p.machine
  <2>7. /\ rev.previous # Absent =>
             IsSeq(rev.splices) /\ (u \in DOMAIN latest => DocumentOK(latest[u]) /\ Lexed(latest[u]))
        /\ DeriveDocument(latest, u, rev).outcome = "ok" /\ DeriveDocument(latest, u, rev).sound
    BY <1>6, <2>1, <2>3, <2>5, <2>6
  <2> HIDE DEF latest
  <2>8. Lexed(DeriveDocument(latest, u, rev).doc)
    BY <2>6, <2>7, LexedRevision
  <2> QED
    BY <2>8 DEF latest
<1>8. ASSUME NEW v \in DOMAIN q.layouts, q.exact[v] PROVE Lexed(q.layouts[v])
  <2> HIDE DEF d
  <2>1. CASE v = u
    <3>1. q.layouts[v] = d.doc
      BY <1>6, <2>1 DEF With
    <3> QED
      BY <1>6, <1>7, <1>8, <2>1, <3>1
  <2>2. CASE v # u
    <3>1. v \in DOMAIN p.layouts /\ q.layouts[v] = p.layouts[v]
      BY <1>6, <2>2 DEF With
    <3>2. v \in Uris => p.exact[v]
      BY <1>5, <1>6, <1>8, <2>2
    <3>3. v \in Uris
      BY <3>1 DEF Exactly
    <3> QED
      BY <3>1, <3>2, <3>3 DEF Exactly
  <2> QED
    BY <2>1, <2>2
<1>9. DOMAIN q.layouts \subseteq Uris
  BY <1>6 DEF With, Exactly
<1>10. Exactly(q)
  BY <1>5, <1>6, <1>8, <1>9 DEF Exactly
<1> QED
  BY <1>10 DEF q

\* The components of a command, one after the other.
LEMMA ComponentsExact ==
  ASSUME Placeless, QuietEnd, NEW s, Good(s), s.outcome = "ok", Exactly(s),
         NEW sequence, Distinct(sequence), NEW next, DOMAIN next \subseteq Uris,
         \A u \in DOMAIN next : Revises(s.revisions, u, next[u]),
         NEW es, es = [k \in DOMAIN sequence |-> [uri |-> sequence[k], next |-> next]],
         Components!After(s, es).outcome = "ok"
  PROVE  Exactly(Components!After(s, es))
<1> DEFINE P(n) == Components!States(s, es)[n]
           N == Len(sequence)
           S == {n \in Nat : n <= N /\ P(n).outcome = "ok" => Exactly(P(n))}
<1>1. N \in Nat /\ DOMAIN sequence = 1..N
  BY SeqParts DEF Distinct
<1>2. Len(es) = N /\ \A k \in 1..N : es[k].uri = sequence[k] /\ es[k].next = next
  BY <1>1
<1>3. Components!After(s, es) = P(N) /\ \A n \in 0..N : Reached(s, next, Ran(sequence, next, n), P(n))
  BY Commanding
<1>4. /\ P(0) = s
      /\ \A n \in 1..N : P(n) = RunComponent(P(n - 1), es[n])
  BY <1>1, <1>2, Components!Iterates
<1> HIDE DEF P
<1>5. 0 \in S
  BY <1>4
<1>6. ASSUME NEW n \in Nat, n \in S PROVE n + 1 \in S
  <2> SUFFICES ASSUME n + 1 <= N, P(n + 1).outcome = "ok" PROVE Exactly(P(n + 1))
    OBVIOUS
  <2> DEFINE m == n + 1
             u == sequence[m]
             ran == Ran(sequence, next, n)
             p == P(n)
  <2>1. m \in 1..N /\ m - 1 = n /\ n \in 0..N /\ n <= N /\ P(m).outcome = "ok"
    BY <1>1
  <2>2. \A k \in 1..n : sequence[k] # sequence[m]
    BY <1>1, <2>1 DEF Distinct
  <2> HIDE DEF m
  <2>3. P(m) = RunComponent(P(n), es[m])
    <3>1. P(m) = RunComponent(P(m - 1), es[m])
      BY <1>4, <2>1, Zenon
    <3> QED
      BY <2>1, <3>1, Zenon
  <2>4. Reached(s, next, ran, p) /\ (p.outcome = "ok" => Exactly(p))
    BY <1>3, <1>6, <2>1
  <2>5. CASE u \notin DOMAIN next
    <3>1. P(m) = p
      BY <1>2, <2>1, <2>3, <2>5 DEF RunComponent
    <3> QED
      BY <2>1, <2>4, <3>1 DEF m
  <2>6. CASE u \in DOMAIN next
    <3>1. P(m) = RunDocument(p, u, next[u])
      BY <1>2, <2>1, <2>3, <2>6 DEF RunComponent
    <3>2. u \notin ran
      BY <2>2 DEF Ran
    <3> HIDE DEF p, u, ran
    <3>3. p.outcome = "ok"
      <4>1. CASE p.outcome # "ok"
        <5>1. P(m) = p
          BY <3>1, <4>1, Zenon DEF RunDocument
        <5> QED
          BY <2>1, <4>1, <5>1
      <4> QED
        BY <4>1
    <3>4. Good(p) /\ Moved(s, next, ran, p) /\ Exactly(p)
      BY <2>4, <3>3 DEF Reached
    <3>5. /\ u \in DOMAIN p.revisions <=> u \in DOMAIN s.revisions
          /\ u \in DOMAIN s.revisions => p.revisions[u] = s.revisions[u]
      BY <3>2, <3>4 DEF Moved
    <3>6. Revises(p.revisions, u, next[u]) /\ u \in Uris
      BY <2>6, <3>5 DEF Revises
    <3>7. Exactly(RunDocument(p, u, next[u]))
      <4> DEFINE rev == next[u]
      <4>1. Revises(p.revisions, u, rev) /\ RunDocument(p, u, rev).outcome = "ok"
        BY <2>1, <3>1, <3>6
      <4> HIDE DEF rev
      <4>2. Exactly(RunDocument(p, u, rev))
        BY <3>3, <3>4, <3>6, <4>1, RunExact
      <4> QED
        BY <4>2 DEF rev
    <3> QED
      BY <3>1, <3>7 DEF m
  <2> QED
    BY <2>5, <2>6
<1>7. \A n \in Nat : n \in S
  <2> HIDE DEF S
  <2> QED
    BY <1>5, <1>6, Refs!SetInduction
<1>8. P(N).outcome = "ok"
  BY <1>3
<1> QED
  BY <1>1, <1>3, <1>7, <1>8

\* A whole command, whether it fails or not.
LEMMA CommandExact ==
  ASSUME Placeless, QuietEnd, Good(Here), Distinct(order), Exactly(Here),
         NEW next, Commanded(next)
  PROVE  Exactly(Here')
<1> DEFINE sequence == order \o SetToSeq(DOMAIN next \ Range(order))
           es == [k \in DOMAIN sequence |-> [uri |-> sequence[k], next |-> next]]
           p == Components!After(Here, es)
<1>1. Distinct(sequence)
  BY Sequencing DEF Commanded
<1>2. /\ p.outcome = "ok" => layouts' = p.layouts /\ exact' = p.exact
      /\ p.outcome # "ok" => layouts' = layouts /\ exact' = exact
  BY Zenon DEF Commanded, RunCommand, Here, published
<1>3. /\ Here.revisions = revisions /\ Here.layouts = layouts /\ Here.outcome = "ok" /\ Here.exact = exact
      /\ Here'.layouts = layouts' /\ Here'.exact = exact'
  BY Zenon DEF Here
<1>4. es = [k \in DOMAIN sequence |-> [uri |-> sequence[k], next |-> next]]
  OBVIOUS
<1> HIDE DEF sequence, es
<1>5. DOMAIN next \subseteq Uris /\ \A u \in DOMAIN next : Revises(Here.revisions, u, next[u])
  BY <1>3 DEF Commanded
<1>6. p.outcome = "ok" => Exactly(p)
  BY <1>1, <1>3, <1>4, <1>5, ComponentsExact
<1> HIDE DEF p
<1> QED
  BY <1>2, <1>3, <1>6 DEF Exactly

\* Tapes and history that do not change.
LEMMA IdleExact ==
  ASSUME Exactly(Here), layouts' = layouts, exact' = exact
  PROVE  Exactly(Here')
<1>1. /\ Here.layouts = layouts /\ Here.exact = exact
      /\ Here'.layouts = layouts' /\ Here'.exact = exact'
  BY Zenon DEF Here
<1> QED
  BY <1>1 DEF Exactly

\* Closing a document.
LEMMA CloseExact ==
  ASSUME Exactly(Here), NEW u \in Uris, Close(u)
  PROVE  Exactly(Here')
<1>1. /\ Here.layouts = layouts /\ Here.exact = exact
      /\ Here'.layouts = layouts' /\ Here'.exact = exact'
  BY Zenon DEF Here
<1>2. layouts' = Without(layouts, u) /\ exact' = exact
  BY Zenon DEF Close
<1>3. /\ DOMAIN layouts' \subseteq DOMAIN layouts
      /\ \A v \in DOMAIN layouts' : layouts'[v] = layouts[v]
  BY <1>2, Zenon DEF Without
<1> QED
  BY <1>1, <1>2, <1>3 DEF Exactly

\* A document that is the lex of its text matches it.
LEMMA LexedMatches ==
  ASSUME NEW doc, DocumentOK(doc), Lexed(doc)
  PROVE  MatchesFreshLex(doc)
<1> DEFINE fresh == FreshLex(doc.text).out
<1>1. IsSeq(doc.text) /\ FreshLex(doc.text).ok /\ SameSegments(doc.lexical, fresh)
  BY DEF DocumentOK, Covers, Lexed
<1>2. PICK L : FreshRuns(L, doc.text) /\ L[MaxTurns].out = fresh
  BY <1>1, FreshRunning
<1>3. IsSeq(fresh)
  BY <1>2, LexerAssumption DEF FreshRuns, Runs, Scanned, Sized
<1>4. IsSeq(doc.lexical)
  BY DEF DocumentOK, Ided
<1> HIDE DEF fresh
<1>5. Len(fresh) = Len(doc.lexical) /\ DOMAIN fresh = 1..Len(doc.lexical)
  BY <1>1, <1>3, SeqParts DEF SameSegments
<1>6. \A k \in DOMAIN fresh : SameSegment(fresh[k], doc.lexical[k])
  BY <1>1, <1>5 DEF SameSegments, SameSegment
<1> QED
  BY <1>5, <1>6 DEF MatchesFreshLex, fresh

-----------------------------------------------------------------------------
(* Theorem *)

\* Stopping a replay where offset, token boundary and lexer state agree with the old
\* tape (relex_splice) gives the tokens of a lex of the whole text, for every lexer
\* definition, text and sequence of batches, if every replay so far was sound, error
\* values do not depend on the place of the error, and the root mode has no empty
\* rule that applies at the end of the text.  Without the last hypothesis the code
\* does not keep this: see LexEndRule.cfg; without the second neither: LexErrorPlace.cfg.
THEOREM RelexAlwaysExact ==
  ASSUME Placeless, QuietEnd
  PROVE  Spec => []RelexExact
<1>1. Init => Exactly(Here)
  <2> SUFFICES ASSUME Init PROVE Exactly(Here)
    OBVIOUS
  <2>1. Here.layouts = layouts /\ Here.exact = exact
    BY Zenon DEF Here
  <2>2. DOMAIN layouts = {} /\ DOMAIN exact = Uris
    BY DEF Init
  <2> QED
    BY <2>1, <2>2 DEF Exactly
<1>2. ASSUME Invariant, Exactly(Here), [Next]_vars PROVE Exactly(Here')
  <2>1. ASSUME NEW u \in Uris, Close(u) PROVE Exactly(Here')
    BY <1>2, <2>1, CloseExact
  <2>2. ASSUME NEW u \in Uris, NEW text \in Texts, Open(u, text) PROVE Exactly(Here')
    BY <1>2, <2>2, OpenCommand, CommandExact DEF Invariant
  <2>3. ASSUME NEW batch, IsBatch(batch), Edit(batch) PROVE Exactly(Here')
    BY <1>2, <2>3, EditCommand, CommandExact DEF Invariant
  <2>4. ASSUME NEW batch, RejectEdit(batch) PROVE Exactly(Here')
    BY <1>2, <2>4, IdleExact DEF RejectEdit, published
  <2>5. CASE UNCHANGED vars
    BY <1>2, <2>5, IdleExact DEF vars
  <2> QED
    BY <1>2, <2>1, <2>2, <2>3, <2>4, <2>5 DEF Next, Done
<1>3. ASSUME Invariant, Exactly(Here) PROVE RelexExact
  <2>1. Here.layouts = layouts /\ Here.exact = exact
    BY Zenon DEF Here
  <2>2. ASSUME NEW u \in DOMAIN layouts, exact[u] PROVE MatchesFreshLex(layouts[u])
    <3>1. DocumentOK(layouts[u])
      BY <1>3, HereParts DEF Invariant, Good, Attached
    <3>2. Lexed(layouts[u])
      BY <1>3, <2>1, <2>2 DEF Exactly
    <3> QED
      BY <3>1, <3>2, LexedMatches
  <2> QED
    BY <2>2 DEF RelexExact
<1>4. Invariant /\ Exactly(Here) /\ [Next]_vars => Exactly(Here)'
  <2>1. Exactly(Here)' = Exactly(Here')
    BY DEF Exactly
  <2> QED
    BY <1>2, <2>1
<1>5. Invariant /\ Exactly(Here) => RelexExact
  BY <1>3
<1> QED
  BY <1>1, <1>4, <1>5, LexInvariance, PTL DEF Spec
=============================================================================
