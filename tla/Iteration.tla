------------------------------ MODULE Iteration ------------------------------
(***************************************************************************)
(* A loop over a sequence: States(x, s)[n] is the state after the first n  *)
(* elements of s.  The loops that theorems speak about (store.rs, lex,     *)
(* source.rs) are instances of it, one for every loop body.                *)
(***************************************************************************)
EXTENDS Integers, Sequences, TLAPS, WellFoundedInduction

CONSTANT Step(_, _)  \* the loop body: state and element

States(x, s) ==
  LET state[n \in 0 .. Len(s)] == IF n = 0 THEN x ELSE Step(state[n - 1], s[n])
  IN state

After(x, s) == States(x, s)[Len(s)]

-----------------------------------------------------------------------------

\* A set of numbers that is not empty has a least element.
LEMMA NatLeast ==
  ASSUME NEW T \in SUBSET Nat, T # {}
  PROVE  \E x \in T : \A y \in T : ~(y < x)
<1>1. IsWellFoundedOn(OpToRel(<, Nat), Nat)
  BY NatLessThanWellFounded, Zenon
<1>2. \E x \in T : \A y \in T : ~(<<y, x>> \in OpToRel(<, Nat))
  BY <1>1, WFMin, Zenon
<1>3. \A x, y \in Nat : y < x => <<y, x>> \in OpToRel(<, Nat)
  BY Zenon DEF OpToRel
<1> QED
  BY <1>2, <1>3, Zenon

\* Induction, stated about a set so that it can be cited for any predicate.
LEMMA SetInduction ==
  ASSUME NEW S, 0 \in S, \A n \in Nat : n \in S => n + 1 \in S
  PROVE  \A n \in Nat : n \in S
<1> DEFINE T == {n \in Nat : n \notin S}
<1>1. ASSUME T # {} PROVE FALSE
  <2>1. PICK x \in T : \A y \in T : ~(y < x)
    BY <1>1, NatLeast, Zenon
  <2>2. x # 0
    OBVIOUS
  <2>3. x - 1 \in Nat /\ x - 1 < x
    BY <2>2
  <2>4. x - 1 \in S
    BY <2>1, <2>3
  <2> QED
    BY <2>3, <2>4
<1> QED
  BY <1>1

\* The loop starts in x and takes one step for every element.
THEOREM Iterates ==
  ASSUME NEW x, NEW s, Len(s) \in Nat
  PROVE  /\ States(x, s)[0] = x
         /\ \A n \in 1 .. Len(s) : States(x, s)[n] = Step(States(x, s)[n - 1], s[n])
<1> DEFINE Good(N, h) == h = [n \in 0 .. N |-> IF n = 0 THEN x ELSE Step(h[n - 1], s[n])]
           S == {N \in Nat : \E h : Good(N, h)}
<1>1. 0 \in S
  <2>1. Good(0, [n \in 0 .. 0 |-> x])
    OBVIOUS
  <2> QED
    BY <2>1
<1>2. \A N \in Nat : N \in S => N + 1 \in S
  <2> SUFFICES ASSUME NEW N \in Nat, NEW h, Good(N, h)
               PROVE  \E g : Good(N + 1, g)
    OBVIOUS
  <2> DEFINE g == [n \in 0 .. N + 1 |-> IF n = N + 1 THEN Step(h[N], s[N + 1]) ELSE h[n]]
  <2>1. ASSUME NEW n \in 0 .. N + 1
        PROVE  g[n] = IF n = 0 THEN x ELSE Step(g[n - 1], s[n])
    <3>1. CASE n = N + 1
      <4>1. n # 0 /\ n - 1 = N /\ g[N] = h[N] /\ g[n] = Step(h[N], s[n])
        BY <3>1
      <4> QED
        BY <4>1
    <3>2. CASE n \in 1 .. N
      <4>1. g[n] = h[n] /\ g[n - 1] = h[n - 1] /\ n # 0
        BY <3>2
      <4>2. h[n] = Step(h[n - 1], s[n])
        BY <3>2
      <4> QED
        BY <4>1, <4>2
    <3>3. CASE n = 0
      <4>1. g[n] = h[0] /\ h[0] = x
        BY <3>3
      <4> QED
        BY <4>1, <3>3
    <3> QED
      BY <3>1, <3>2, <3>3
  <2>2. Good(N + 1, g)
    BY <2>1
  <2> QED
    BY <2>2
<1>3. Len(s) \in S
  <2> HIDE DEF S
  <2> QED
    BY <1>1, <1>2, SetInduction
<1>4. \E h : Good(Len(s), h)
  BY <1>3
<1>5. Good(Len(s), States(x, s))
  BY <1>4 DEF States
<1> HIDE DEF States
<1>6. \A n \in 0 .. Len(s) : States(x, s)[n] = IF n = 0 THEN x ELSE Step(States(x, s)[n - 1], s[n])
  BY <1>5
<1>7. 0 \in 0 .. Len(s)
  OBVIOUS
<1>8. ASSUME NEW n \in 1 .. Len(s)
      PROVE  States(x, s)[n] = Step(States(x, s)[n - 1], s[n])
  <2>1. n \in 0 .. Len(s) /\ n # 0
    OBVIOUS
  <2> QED
    BY <1>6, <2>1
<1> QED
  BY <1>6, <1>7, <1>8

\* The first n states depend on the first n elements only.
THEOREM SamePrefix ==
  ASSUME NEW x, NEW s, NEW t, Len(s) \in Nat, Len(t) \in Nat,
         NEW n \in Nat, n <= Len(s), n <= Len(t), \A k \in 1 .. n : s[k] = t[k]
  PROVE  \A k \in 0 .. n : States(x, s)[k] = States(x, t)[k]
<1> DEFINE S == {k \in Nat : k <= n => States(x, s)[k] = States(x, t)[k]}
<1>1. 0 \in S
  BY Iterates
<1>2. ASSUME NEW k \in Nat, k \in S PROVE k + 1 \in S
  <2> SUFFICES ASSUME k + 1 <= n PROVE States(x, s)[k + 1] = States(x, t)[k + 1]
    OBVIOUS
  <2>1. k + 1 \in 1 .. n /\ k + 1 \in 1 .. Len(s) /\ k + 1 \in 1 .. Len(t) /\ (k + 1) - 1 = k
    OBVIOUS
  <2>2. States(x, s)[k] = States(x, t)[k] /\ s[k + 1] = t[k + 1]
    BY <1>2, <2>1
  <2> QED
    BY <2>1, <2>2, Iterates
<1>3. \A k \in Nat : k \in S
  <2> HIDE DEF S
  <2> QED
    BY <1>1, <1>2, SetInduction
<1> QED
  BY <1>3

\* One more element is one more step.
THEOREM Extends ==
  ASSUME NEW x, NEW s, NEW r, NEW e, Len(s) \in Nat, Len(r) = Len(s) + 1,
         r[Len(s) + 1] = e, \A k \in 1 .. Len(s) : r[k] = s[k]
  PROVE  After(x, r) = Step(After(x, s), e)
<1> DEFINE n == Len(s)
<1>1. n \in Nat /\ n <= Len(s) /\ n <= Len(r) /\ Len(r) \in Nat /\ n \in 0 .. n
      /\ n + 1 \in 1 .. Len(r) /\ (n + 1) - 1 = n
  OBVIOUS
<1> HIDE DEF n
<1>2. \A k \in 0 .. n : States(x, s)[k] = States(x, r)[k]
  BY <1>1, SamePrefix DEF n
<1>3. States(x, r)[n + 1] = Step(States(x, r)[n], r[n + 1])
  BY <1>1, Iterates
<1> QED
  BY <1>1, <1>2, <1>3 DEF After, n

\* The elements behind the first m are t, and the first m of them lead from x to y.
Rest(x, s, m, y, t) ==
  /\ Len(s) = m + Len(t) /\ \A k \in 1 .. Len(t) : s[m + k] = t[k]
  /\ y = States(x, s)[m]

\* A loop over the rest of a sequence starts where the loop over its beginning ends.
THEOREM Continues ==
  ASSUME NEW x, NEW s, NEW t, Len(s) \in Nat, Len(t) \in Nat,
         NEW m \in Nat, NEW y, Rest(x, s, m, y, t)
  PROVE  \A k \in 0 .. Len(t) : States(x, s)[m + k] = States(y, t)[k]
<1> DEFINE S == {k \in Nat : k <= Len(t) => States(x, s)[m + k] = States(y, t)[k]}
<1> USE DEF Rest
<1>1. 0 \in S
  BY Iterates
<1>2. ASSUME NEW k \in Nat, k \in S PROVE k + 1 \in S
  <2> SUFFICES ASSUME k + 1 <= Len(t) PROVE States(x, s)[m + (k + 1)] = States(y, t)[k + 1]
    OBVIOUS
  <2> DEFINE j == m + (k + 1)
  <2>1. k + 1 \in 1 .. Len(t) /\ (k + 1) - 1 = k
    OBVIOUS
  <2>2. j \in 1 .. Len(s) /\ j - 1 = m + k
    <3>1. 1 <= j /\ j <= m + Len(t) /\ j \in Int
      OBVIOUS
    <3> QED
      BY <3>1
  <2>3. States(x, s)[m + k] = States(y, t)[k] /\ s[m + (k + 1)] = t[k + 1]
    BY <1>2, <2>1
  <2>4. States(x, s)[j] = Step(States(x, s)[m + k], s[j])
    <3> HIDE DEF j
    <3> QED
      BY <2>2, Iterates
  <2>5. States(y, t)[k + 1] = Step(States(y, t)[k], t[k + 1])
    BY <2>1, Iterates
  <2> QED
    BY <2>3, <2>4, <2>5
<1>3. \A k \in Nat : k \in S
  <2> HIDE DEF S
  <2> QED
    BY <1>1, <1>2, SetInduction
<1> QED
  BY <1>3
=============================================================================
