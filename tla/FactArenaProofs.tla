--------------------------- MODULE FactArenaProofs ---------------------------
(***************************************************************************)
(* FactArena keeps its indexes and its snapshot exact, rolls back exactly  *)
(* and implements FactTxn, for every set of facts, views, writers and      *)
(* publications.                                                           *)
(*                                                                         *)
(* The argument is about who may use which ordinal.  A fact owns the       *)
(* ordinal the committed snapshot files it under and the ordinal of the    *)
(* slot the transaction found (BaseOf).  No other fact ever uses one of    *)
(* those, not even while a promoted root brings in ordinals of another     *)
(* store; before a promotion no two facts share any ordinal at all         *)
(* (UsedOf).  A slot under an ordinal that its fact owns can therefore be  *)
(* found again by a rollback and by a commit.                              *)
(***************************************************************************)
EXTENDS ArenaLemmas

BaseOf(m, s, f) == KeyOrd(s, f) \cup OrdOf(FirstSlot(m, f))
UsedOf(m, f) == OrdOf(SlotFor(m.ps, f)) \cup OrdOf(Current(m, f))

Ordinals(m, s, prom) ==
  /\ \A f \in Fact : \A o \in BaseOf(m, s, f) : o \in Nat /\ o < m.ps.next
  /\ \A f, g \in Fact : f # g => BaseOf(m, s, f) \cap (BaseOf(m, s, g) \cup UsedOf(m, g)) = {}
  /\ ~prom => /\ \A f \in Fact : \A o \in UsedOf(m, f) : o < m.ps.next
              /\ \A f, g \in Fact : f # g => UsedOf(m, f) \cap UsedOf(m, g) = {}

\* The indexes find every slot whose ordinal nobody else can have taken.
Findable(m, s, prom) ==
  \A f \in Fact : ~prom \/ OrdOf(SlotFor(m.ps, f)) \subseteq BaseOf(m, s, f) => Indexed(m.ps, f)

\* The snapshot still shows what the transaction found.
SnapOK(m, s) == SnapSound(s) /\ \A f \in Fact : Holds(s, f, FirstSlot(m, f))

Consistent(m, s, prom) ==
  /\ MemoryOK(m) /\ IndexSound(m.ps)
  /\ Ordinals(m, s, prom) /\ Findable(m, s, prom) /\ SnapOK(m, s)

\* The inductive invariant.
IInv ==
  /\ Consistent(Memory, snap, promoted)
  /\ promoted \in BOOLEAN /\ active \in BOOLEAN
  /\ ~active => journal = <<>>
  /\ pre \in [Fact -> Slot]
  /\ active => \A f \in Fact : pre[f] = Content(FirstSlot(Memory, f))

-----------------------------------------------------------------------------
(* Every operation keeps the store consistent *)

\* A journalled change of one fact.
LEMMA ChangeConsistent ==
  ASSUME NEW m, NEW s, NEW prom \in BOOLEAN, Consistent(m, s, prom),
         NEW t, NEW f \in Fact, NEW c, Changes(m, t, f, c)
  PROVE  Consistent(t, s, prom)
<1>0. /\ MemoryOK(m) /\ IndexSound(m.ps)
      /\ Ordinals(m, s, prom) /\ Findable(m, s, prom) /\ SnapOK(m, s)
  BY DEF Consistent
<1>1. /\ MemoryOK(t)
      /\ \A g \in Fact : g # f => SlotFor(t.ps, g) = SlotFor(m.ps, g) /\ Current(t, g) = Current(m, g)
      /\ \A g \in Fact : FirstSlot(t, g) = FirstSlot(m, g)
      /\ Follows(m.ps, t.ps, f, SlotFor(t.ps, f))
      /\ m.ps.next \in Nat /\ t.ps.next \in Nat /\ t.ps.next >= m.ps.next
  BY <1>0, OrdinalTypes DEF Changes, MemoryOK
<1>2. \A g \in Fact : BaseOf(t, s, g) = BaseOf(m, s, g)
  BY <1>1 DEF BaseOf
<1>3. \A g \in Fact : g # f => UsedOf(t, g) = UsedOf(m, g)
  BY <1>1 DEF UsedOf
<1>4. \A g \in Fact : UsedOf(t, g) \subseteq Nat /\ UsedOf(m, g) \subseteq Nat
  BY <1>0, <1>1, OrdinalTypes DEF UsedOf, MemoryOK
<1>5. ASSUME NEW o \in UsedOf(t, f)
      PROVE  o \in UsedOf(m, f) \/ (m.ps.next <= o /\ o < t.ps.next)
  <2>1. o \in Nat
    BY <1>4
  <2>2. \A x \in OrdOf(Current(t, f)) : x \in OrdOf(Current(m, f)) \/ (x = m.ps.next /\ x < t.ps.next)
    BY DEF Changes
  <2>3. \A x \in OrdOf(SlotFor(t.ps, f)) : x \in OrdOf(Current(t, f)) \/ (m.ps.next <= x /\ x < t.ps.next)
    BY DEF Changes
  <2> QED
    BY <1>1, <2>1, <2>2, <2>3 DEF UsedOf
<1>6. Ordinals(t, s, prom)
  <2>1. \A g \in Fact : \A o \in BaseOf(t, s, g) : o \in Nat /\ o < t.ps.next
    BY <1>0, <1>1, <1>2 DEF Ordinals
  <2>2. ASSUME NEW g \in Fact, NEW h \in Fact, g # h
        PROVE  BaseOf(t, s, g) \cap (BaseOf(t, s, h) \cup UsedOf(t, h)) = {}
    <3>1. /\ BaseOf(m, s, g) \cap (BaseOf(m, s, h) \cup UsedOf(m, h)) = {}
          /\ \A o \in BaseOf(m, s, g) : o \in Nat /\ o < m.ps.next
      BY <1>0, <2>2 DEF Ordinals
    <3>2. BaseOf(t, s, g) = BaseOf(m, s, g) /\ BaseOf(t, s, h) = BaseOf(m, s, h)
      BY <1>2
    <3>3. \A o \in UsedOf(t, h) : o \in UsedOf(m, h) \/ (o \in Nat /\ m.ps.next <= o)
      BY <1>3, <1>4, <1>5
    <3> QED
      BY <1>1, <3>1, <3>2, <3>3
  <2>3. ASSUME ~prom
        PROVE  /\ \A g \in Fact : \A o \in UsedOf(t, g) : o < t.ps.next
               /\ \A g, h \in Fact : g # h => UsedOf(t, g) \cap UsedOf(t, h) = {}
    <3>1. /\ \A g \in Fact : \A o \in UsedOf(m, g) : o < m.ps.next
          /\ \A g, h \in Fact : g # h => UsedOf(m, g) \cap UsedOf(m, h) = {}
      BY <1>0, <2>3 DEF Ordinals
    <3>2. \A g \in Fact : \A o \in UsedOf(t, g) : o < t.ps.next
      BY <1>1, <1>3, <1>4, <1>5, <3>1
    <3>3. ASSUME NEW g \in Fact, g # f PROVE UsedOf(t, g) \cap UsedOf(t, f) = {}
      BY <1>1, <1>3, <1>4, <1>5, <3>1, <3>3
    <3> QED
      BY <1>3, <3>1, <3>2, <3>3
  <2> QED
    BY <2>1, <2>2, <2>3 DEF Ordinals
<1>7. Findable(t, s, prom)
  <2> SUFFICES ASSUME NEW g \in Fact, ~prom \/ OrdOf(SlotFor(t.ps, g)) \subseteq BaseOf(t, s, g)
               PROVE  Indexed(t.ps, g)
    BY DEF Findable
  <2>1. CASE g = f
    BY <1>1, <2>1 DEF Follows
  <2>2. CASE g # f
    <3>1. SlotFor(t.ps, g) = SlotFor(m.ps, g) /\ BaseOf(t, s, g) = BaseOf(m, s, g)
      BY <1>1, <1>2, <2>2
    <3>2. Indexed(m.ps, g)
      BY <1>0, <3>1 DEF Findable
    <3>3. /\ OrdOf(SlotFor(m.ps, g)) \subseteq UsedOf(m, g) /\ OrdOf(SlotFor(m.ps, f)) \subseteq UsedOf(m, f)
          /\ OrdOf(SlotFor(t.ps, f)) \subseteq UsedOf(t, f)
      BY DEF UsedOf
    <3>4. ASSUME NEW o \in OrdOf(SlotFor(m.ps, g))
          PROVE  o \in Nat /\ o < m.ps.next /\ o \notin UsedOf(m, f)
      BY <1>0, <1>4, <2>2, <3>1, <3>3 DEF Ordinals
    <3>5. OrdOf(SlotFor(m.ps, g)) \cap (OrdOf(SlotFor(m.ps, f)) \cup OrdOf(SlotFor(t.ps, f))) = {}
      BY <1>1, <1>4, <1>5, <3>3, <3>4
    <3> QED
      BY <1>1, <2>2, <3>2, <3>5 DEF Follows
  <2> QED
    BY <2>1, <2>2
<1>8. SnapOK(t, s)
  BY <1>0, <1>1 DEF SnapOK
<1> QED
  BY <1>0, <1>1, <1>6, <1>7, <1>8 DEF Consistent, Follows

\* With an empty journal every live slot is under an ordinal of its fact, so it
\* no longer matters whether the last transaction promoted a root.
LEMMA EmptyJournal ==
  ASSUME NEW m, NEW s, NEW prom \in BOOLEAN, Consistent(m, s, prom), m.journal = <<>>
  PROVE  /\ m = [ps |-> m.ps, journal |-> <<>>]
         /\ \A f \in Fact : /\ ~Touched(m, f) /\ FirstSlot(m, f) = SlotFor(m.ps, f)
                            /\ Current(m, f) = SlotFor(m.ps, f)
         /\ \A b \in BOOLEAN : Consistent(m, s, b)
<1>1. m = [ps |-> m.ps, journal |-> <<>>] /\ ArenaOK(m.ps)
  BY DEF Consistent, MemoryOK, Memories
<1>2. \A f \in Fact : /\ ~Touched(m, f) /\ FirstSlot(m, f) = SlotFor(m.ps, f)
                      /\ Current(m, f) = SlotFor(m.ps, f)
  BY <1>1, FreshJournal
<1>3. \A f \in Fact : UsedOf(m, f) \subseteq BaseOf(m, s, f) /\ OrdOf(SlotFor(m.ps, f)) \subseteq BaseOf(m, s, f)
  BY <1>2 DEF UsedOf, BaseOf
<1>4. Ordinals(m, s, prom) /\ Findable(m, s, prom)
  BY DEF Consistent
<1>5. \A b \in BOOLEAN : Ordinals(m, s, b)
  BY <1>3, <1>4 DEF Ordinals
<1>6. \A b \in BOOLEAN : Findable(m, s, b)
  BY <1>3, <1>4 DEF Findable
<1> QED
  BY <1>1, <1>2, <1>5, <1>6 DEF Consistent

\* What the installation of a captured store q leaves of the memory m.
InstallsTo(m, s, q, t) ==
  /\ Consistent(t, s, TRUE)
  /\ \A f \in Fact : FirstSlot(t, f) = SlotFor(m.ps, f)
  /\ \A f \in Fact : Touched(t, f) <=> Occupied(SlotFor(q, f))
  /\ \A f \in Fact : Content(SlotFor(t.ps, f)) =
       IF Occupied(SlotFor(q, f)) THEN Installed(Content(SlotFor(m.ps, f)), Content(SlotFor(q, f)))
       ELSE Content(SlotFor(m.ps, f))

\* The installation of a captured store: whatever ordinals it brings, none is
\* one that another fact owns.
LEMMA PromoteConsistent ==
  ASSUME NEW m, NEW s, NEW prom \in BOOLEAN, Consistent(m, s, prom), m.journal = <<>>,
         NEW q, ArenaOK(q),
         \A f \in Fact : \A o \in OrdOf(SlotFor(q, f)) : o \in OrdOf(SlotFor(m.ps, f)) \/ m.ps.next <= o
  PROVE  InstallsTo(m, s, q, Installs!After(m, q.slots))
<1> DEFINE p == m.ps  t == Installs!After(m, q.slots)
<1>1. /\ m = [ps |-> p, journal |-> <<>>]
      /\ \A f \in Fact : FirstSlot(m, f) = SlotFor(p, f) /\ Current(m, f) = SlotFor(p, f)
      /\ Consistent(m, s, FALSE)
  BY EmptyJournal
<1>2. /\ ArenaOK(p) /\ IndexSound(p) /\ p.next \in Nat /\ SnapOK(m, s)
      /\ Ordinals(m, s, FALSE) /\ Findable(m, s, FALSE)
  BY <1>1, OrdinalTypes DEF Consistent, MemoryOK
<1>3. \A f \in Fact : Indexed(p, f)
  BY <1>2 DEF Findable
<1>4. /\ \A f, g \in Fact : f # g => OrdOf(SlotFor(p, f)) \cap OrdOf(SlotFor(p, g)) = {}
      /\ \A f \in Fact : \A o \in OrdOf(SlotFor(p, f)) : o < p.next
  BY <1>2 DEF Ordinals, UsedOf
<1> HIDE DEF p
<1>5. /\ MemoryOK(t) /\ IndexSound(t.ps) /\ Within(p, t) /\ p.next <= t.ps.next
      /\ \A f \in Fact : FirstSlot(t, f) = SlotFor(p, f)
      /\ \A f \in Fact : OrdOf(SlotFor(t.ps, f)) \subseteq OrdOf(SlotFor(p, f)) => Indexed(t.ps, f)
      /\ \A f \in Fact : Touched(t, f) <=> Occupied(SlotFor(q, f))
      /\ \A f \in Fact : Content(SlotFor(t.ps, f)) =
           IF Occupied(SlotFor(q, f)) THEN Installed(Content(SlotFor(p, f)), Content(SlotFor(q, f)))
           ELSE Content(SlotFor(p, f))
  <2>1. \A f \in Fact : \A o \in OrdOf(SlotFor(q, f)) : o \in OrdOf(SlotFor(p, f)) \/ p.next <= o
    BY DEF p
  <2> DEFINE u == Installs!After([ps |-> p, journal |-> <<>>], q.slots)
  <2>2. /\ MemoryOK(u) /\ IndexSound(u.ps) /\ Within(p, u) /\ p.next <= u.ps.next
        /\ \A f \in Fact : FirstSlot(u, f) = SlotFor(p, f)
        /\ \A f \in Fact : OrdOf(SlotFor(u.ps, f)) \subseteq OrdOf(SlotFor(p, f)) => Indexed(u.ps, f)
        /\ \A f \in Fact : Touched(u, f) <=> Occupied(SlotFor(q, f))
        /\ \A f \in Fact : Content(SlotFor(u.ps, f)) =
             IF Occupied(SlotFor(q, f)) THEN Installed(Content(SlotFor(p, f)), Content(SlotFor(q, f)))
             ELSE Content(SlotFor(p, f))
    BY <1>2, <1>3, <1>4, <2>1, Promoting
  <2>3. t = u
    BY <1>1
  <2> QED
    BY <2>2, <2>3
<1> HIDE DEF t
<1>6. /\ \A f \in Fact : BaseOf(t, s, f) = BaseOf(m, s, f) /\ OrdOf(SlotFor(p, f)) \subseteq BaseOf(m, s, f)
      /\ \A f \in Fact : UsedOf(m, f) = OrdOf(SlotFor(p, f))
  BY <1>1, <1>5 DEF BaseOf, UsedOf, p
<1>7. t.ps.next \in Nat /\ \A f \in Fact : UsedOf(t, f) \subseteq Nat
  BY <1>5, OrdinalTypes DEF MemoryOK, UsedOf
<1>8. \A f \in Fact : \A o \in UsedOf(t, f) : o \in OrdOf(SlotFor(p, f)) \/ p.next <= o
  BY <1>5 DEF Within, UsedOf
<1>9. /\ \A f \in Fact : \A o \in BaseOf(m, s, f) : o \in Nat /\ o < p.next
      /\ \A f, g \in Fact : f # g => BaseOf(m, s, f) \cap (BaseOf(m, s, g) \cup UsedOf(m, g)) = {}
  BY <1>2 DEF Ordinals, p
<1>10. Ordinals(t, s, TRUE)
  <2>1. \A f \in Fact : \A o \in BaseOf(t, s, f) : o \in Nat /\ o < t.ps.next
    BY <1>2, <1>5, <1>6, <1>7, <1>9
  <2>2. ASSUME NEW f \in Fact, NEW g \in Fact, f # g, NEW o \in BaseOf(t, s, f)
        PROVE  o \notin BaseOf(t, s, g) \cup UsedOf(t, g)
    <3>1. o \in Nat /\ o < p.next /\ o \notin BaseOf(t, s, g) /\ o \notin OrdOf(SlotFor(p, g))
      BY <1>6, <1>9, <2>2
    <3> QED
      BY <1>2, <1>8, <3>1
  <2> QED
    BY <2>1, <2>2 DEF Ordinals
<1>11. Findable(t, s, TRUE)
  <2> SUFFICES ASSUME NEW f \in Fact, OrdOf(SlotFor(t.ps, f)) \subseteq BaseOf(t, s, f)
               PROVE  OrdOf(SlotFor(t.ps, f)) \subseteq OrdOf(SlotFor(p, f))
    BY <1>5 DEF Findable
  <2> SUFFICES ASSUME NEW o \in OrdOf(SlotFor(t.ps, f)) PROVE o \in OrdOf(SlotFor(p, f))
    OBVIOUS
  <2>1. o \in Nat /\ o < p.next /\ o \in UsedOf(t, f)
    BY <1>6, <1>9 DEF UsedOf
  <2> QED
    BY <1>2, <1>8, <2>1
<1>12. SnapOK(t, s)
  BY <1>1, <1>2, <1>5 DEF SnapOK
<1>13. Consistent(t, s, TRUE)
  BY <1>5, <1>10, <1>11, <1>12 DEF Consistent
<1>14. InstallsTo(m, s, q, t)
  BY <1>5, <1>13 DEF InstallsTo, p
<1> QED
  BY <1>14 DEF t

\* Rolling back: every fact has the slot the transaction found.
LEMMA RollbackConsistent ==
  ASSUME NEW m, NEW s, NEW prom \in BOOLEAN, Consistent(m, s, prom)
  PROVE  LET t == [ps |-> Undo!After(m.ps, Reverse(m.journal)), journal |-> <<>>] IN
         /\ Consistent(t, s, prom)
         /\ \A f \in Fact : SlotFor(t.ps, f) = FirstSlot(m, f)
<1> DEFINE p == m.ps  j == m.journal  q == Undo!After(p, Reverse(j))
           t == [ps |-> q, journal |-> <<>>]
           B == [f \in Fact |-> BaseOf(m, s, f)]
<1>1. /\ MemoryOK(m) /\ ArenaOK(p) /\ IndexSound(p) /\ JournalOK(j) /\ p.next \in Nat
      /\ Ordinals(m, s, prom) /\ Findable(m, s, prom) /\ SnapOK(m, s)
  BY OrdinalTypes DEF Consistent, MemoryOK
<1>2. \A f, g \in Fact : f # g => B[f] \cap (B[g] \cup OrdOf(SlotFor(p, g))) = {}
  BY <1>1 DEF Ordinals, UsedOf
<1>3. \A n \in DOMAIN j : j[n].fact \in Fact /\ FirstSlot(m, j[n].fact) = j[n].first
  <2>1. j \in Seq(Entry)
    BY <1>1 DEF JournalOK
  <2> HIDE DEF j
  <2>2. \A n \in DOMAIN j : j[n] \in Entry
    BY <2>1
  <2>3. \A n \in DOMAIN j : j[n].fact \in Fact
    BY <2>2 DEF Entry
  <2>4. \A n \in DOMAIN j : n # 0
    BY <2>1
  <2> QED
    BY <1>1, <2>3, <2>4, EntryOfFinds DEF FirstSlot, Touched, j
<1>4. \A n \in DOMAIN j : OrdOf(j[n].first) \subseteq B[j[n].fact]
  BY <1>3 DEF BaseOf
<1>5. \A f \in Fact : OrdOf(SlotFor(p, f)) \subseteq B[f] => Indexed(p, f)
  BY <1>1 DEF Findable
<1> HIDE DEF B, p, j
<1>6. /\ ArenaOK(q) /\ IndexSound(q) /\ q.next = p.next
      /\ \A n \in DOMAIN j : SlotFor(q, j[n].fact) = j[n].first
      /\ \A f \in Fact : (\A n \in DOMAIN j : j[n].fact # f) => SlotFor(q, f) = SlotFor(p, f)
      /\ \A f \in Fact : OrdOf(SlotFor(q, f)) \subseteq B[f] => Indexed(q, f)
  BY <1>1, <1>2, <1>4, <1>5, Undone
<1> HIDE DEF q
<1>7. ASSUME NEW f \in Fact PROVE SlotFor(q, f) = FirstSlot(m, f)
  <2>1. CASE \E n \in DOMAIN j : j[n].fact = f
    BY <1>3, <1>6, <2>1
  <2>2. CASE \A n \in DOMAIN j : j[n].fact # f
    <3>1. ~Touched(m, f)
      BY <1>1, <2>2, EntryOfFinds DEF Touched, j
    <3> QED
      BY <1>6, <2>2, <3>1 DEF FirstSlot, p
  <2> QED
    BY <2>1, <2>2
<1>8. /\ MemoryOK(t) /\ t.ps = q
      /\ \A f \in Fact : FirstSlot(t, f) = SlotFor(q, f) /\ Current(t, f) = SlotFor(q, f)
  BY <1>6, FreshJournal
<1> HIDE DEF t
<1>9. \A f \in Fact : /\ BaseOf(t, s, f) = BaseOf(m, s, f) /\ FirstSlot(t, f) = FirstSlot(m, f)
                      /\ UsedOf(t, f) \subseteq BaseOf(t, s, f)
                      /\ OrdOf(SlotFor(q, f)) \subseteq BaseOf(t, s, f)
  BY <1>7, <1>8 DEF BaseOf, UsedOf
<1>10. Ordinals(t, s, prom)
  <2>1. /\ \A f \in Fact : \A o \in BaseOf(m, s, f) : o \in Nat /\ o < t.ps.next
        /\ \A f, g \in Fact : f # g => BaseOf(m, s, f) \cap BaseOf(m, s, g) = {}
    BY <1>1, <1>6, <1>8 DEF Ordinals, p
  <2> QED
    BY <1>9, <2>1 DEF Ordinals
<1>11. Findable(t, s, prom)
  <2>1. \A f \in Fact : OrdOf(SlotFor(q, f)) \subseteq B[f]
    BY <1>9 DEF B
  <2> QED
    BY <1>6, <1>8, <2>1 DEF Findable
<1>12. SnapOK(t, s)
  BY <1>1, <1>9 DEF SnapOK
<1>13. Consistent(t, s, prom)
  BY <1>6, <1>8, <1>10, <1>11, <1>12 DEF Consistent
<1> QED
  BY <1>7, <1>8, <1>13 DEF t, q, p, j

\* Committing without a promotion: the snapshot shows the live slots, although
\* journal and store may have numbered a fact differently.
LEMMA CommitConsistent ==
  ASSUME NEW m, NEW s, Consistent(m, s, FALSE)
  PROVE  /\ Consistent([ps |-> m.ps, journal |-> <<>>], Deltas!After(s, m.journal), FALSE)
         /\ \A f \in Fact : Holds(Deltas!After(s, m.journal), f, SlotFor(m.ps, f))
<1> DEFINE p == m.ps  j == m.journal  q == Deltas!After(s, j)
           t == [ps |-> p, journal |-> <<>>]
           G == [f \in Fact |-> FirstSlot(m, f)]
<1>1. /\ MemoryOK(m) /\ ArenaOK(p) /\ IndexSound(p) /\ JournalOK(j) /\ p.next \in Nat
      /\ Ordinals(m, s, FALSE) /\ Findable(m, s, FALSE) /\ SnapOK(m, s)
  BY OrdinalTypes DEF Consistent, MemoryOK
<1>2. /\ \A f \in Fact : \A o \in BaseOf(m, s, f) : o \in Nat /\ o < p.next
      /\ \A f, g \in Fact : f # g => BaseOf(m, s, f) \cap (BaseOf(m, s, g) \cup UsedOf(m, g)) = {}
      /\ \A f \in Fact : \A o \in UsedOf(m, f) : o < p.next
      /\ \A f, g \in Fact : f # g => UsedOf(m, f) \cap UsedOf(m, g) = {}
  BY <1>1 DEF Ordinals
<1>3. \A f \in Fact : UsedOf(m, f) \subseteq Nat
  BY <1>1, OrdinalTypes DEF UsedOf
<1> HIDE DEF j
<1>4. \A n \in DOMAIN j : /\ j[n].fact \in Fact /\ n # 0
                          /\ FirstSlot(m, j[n].fact) = j[n].first
                          /\ Current(m, j[n].fact) = j[n].staged
  <2>1. j \in Seq(Entry)
    BY <1>1 DEF JournalOK
  <2>2. \A n \in DOMAIN j : j[n] \in Entry
    BY <2>1
  <2>3. \A n \in DOMAIN j : j[n].fact \in Fact
    BY <2>2 DEF Entry
  <2>4. \A n \in DOMAIN j : n # 0
    BY <2>1
  <2> QED
    BY <1>1, <2>3, <2>4, EntryOfFinds DEF FirstSlot, Touched, Current, j
<1>5. \A g \in Fact : Holds(s, g, G[g])
  BY <1>1 DEF SnapOK
<1>6. SnapSound(s) /\ \A n \in DOMAIN j : G[j[n].fact] = j[n].first
  BY <1>1, <1>4 DEF SnapOK
<1>7. ASSUME NEW n \in DOMAIN j, NEW g \in Fact, g # j[n].fact
      PROVE  KeyOrd(s, g) \cap OrdOf(j[n].staged) = {}
  <2>1. KeyOrd(s, g) \subseteq BaseOf(m, s, g) /\ OrdOf(j[n].staged) \subseteq UsedOf(m, j[n].fact)
    BY <1>4 DEF BaseOf, UsedOf
  <2> QED
    BY <1>2, <1>4, <1>7, <2>1
<1>8. ASSUME NEW n \in DOMAIN j, NEW k \in DOMAIN j, n # k
      PROVE  OrdOf(j[n].staged) \cap OrdOf(j[k].staged) = {}
  <2>1. j[n].fact # j[k].fact
    BY <1>1, <1>8 DEF JournalOK
  <2>2. OrdOf(j[k].staged) \subseteq UsedOf(m, j[k].fact) /\ OrdOf(j[n].staged) \subseteq UsedOf(m, j[n].fact)
    BY <1>4 DEF UsedOf
  <2> QED
    BY <1>2, <1>4, <2>1, <2>2
<1> HIDE DEF G
<1>9. /\ SnapSound(q)
      /\ \A n \in DOMAIN j :
           /\ Holds(q, j[n].fact, j[n].staged)
           /\ KeyOrd(q, j[n].fact) \subseteq KeyOrd(s, j[n].fact) \cup OrdOf(j[n].staged)
      /\ \A g \in Fact : (\A n \in DOMAIN j : j[n].fact # g) =>
           Holds(q, g, G[g]) /\ KeyOrd(q, g) = KeyOrd(s, g)
  BY <1>1, <1>5, <1>6, <1>7, <1>8, DeltasApplied
<1> HIDE DEF q
<1>10. ASSUME NEW f \in Fact
       PROVE  /\ Holds(q, f, SlotFor(p, f))
              /\ KeyOrd(q, f) \subseteq KeyOrd(s, f) \cup UsedOf(m, f)
  <2>1. CASE \E n \in DOMAIN j : j[n].fact = f
    <3>1. PICK n \in DOMAIN j : j[n].fact = f
      BY <2>1
    <3>2. Holds(q, f, Current(m, f)) /\ KeyOrd(q, f) \subseteq KeyOrd(s, f) \cup OrdOf(Current(m, f))
      BY <1>4, <1>9, <3>1
    <3>3. Content(Current(m, f)) = Content(SlotFor(p, f)) /\ Current(m, f) \in Cell /\ SlotFor(p, f) \in Cell
      BY <1>1, SlotsOfFact DEF MemoryOK
    <3>4. /\ Occupied(Current(m, f)) <=> Occupied(SlotFor(p, f))
          /\ Occupied(SlotFor(p, f)) => Current(m, f).val = SlotFor(p, f).val
      BY <3>3, ContentOccupied
    <3> QED
      BY <3>2, <3>4 DEF Holds, UsedOf
  <2>2. CASE \A n \in DOMAIN j : j[n].fact # f
    <3>1. ~Touched(m, f)
      BY <1>1, <2>2, EntryOfFinds DEF Touched, j
    <3>2. G[f] = SlotFor(p, f)
      BY <3>1 DEF FirstSlot, G
    <3> QED
      BY <1>9, <2>2, <3>2
  <2> QED
    BY <2>1, <2>2
<1>11. /\ MemoryOK(t) /\ t.ps = p
       /\ \A f \in Fact : FirstSlot(t, f) = SlotFor(p, f) /\ Current(t, f) = SlotFor(p, f)
  BY <1>1, FreshJournal
<1> HIDE DEF t
<1>12. \A f \in Fact : /\ BaseOf(t, q, f) \subseteq BaseOf(m, s, f) \cup UsedOf(m, f)
                       /\ UsedOf(t, f) \subseteq UsedOf(m, f)
  BY <1>10, <1>11 DEF BaseOf, UsedOf
<1>13. Ordinals(t, q, FALSE)
  <2>1. \A f \in Fact : \A o \in BaseOf(t, q, f) : o \in Nat /\ o < t.ps.next
    BY <1>2, <1>3, <1>11, <1>12
  <2>2. ASSUME NEW f \in Fact, NEW g \in Fact, f # g
        PROVE  BaseOf(t, q, f) \cap (BaseOf(t, q, g) \cup UsedOf(t, g)) = {}
    <3>1. (BaseOf(m, s, f) \cup UsedOf(m, f)) \cap (BaseOf(m, s, g) \cup UsedOf(m, g)) = {}
      BY <1>2, <2>2
    <3> QED
      BY <1>12, <3>1
  <2>3. \A f \in Fact : \A o \in UsedOf(t, f) : o < t.ps.next
    BY <1>2, <1>11, <1>12
  <2>4. \A f, g \in Fact : f # g => UsedOf(t, f) \cap UsedOf(t, g) = {}
    BY <1>2, <1>12
  <2> QED
    BY <2>1, <2>2, <2>3, <2>4 DEF Ordinals
<1>14. Findable(t, q, FALSE)
  BY <1>1, <1>11 DEF Findable
<1>15. SnapOK(t, q)
  BY <1>9, <1>10, <1>11 DEF SnapOK
<1>16. Consistent(t, q, FALSE)
  BY <1>1, <1>11, <1>13, <1>14, <1>15 DEF Consistent
<1> QED
  BY <1>10, <1>16 DEF t, q, p, j

\* The store a process starts with.
LEMMA EmptyConsistent == Consistent([ps |-> EmptyState, journal |-> <<>>], EmptySnap, FALSE)
<1> DEFINE m == [ps |-> EmptyState, journal |-> <<>>]
<1>1. EmptyState \in PlainState /\ EmptyState.slots = <<>> /\ EmptyState.free = <<>>
  <2>1. <<>> \in Index
    <3>1. <<>> \in [{} -> Nat]
      OBVIOUS
    <3> QED
      BY <3>1 DEF Index
  <2>2. [v \in View |-> <<>>] \in [View -> Index] /\ [w \in Writer |-> <<>>] \in [Writer -> Index]
    BY <2>1
  <2>3. <<>> \in Seq(Cell) /\ <<>> \in Seq(Nat)
    OBVIOUS
  <2> QED
    BY <2>2, <2>3 DEF EmptyState, State, PlainState
<1>2. ArenaOK(EmptyState)
  BY <1>1 DEF ArenaOK, Unique, FreeExact, IsInjective
<1>3. \A f \in Fact : ~Occupied(SlotFor(EmptyState, f))
  BY <1>1 DEF SlotFor, SlotIndex, Occupied
<1>4. IndexSound(EmptyState)
  BY DEF IndexSound, EmptyState, State
<1>5. SnapSound(EmptySnap) /\ \A f \in Fact : KeyOrd(EmptySnap, f) = {} /\ f \notin DOMAIN EmptySnap.byKey
  BY DEF SnapSound, EmptySnap, KeyOrd
<1>6. /\ MemoryOK(m) /\ m.ps = EmptyState
      /\ \A f \in Fact : FirstSlot(m, f) = SlotFor(EmptyState, f) /\ Current(m, f) = SlotFor(EmptyState, f)
  BY <1>2, FreshJournal
<1> HIDE DEF m
<1>7. \A f \in Fact : BaseOf(m, EmptySnap, f) = {} /\ UsedOf(m, f) = {}
  BY <1>3, <1>5, <1>6 DEF BaseOf, UsedOf, OrdOf
<1>8. Ordinals(m, EmptySnap, FALSE)
  BY <1>7 DEF Ordinals
<1>9. Findable(m, EmptySnap, FALSE)
  BY <1>3, <1>6 DEF Findable, Indexed
<1>10. SnapOK(m, EmptySnap)
  BY <1>3, <1>5, <1>6 DEF SnapOK, Holds
<1> QED
  BY <1>4, <1>6, <1>8, <1>9, <1>10 DEF Consistent, m

-----------------------------------------------------------------------------
(* The invariant *)

\* The invariant holds when the process starts.
LEMMA InitIInv == Init => IInv
<1> SUFFICES ASSUME Init PROVE IInv
  OBVIOUS
<1>1. Consistent(Memory, snap, promoted)
  BY EmptyConsistent DEF Init, Memory
<1>2. AbsentSlot \in Slot
  BY DEF AbsentSlot, Slot, ValueOrNone
<1> QED
  BY <1>1, <1>2 DEF Init, IInv

\* The transaction goes on with a consistent memory that still records what the
\* transaction found.
LEMMA BecomesIInv ==
  ASSUME IInv, active, NEW m, Becomes(m), promoted' \in BOOLEAN,
         Consistent(m, snap, promoted'), \A f \in Fact : FirstSlot(m, f) = FirstSlot(Memory, f)
  PROVE  IInv'
<1>1. m = [ps |-> m.ps, journal |-> m.journal]
  BY DEF Consistent, MemoryOK, Memories
<1>2. Memory' = m /\ snap' = snap /\ active' = active /\ pre' = pre
  BY <1>1 DEF Memory, Becomes
<1>3. Consistent(Memory', snap', promoted')
  BY <1>2
<1>4. \A f \in Fact : pre'[f] = Content(FirstSlot(Memory', f))
  BY <1>2 DEF IInv
<1> QED
  BY <1>2, <1>3, <1>4 DEF IInv

\* What Write does to the memory: one journalled change to another content.
LEMMA WriteStep ==
  ASSUME IInv, NEW w \in Writer, NEW f \in Fact, NEW v \in ValueOrNone, Write(w, f, v)
  PROVE  LET c == Written(Content(SlotFor(ps, f)), v, w, Shareable(w, f)) IN
         /\ c # Content(SlotFor(ps, f))
         /\ Changes(Memory, JournalWrite(Memory, w, f, v), f, c)
<1>1. MemoryOK(Memory) /\ Memory.ps = ps
  BY DEF IInv, Consistent, Memory
<1>2. JournalWrite(Memory, w, f, v) # Memory
  BY DEF Write
<1> HIDE DEF Memory
<1> QED
  BY <1>1, <1>2, Writing

\* The same for Retract.
LEMMA RetractStep ==
  ASSUME IInv, NEW w \in Writer, NEW f \in Fact, Retract(w, f)
  PROVE  Changes(Memory, JournalRetract(Memory, w, f), f, Retracted(Content(SlotFor(ps, f)), w))
<1>1. MemoryOK(Memory) /\ Memory.ps = ps
  BY DEF IInv, Consistent, Memory
<1>2. w \in Content(SlotFor(ps, f)).writers
  BY <1>1 DEF Retract, MemoryOK
<1> HIDE DEF Memory
<1> QED
  BY <1>1, <1>2, Retracting

\* The clone q of a capture and the memory t its installation leaves.
PromotesTo(w, c, q, t) ==
  /\ ArenaOK(q)
  /\ \A i \in DOMAIN q.slots :
       Occupied(q.slots[i]) => ~InstallConflicts(Live[q.slots[i].fact], Content(q.slots[i]))
  /\ \A f \in Fact : Content(SlotFor(q, f)) =
       IF f \in DOMAIN c THEN Written(Content(SlotFor(ps, f)), c[f], w, Shareable(w, f))
       ELSE Content(SlotFor(ps, f))
  /\ Consistent(t, snap, TRUE)
  /\ \A f \in Fact : FirstSlot(t, f) = FirstSlot(Memory, f) /\ FirstSlot(t, f) = SlotFor(ps, f)
  /\ \A f \in Fact : Touched(t, f) <=> Occupied(SlotFor(q, f))
  /\ \A f \in Fact : Content(SlotFor(t.ps, f)) =
       IF Occupied(SlotFor(q, f)) THEN Installed(Content(SlotFor(ps, f)), Content(SlotFor(q, f)))
       ELSE Content(SlotFor(ps, f))

\* capture_plan and promote_plan together.
LEMMA PromoteStep ==
  ASSUME IInv, NEW w \in Writer, NEW c \in Captures, NEW order \in SetToSeqs(DOMAIN c),
         Promote(w, c, order)
  PROVE  LET q == CaptureStore(w, c, order)
             t == Installs!After(Memory, q.slots)
         IN Becomes(t) /\ promoted' = TRUE /\ PromotesTo(w, c, q, t)
<1> DEFINE q == CaptureStore(w, c, order)
           t == Installs!After(Memory, q.slots)
<1>1. /\ Consistent(Memory, snap, promoted) /\ promoted \in BOOLEAN
      /\ Memory.ps = ps /\ Memory.journal = <<>> /\ ArenaOK(ps)
  BY DEF IInv, Consistent, MemoryOK, Memory, Promote
<1>2. /\ Becomes(t) /\ promoted' = TRUE
      /\ \A i \in DOMAIN q.slots :
           Occupied(q.slots[i]) => ~InstallConflicts(Live[q.slots[i].fact], Content(q.slots[i]))
  BY DEF Promote
<1>3. /\ ArenaOK(q)
      /\ \A f \in Fact : Content(SlotFor(q, f)) =
           IF f \in DOMAIN c THEN Written(Content(SlotFor(ps, f)), c[f], w, Shareable(w, f))
           ELSE Content(SlotFor(ps, f))
      /\ \A f \in Fact : \A o \in OrdOf(SlotFor(q, f)) : o \in OrdOf(SlotFor(ps, f)) \/ ps.next <= o
  BY <1>1, Capturing
<1> HIDE DEF q, Memory
<1>4. \A f \in Fact : \A o \in OrdOf(SlotFor(q, f)) : o \in OrdOf(SlotFor(Memory.ps, f)) \/ Memory.ps.next <= o
  BY <1>1, <1>3
<1>5. InstallsTo(Memory, snap, q, t)
  BY <1>1, <1>3, <1>4, PromoteConsistent
<1>6. \A f \in Fact : FirstSlot(Memory, f) = SlotFor(Memory.ps, f)
  BY <1>1, EmptyJournal
<1> HIDE DEF t
<1>7. PromotesTo(w, c, q, t)
  BY <1>1, <1>2, <1>3, <1>5, <1>6 DEF PromotesTo, InstallsTo
<1> QED
  BY <1>2, <1>7 DEF t, q

\* Every step of a command, and of a promotion that fails, keeps the invariant.
LEMMA NextIInv == IInv /\ [CommandNext]_vars => IInv'
<1> SUFFICES ASSUME IInv, [CommandNext]_vars PROVE IInv'
  OBVIOUS
<1>0. /\ Consistent(Memory, snap, promoted) /\ promoted \in BOOLEAN /\ MemoryOK(Memory)
      /\ Memory.ps = ps /\ Memory.journal = journal /\ pre \in [Fact -> Slot]
  BY DEF IInv, Consistent, Memory
<1>1. CASE Begin
  <2>1. Memory' = Memory /\ snap' = snap /\ active' = TRUE /\ promoted' = FALSE /\ journal = <<>>
    BY <1>1 DEF Begin, Memory, IInv
  <2>2. Consistent(Memory', snap', promoted')
    BY <1>0, <2>1, EmptyJournal
  <2>3. \A f \in Fact : FirstSlot(Memory, f) = SlotFor(ps, f)
    BY <1>0, <2>1, EmptyJournal
  <2>4. pre' = [f \in Fact |-> Content(SlotFor(ps, f))]
    BY <1>1 DEF Begin, Live
  <2>5. \A f \in Fact : pre'[f] = Content(FirstSlot(Memory', f))
    BY <2>1, <2>3, <2>4
  <2>6. \A f \in Fact : Content(SlotFor(ps, f)) \in Slot
    BY <1>0, SlotsOfFact, ContentOccupied
  <2>7. pre' \in [Fact -> Slot]
    BY <2>4, <2>6
  <2> QED
    BY <2>1, <2>2, <2>5, <2>7 DEF IInv
<1>2. ASSUME NEW w \in Writer, NEW f \in Fact, NEW v \in ValueOrNone, Write(w, f, v) PROVE IInv'
  <2> DEFINE m == JournalWrite(Memory, w, f, v)
             c == Written(Content(SlotFor(ps, f)), v, w, Shareable(w, f))
  <2>1. Changes(Memory, m, f, c)
    BY <1>2, WriteStep
  <2>2. active /\ Becomes(m) /\ promoted' = promoted
    BY <1>2 DEF Write
  <2> HIDE DEF m, c
  <2>3. Consistent(m, snap, promoted')
    BY <1>0, <2>1, <2>2, ChangeConsistent
  <2> QED
    BY <1>0, <2>1, <2>2, <2>3, BecomesIInv DEF Changes
<1>3. ASSUME NEW w \in Writer, NEW f \in Fact, Retract(w, f) PROVE IInv'
  <2> DEFINE m == JournalRetract(Memory, w, f)  c == Retracted(Content(SlotFor(ps, f)), w)
  <2>1. Changes(Memory, m, f, c)
    BY <1>3, RetractStep
  <2>2. active /\ Becomes(m) /\ promoted' = promoted
    BY <1>3 DEF Retract
  <2> HIDE DEF m, c
  <2>3. Consistent(m, snap, promoted')
    BY <1>0, <2>1, <2>2, ChangeConsistent
  <2> QED
    BY <1>0, <2>1, <2>2, <2>3, BecomesIInv DEF Changes
<1>4. ASSUME NEW w \in Writer, NEW c \in Captures, NEW order \in SetToSeqs(DOMAIN c),
             Promote(w, c, order)
      PROVE  IInv'
  <2> DEFINE t == Installs!After(Memory, CaptureStore(w, c, order).slots)
  <2>1. Becomes(t) /\ promoted' = TRUE /\ PromotesTo(w, c, CaptureStore(w, c, order), t)
    BY <1>4, PromoteStep
  <2>2. active
    BY <1>4 DEF Promote
  <2> HIDE DEF t
  <2>3. Consistent(t, snap, TRUE) /\ \A f \in Fact : FirstSlot(t, f) = FirstSlot(Memory, f)
    BY <2>1 DEF PromotesTo
  <2> QED
    BY <2>1, <2>2, <2>3, BecomesIInv
<1>5. CASE Rollback
  <2> DEFINE t == [ps |-> Undo!After(ps, Reverse(journal)), journal |-> <<>>]
  <2>1. Consistent(t, snap, promoted)
    BY <1>0, RollbackConsistent
  <2>2. Memory' = t /\ snap' = snap /\ promoted' = promoted /\ active' = FALSE /\ journal' = <<>> /\ pre' = pre
    BY <1>5 DEF Rollback, Memory
  <2> HIDE DEF t
  <2> QED
    BY <1>0, <2>1, <2>2 DEF IInv
<1>6. CASE ~promoted /\ Commit
  <2> DEFINE t == [ps |-> ps, journal |-> <<>>]  q == Deltas!After(snap, journal)
  <2>1. Consistent(Memory, snap, FALSE)
    BY <1>0, <1>6
  <2>2. Consistent(t, q, FALSE)
    BY <1>0, <2>1, CommitConsistent
  <2>3. /\ Memory' = t /\ snap' = q /\ promoted' = promoted /\ promoted = FALSE
        /\ active' = FALSE /\ journal' = <<>> /\ pre' = pre
    BY <1>0, <1>6 DEF Commit, Memory
  <2> HIDE DEF t, q
  <2> QED
    BY <1>0, <2>2, <2>3 DEF IInv
<1>7. CASE UNCHANGED vars
  <2>1. /\ Memory' = Memory /\ snap' = snap /\ promoted' = promoted /\ active' = active
        /\ journal' = journal /\ pre' = pre
    BY <1>7 DEF vars, Memory
  <2> QED
    BY <2>1 DEF IInv
<1> QED
  BY <1>1, <1>2, <1>3, <1>4, <1>5, <1>6, <1>7 DEF CommandNext, Work, Done

\* Every reachable state satisfies the invariant.
THEOREM Invariance == CommandSpec => []IInv
<1> QED
  BY InitIInv, NextIInv, PTL DEF CommandSpec

-----------------------------------------------------------------------------
(* The indexes and the snapshot *)

\* While no root is being promoted every slot is indexed and no two facts share
\* an ordinal.
LEMMA Settled ==
  ASSUME IInv, ~(active /\ promoted)
  PROVE  /\ ArenaOK(ps) /\ IndexSound(ps)
         /\ \A f \in Fact : Indexed(ps, f)
         /\ \A f, g \in Fact : f # g => OrdOf(SlotFor(ps, f)) \cap OrdOf(SlotFor(ps, g)) = {}
<1>0. /\ Consistent(Memory, snap, promoted) /\ promoted \in BOOLEAN /\ active \in BOOLEAN
      /\ Memory.ps = ps /\ Memory.journal = journal /\ (~active => journal = <<>>)
  BY DEF IInv, Memory
<1> HIDE DEF Memory
<1>1. Consistent(Memory, snap, FALSE)
  <2>1. CASE ~active
    BY <1>0, <2>1, EmptyJournal
  <2>2. CASE ~promoted
    <3>1. promoted = FALSE
      BY <1>0, <2>2
    <3> QED
      BY <1>0, <3>1
  <2> QED
    BY <2>1, <2>2
<1>2. Findable(Memory, snap, FALSE) /\ Ordinals(Memory, snap, FALSE) /\ MemoryOK(Memory) /\ IndexSound(Memory.ps)
  BY <1>1 DEF Consistent
<1> QED
  BY <1>0, <1>2 DEF Findable, Ordinals, UsedOf, MemoryOK

\* IInv implies the property of the indexes.
LEMMA IInvIndexes == IInv => IndexesAgree
<1> DEFINE used == {i \in DOMAIN ps.slots : Occupied(ps.slots[i])}
           owned(w) == {i \in used : w \in ps.slots[i].writers}
<1> SUFFICES ASSUME IInv, ~(active /\ promoted)
             PROVE  /\ \A i, j \in used : ps.slots[i].fact = ps.slots[j].fact => i = j
                    /\ ToSet(ps.free) = DOMAIN ps.slots \ used /\ IsInjective(ps.free)
                    /\ \A v \in View :
                         /\ IsInjective(Enumerate(ps, v))
                         /\ Range(Enumerate(ps, v)) = {f \in Fact : ViewOf[f] = v /\ Present(Live[f])}
                    /\ \A w \in Writer :
                         /\ \A i \in owned(w) : /\ ps.slots[i].ord \in DOMAIN ps.byOwner[w]
                                                /\ ps.byOwner[w][ps.slots[i].ord] = i
                         /\ DOMAIN ps.byOwner[w] = {ps.slots[i].ord : i \in owned(w)}
  BY DEF IndexesAgree
<1>0. /\ ArenaOK(ps) /\ IndexSound(ps) /\ \A f \in Fact : Indexed(ps, f)
      /\ \A f, g \in Fact : f # g => OrdOf(SlotFor(ps, f)) \cap OrdOf(SlotFor(ps, g)) = {}
  BY Settled
<1>1. \A i, j \in used : ps.slots[i].fact = ps.slots[j].fact => i = j
  BY <1>0 DEF ArenaOK, Unique
<1>2. ToSet(ps.free) = DOMAIN ps.slots \ used /\ IsInjective(ps.free)
  BY <1>0 DEF ArenaOK, FreeExact, ToSet
<1>3. \A f \in Fact : Present(Live[f]) <=> Occupied(SlotFor(ps, f))
  BY <1>0, SlotIndexFinds, ContentOccupied DEF Live
\* The fact of an occupied cell, and the cell of a present fact.
<1>4. ASSUME NEW i \in used
      PROVE  /\ ps.slots[i].fact \in Fact /\ SlotIndex(ps, ps.slots[i].fact) = i
             /\ SlotFor(ps, ps.slots[i].fact) = ps.slots[i]
  <2>1. ps.slots \in Seq(Cell)
    BY <1>0 DEF ArenaOK, PlainState
  <2>2. ps.slots[i] \in Cell
    BY <2>1
  <2>3. ps.slots[i].fact \in Fact /\ i # 0
    BY <2>1, <2>2, CellKinds
  <2>4. SlotIndex(ps, ps.slots[i].fact) = i
    BY <1>0, <2>3, SlotIndexFinds
  <2> QED
    BY <2>3, <2>4 DEF SlotFor
<1>5. ASSUME NEW f \in Fact, Occupied(SlotFor(ps, f))
      PROVE  /\ SlotIndex(ps, f) \in used /\ ps.slots[SlotIndex(ps, f)] = SlotFor(ps, f)
             /\ SlotFor(ps, f).fact = f /\ OrdOf(SlotFor(ps, f)) = {SlotFor(ps, f).ord}
  BY <1>0, <1>5, SlotIndexFinds DEF OrdOf
<1>6. ASSUME NEW v \in View
      PROVE  /\ IsInjective(Enumerate(ps, v))
             /\ Range(Enumerate(ps, v)) = {f \in Fact : ViewOf[f] = v /\ Present(Live[f])}
  <2>1. ASSUME NEW o \in DOMAIN ps.byView[v]
        PROVE  \E f \in Fact : /\ ViewOf[f] = v /\ Occupied(SlotFor(ps, f)) /\ SlotFor(ps, f).ord = o
                               /\ Enumerate(ps, v)[o] = f
    <3>1. PICK f \in Fact : ViewOf[f] = v /\ Occupied(SlotFor(ps, f)) /\ SlotFor(ps, f).ord = o
      BY <1>0 DEF IndexSound
    <3>2. ps.byView[v][o] = SlotIndex(ps, f)
      BY <1>0, <3>1 DEF Indexed
    <3>3. Enumerate(ps, v)[o] = f
      BY <1>5, <3>1, <3>2 DEF Enumerate
    <3> QED
      BY <3>1, <3>3
  <2>2. DOMAIN Enumerate(ps, v) = DOMAIN ps.byView[v]
    BY DEF Enumerate
  <2>3. IsInjective(Enumerate(ps, v))
    BY <2>1, <2>2 DEF IsInjective
  <2>4. ASSUME NEW f \in Fact, ViewOf[f] = v, Present(Live[f])
        PROVE  f \in Range(Enumerate(ps, v))
    <3>1. Occupied(SlotFor(ps, f))
      BY <1>3, <2>4
    <3>2. SlotFor(ps, f).ord \in DOMAIN ps.byView[v]
      BY <1>0, <2>4, <3>1 DEF Indexed
    <3>3. PICK g \in Fact : /\ Occupied(SlotFor(ps, g)) /\ SlotFor(ps, g).ord = SlotFor(ps, f).ord
                            /\ Enumerate(ps, v)[SlotFor(ps, f).ord] = g
      BY <2>1, <3>2
    <3>4. f = g
      BY <1>0, <1>5, <3>1, <3>3
    <3> QED
      BY <2>2, <3>2, <3>3, <3>4 DEF Range
  <2> QED
    BY <1>3, <2>1, <2>2, <2>3, <2>4 DEF Range
<1>7. ASSUME NEW w \in Writer
      PROVE  /\ \A i \in owned(w) : /\ ps.slots[i].ord \in DOMAIN ps.byOwner[w]
                                    /\ ps.byOwner[w][ps.slots[i].ord] = i
             /\ DOMAIN ps.byOwner[w] = {ps.slots[i].ord : i \in owned(w)}
  <2>1. ASSUME NEW i \in owned(w)
        PROVE  ps.slots[i].ord \in DOMAIN ps.byOwner[w] /\ ps.byOwner[w][ps.slots[i].ord] = i
    <3>1. /\ ps.slots[i].fact \in Fact /\ SlotIndex(ps, ps.slots[i].fact) = i
          /\ SlotFor(ps, ps.slots[i].fact) = ps.slots[i]
      BY <1>4
    <3> QED
      BY <1>0, <3>1 DEF Indexed
  <2>2. ASSUME NEW o \in DOMAIN ps.byOwner[w]
        PROVE  \E i \in owned(w) : ps.slots[i].ord = o
    <3>1. PICK f \in Fact : /\ Occupied(SlotFor(ps, f)) /\ w \in SlotFor(ps, f).writers
                            /\ SlotFor(ps, f).ord = o
      BY <1>0 DEF IndexSound
    <3> QED
      BY <1>5, <3>1
  <2> QED
    BY <2>1, <2>2
<1> QED
  BY <1>1, <1>2, <1>6, <1>7

\* FactArena.IndexesAgree for every value of the constants.
THEOREM IndexesAlwaysAgree == CommandSpec => []IndexesAgree
<1> QED
  BY Invariance, IInvIndexes, PTL

\* A snapshot that holds a slot shows its value.
LEMMA LookupHolds ==
  ASSUME NEW s, NEW f \in Fact, NEW cell \in Cell, Holds(s, f, cell)
  PROVE  Lookup(s, f) = Content(cell).val
<1>1. CASE Occupied(cell)
  <2>1. Content(cell).val = cell.val
    BY <1>1, ContentOccupied
  <2>2. /\ f \in DOMAIN s.byKey /\ s.byKey[f] \in DOMAIN s.byOrdinal[ViewOf[f]]
        /\ s.byOrdinal[ViewOf[f]][s.byKey[f]] = [fact |-> f, val |-> cell.val]
    BY <1>1 DEF Holds
  <2>3. s.byOrdinal[ViewOf[f]][s.byKey[f]].val = cell.val
    BY <2>2
  <2> QED
    BY <2>1, <2>2, <2>3 DEF Lookup
<1>2. CASE ~Occupied(cell)
  <2>1. Content(cell).val = NoValue
    BY <1>2, ContentOccupied
  <2> QED
    BY <1>2, <2>1 DEF Holds, Lookup
<1> QED
  BY <1>1, <1>2

\* IInv implies the property of the snapshot.
LEMMA IInvSnapshot == IInv => SnapshotExact
<1> SUFFICES ASSUME IInv, ~active PROVE SnapshotExact
  BY DEF SnapshotExact
<1>0. /\ Consistent(Memory, snap, promoted) /\ promoted \in BOOLEAN
      /\ Memory.ps = ps /\ Memory.journal = <<>>
  BY DEF IInv, Memory
<1> HIDE DEF Memory
<1>1. /\ MemoryOK(Memory) /\ SnapOK(Memory, snap) /\ Ordinals(Memory, snap, promoted)
      /\ \A f \in Fact : FirstSlot(Memory, f) = SlotFor(ps, f)
  BY <1>0, EmptyJournal DEF Consistent
<1>2. \A f \in Fact : SlotFor(ps, f) \in Cell /\ Live[f] = Content(SlotFor(ps, f))
  BY <1>0, <1>1, SlotsOfFact DEF Live
<1>3. \A f \in Fact : Present(Live[f]) <=> Occupied(SlotFor(ps, f))
  BY <1>2, ContentOccupied
<1>4. ASSUME NEW f \in Fact PROVE Holds(snap, f, SlotFor(ps, f))
  BY <1>1 DEF SnapOK
<1>5. \A f \in Fact : Lookup(snap, f) = Live[f].val
  BY <1>2, <1>4, LookupHolds
<1>6. \A f, g \in DOMAIN snap.byKey : f # g => snap.byKey[f] # snap.byKey[g]
  <2>1. \A f, g \in Fact : f # g => KeyOrd(snap, f) \cap KeyOrd(snap, g) = {}
    BY <1>1 DEF Ordinals, BaseOf
  <2>2. DOMAIN snap.byKey \subseteq Fact
    BY <1>1 DEF SnapOK, SnapSound
  <2> QED
    BY <2>1, <2>2 DEF KeyOrd
<1>7. ASSUME NEW v \in View
      PROVE  /\ IsInjective(SnapEnumerate(snap, v))
             /\ Range(SnapEnumerate(snap, v)) = {f \in Fact : ViewOf[f] = v /\ Present(Live[f])}
  <2>1. DOMAIN SnapEnumerate(snap, v) = DOMAIN snap.byOrdinal[v]
    BY DEF SnapEnumerate
  <2>2. ASSUME NEW o \in DOMAIN snap.byOrdinal[v]
        PROVE  \E f \in Fact : /\ ViewOf[f] = v /\ f \in DOMAIN snap.byKey /\ snap.byKey[f] = o
                               /\ Occupied(SlotFor(ps, f)) /\ SnapEnumerate(snap, v)[o] = f
    <3>1. PICK f \in DOMAIN snap.byKey : ViewOf[f] = v /\ snap.byKey[f] = o
      BY <1>1 DEF SnapOK, SnapSound
    <3>2. f \in Fact
      BY <1>1, <3>1 DEF SnapOK, SnapSound
    <3>3. Occupied(SlotFor(ps, f)) /\ snap.byOrdinal[v][o] = [fact |-> f, val |-> SlotFor(ps, f).val]
      BY <1>4, <3>1, <3>2 DEF Holds
    <3>4. snap.byOrdinal[v][o].fact = f
      BY <3>3
    <3> QED
      BY <3>1, <3>2, <3>3, <3>4 DEF SnapEnumerate
  <2>3. IsInjective(SnapEnumerate(snap, v))
    BY <2>1, <2>2 DEF IsInjective
  <2>4. ASSUME NEW f \in Fact, ViewOf[f] = v, Present(Live[f])
        PROVE  f \in Range(SnapEnumerate(snap, v))
    <3>1. f \in DOMAIN snap.byKey /\ snap.byKey[f] \in DOMAIN snap.byOrdinal[v]
      BY <1>3, <1>4, <2>4 DEF Holds
    <3>2. SnapEnumerate(snap, v)[snap.byKey[f]] = f
      BY <1>6, <2>2, <3>1
    <3> QED
      BY <2>1, <3>1, <3>2 DEF Range
  <2> QED
    BY <1>3, <2>1, <2>2, <2>3, <2>4 DEF Range
<1> QED
  BY <1>5, <1>7 DEF SnapshotExact

\* FactArena.SnapshotExact for every value of the constants, as long as no
\* promoted root commits.
THEOREM SnapshotAlwaysExact == CommandSpec => []SnapshotExact
<1> QED
  BY Invariance, IInvSnapshot, PTL

-----------------------------------------------------------------------------
(* Rollback *)

\* What one rollback does: every fact has the slot, and so the content, it began with.
LEMMA RollbackStep ==
  ASSUME IInv, Rollback
  PROVE  /\ Live' = pre
         /\ \A f \in Fact : SlotFor(ps', f) = FirstSlot(Memory, f)
<1>0. /\ Consistent(Memory, snap, promoted) /\ promoted \in BOOLEAN
      /\ Memory.ps = ps /\ Memory.journal = journal
  BY DEF IInv, Memory
<1>1. ps' = Undo!After(Memory.ps, Reverse(Memory.journal))
  BY <1>0 DEF Rollback
<1>2. \A f \in Fact : SlotFor(ps', f) = FirstSlot(Memory, f)
  BY <1>0, <1>1, RollbackConsistent
<1>3. pre \in [Fact -> Slot] /\ \A f \in Fact : pre[f] = Content(FirstSlot(Memory, f))
  BY DEF IInv, Rollback
<1>4. Live' = [f \in Fact |-> Content(SlotFor(ps', f))]
  BY DEF Live
<1> QED
  BY <1>2, <1>3, <1>4

\* FactArena.RollbackExact for every value of the constants, promoted roots
\* included.
THEOREM RollbackAlwaysExact == CommandSpec => RollbackExact
<1>1. IInv /\ [CommandNext]_vars => [Rollback => Live' = pre]_vars
  BY RollbackStep
<1> QED
  BY <1>1, Invariance, PTL DEF CommandSpec, RollbackExact

-----------------------------------------------------------------------------
(* Refinement: the journal's entries are the touched facts of FactTxn *)

\* The mapped variables, in the terms of the lemmas.
Mapped ==
  /\ {e.fact : e \in ToSet(journal)} = {f \in Fact : Touched(Memory, f)}
  /\ \A f \in Fact : FirstOf(f) = IF Touched(Memory, f) THEN Content(FirstSlot(Memory, f)) ELSE AbsentSlot
  /\ \A f \in Fact : Lookup(snap, f) = Content(FirstSlot(Memory, f)).val
  /\ {e.fact : e \in {e \in ToSet(journal) : ReportedEntry(e)}}
       = {f \in Fact : /\ Touched(Memory, f)
                       /\ Reported(Content(FirstSlot(Memory, f)), Content(SlotFor(ps, f)))}

\* The invariant makes the journal, the first slots and the snapshot read like
\* the variables of FactTxn.
LEMMA Mapping == IInv => Mapped
<1> SUFFICES ASSUME IInv PROVE Mapped
  OBVIOUS
<1>0. /\ MemoryOK(Memory) /\ SnapOK(Memory, snap) /\ Memory.ps = ps /\ Memory.journal = journal
      /\ JournalOK(journal)
  BY DEF IInv, Consistent, Memory, MemoryOK
<1> HIDE DEF Memory
<1>1. journal \in Seq(Entry)
  BY <1>0 DEF JournalOK
<1>2. \A n \in DOMAIN journal : journal[n] \in Entry /\ n # 0
  BY <1>1
<1>3. \A n \in DOMAIN journal : journal[n].fact \in Fact
  BY <1>2 DEF Entry
<1>4. ASSUME NEW n \in DOMAIN journal
      PROVE  LET f == journal[n].fact IN
             /\ Touched(Memory, f) /\ FirstSlot(Memory, f) = journal[n].first
             /\ Current(Memory, f) = journal[n].staged
  <2>1. EntryOf(journal, journal[n].fact) = n
    BY <1>0, <1>3, EntryOfFinds
  <2> QED
    BY <1>0, <1>2, <2>1 DEF Touched, FirstSlot, Current
<1>5. \A f \in Fact : Touched(Memory, f) => \E n \in DOMAIN journal : journal[n].fact = f
  BY <1>0, EntryOfFinds DEF Touched
<1>6. {e.fact : e \in ToSet(journal)} = {f \in Fact : Touched(Memory, f)}
  BY <1>3, <1>4, <1>5 DEF ToSet
<1>7. \A f \in Fact : FirstOf(f) = IF Touched(Memory, f) THEN Content(FirstSlot(Memory, f)) ELSE AbsentSlot
  BY <1>0 DEF FirstOf, Touched, FirstSlot
<1>8. \A f \in Fact : Lookup(snap, f) = Content(FirstSlot(Memory, f)).val
  BY <1>0, SlotsOfFact, LookupHolds DEF SnapOK
<1>9. \A n \in DOMAIN journal :
        ReportedEntry(journal[n]) <=>
          Reported(Content(FirstSlot(Memory, journal[n].fact)), Content(SlotFor(ps, journal[n].fact)))
  BY <1>0, <1>3, <1>4 DEF ReportedEntry, MemoryOK
<1>10. {e.fact : e \in {e \in ToSet(journal) : ReportedEntry(e)}}
         = {f \in Fact : /\ Touched(Memory, f)
                         /\ Reported(Content(FirstSlot(Memory, f)), Content(SlotFor(ps, f)))}
  BY <1>3, <1>4, <1>5, <1>9 DEF ToSet
<1> QED
  BY <1>6, <1>7, <1>8, <1>10 DEF Mapped

\* Stage of FactTxn, over the variables before and after as parameters.
Touches == {e.fact : e \in ToSet(journal)}
Firsts == [f \in Fact |-> FirstOf(f)]
Staged(T, next, live0, touched0, first0, live1, touched1, first1) ==
  /\ first1 = [f \in Fact |-> IF f \in T \ touched0 THEN live0[f] ELSE first0[f]]
  /\ touched1 = touched0 \cup T
  /\ live1 = [f \in Fact |-> IF f \in T THEN next[f] ELSE live0[f]]

\* A step that touches the facts of T and gives them the contents of `next`.
LEMMA StageMaps ==
  ASSUME IInv, IInv', UNCHANGED <<snap, lastChanged, active, pre>>,
         NEW T \in SUBSET Fact, NEW next,
         \A f \in Fact : Touched(Memory', f) <=> Touched(Memory, f) \/ f \in T,
         \A f \in Fact : FirstSlot(Memory', f) = FirstSlot(Memory, f),
         \A f \in Fact : Content(SlotFor(ps', f)) = IF f \in T THEN next[f] ELSE Content(SlotFor(ps, f))
  PROVE  Staged(T, next, Live, Touches, Firsts, Live', Touches', Firsts')
<1> DEFINE touched == {e.fact : e \in ToSet(journal)}
           first == [f \in Fact |-> FirstOf(f)]
<1>1. /\ touched = {f \in Fact : Touched(Memory, f)}
      /\ \A f \in Fact : first[f] = IF Touched(Memory, f) THEN Content(FirstSlot(Memory, f)) ELSE AbsentSlot
  BY Mapping DEF Mapped
<1>2. /\ touched' = {f \in Fact : Touched(Memory', f)}
      /\ \A f \in Fact : first'[f] = IF Touched(Memory', f) THEN Content(FirstSlot(Memory', f)) ELSE AbsentSlot
  <2>1. IInv' => Mapped'
    BY Mapping, PTL
  <2> QED
    BY <2>1 DEF Mapped
<1>3. \A f \in Fact : ~Touched(Memory, f) => FirstSlot(Memory, f) = SlotFor(ps, f)
  BY DEF FirstSlot, Memory
<1>4. first' = [f \in Fact |-> IF f \in T \ touched THEN Live[f] ELSE first[f]]
  <2>1. ASSUME NEW f \in Fact
        PROVE  first'[f] = IF f \in T \ touched THEN Live[f] ELSE first[f]
    <3>1. Live[f] = Content(SlotFor(ps, f))
      BY DEF Live
    <3> HIDE DEF first, touched
    <3> QED
      BY <1>1, <1>2, <1>3, <3>1
  <2> QED
    BY <2>1
<1>5. touched' = touched \cup T
  <2> HIDE DEF touched
  <2> QED
    BY <1>1, <1>2
<1>6. Live' = [f \in Fact |-> IF f \in T THEN next[f] ELSE Live[f]]
  BY DEF Live
<1> QED
  BY <1>4, <1>5, <1>6 DEF Staged, Touches, Firsts

\* FactTxn uses the same rules for one fact.
LEMMA SameRules ==
  /\ Txn!AbsentSlot = AbsentSlot /\ Txn!ValueOrNone = ValueOrNone
  /\ \A s : Txn!Present(s) <=> Present(s)
  /\ \A w, f : Txn!Shareable(w, f) <=> Shareable(w, f)
  /\ \A s, v, w : \A sh \in BOOLEAN : Txn!Conflicts(s, v, w, sh) <=> Conflicts(s, v, w, sh)
  /\ \A s, v, w : \A sh \in BOOLEAN : Txn!Written(s, v, w, sh) = Written(s, v, w, sh)
  /\ \A s, w : Txn!Retracted(s, w) = Retracted(s, w)
  /\ \A s, t : Txn!InstallConflicts(s, t) <=> InstallConflicts(s, t)
  /\ \A s, t : Txn!Installed(s, t) = Installed(s, t)
  /\ \A s, t : Txn!Reported(s, t) <=> Reported(s, t)
<1>1. Txn!AbsentSlot = AbsentSlot /\ Txn!ValueOrNone = ValueOrNone /\ \A s : Txn!Present(s) <=> Present(s)
  BY DEF Txn!AbsentSlot, AbsentSlot, Txn!ValueOrNone, ValueOrNone, Txn!Present, Present
<1>2. \A w, f : Txn!Shareable(w, f) <=> Shareable(w, f)
  BY DEF Txn!Shareable, Shareable
<1>3. \A s, v, w : \A sh \in BOOLEAN : Txn!Conflicts(s, v, w, sh) <=> Conflicts(s, v, w, sh)
  BY DEF Txn!Conflicts, Conflicts, Txn!Present, Present
<1>4. \A s, w : Txn!Dropped(s, w) = Dropped(s, w)
  BY <1>1 DEF Txn!Dropped, Dropped
<1>5. \A s, v, w : \A sh \in BOOLEAN : Txn!Written(s, v, w, sh) = Written(s, v, w, sh)
  BY <1>1, <1>4 DEF Txn!Written, Written
<1>6. \A s, w : Txn!Retracted(s, w) = Retracted(s, w)
  BY <1>4 DEF Txn!Retracted, Retracted
<1>7. /\ \A s, t : Txn!InstallConflicts(s, t) <=> InstallConflicts(s, t)
      /\ \A s, t : Txn!Installed(s, t) = Installed(s, t)
      /\ \A s, t : Txn!Reported(s, t) <=> Reported(s, t)
  BY <1>1 DEF Txn!InstallConflicts, InstallConflicts, Txn!Installed, Installed, Txn!Reported, Reported
<1> QED
  BY <1>1, <1>2, <1>3, <1>5, <1>6, <1>7

\* A step of one journalled change.
LEMMA ChangeMaps ==
  ASSUME IInv, IInv', NEW m, Becomes(m), NEW f \in Fact, NEW c, Changes(Memory, m, f, c)
  PROVE  Staged({f}, [g \in Fact |-> c], Live, Touches, Firsts, Live', Touches', Firsts')
<1>1. m = [ps |-> m.ps, journal |-> m.journal]
  BY DEF Changes, MemoryOK, Memories
<1>2. Memory' = m /\ ps' = m.ps /\ Memory.ps = ps /\ UNCHANGED <<snap, lastChanged, active, pre>>
  BY <1>1 DEF Memory, Becomes
<1>3. \A g \in Fact : Touched(Memory', g) <=> Touched(Memory, g) \/ g \in {f}
  BY <1>2 DEF Changes
<1>4. \A g \in Fact : FirstSlot(Memory', g) = FirstSlot(Memory, g)
  BY <1>2 DEF Changes
<1>5. \A g \in Fact : Content(SlotFor(ps', g)) =
        IF g \in {f} THEN [h \in Fact |-> c][g] ELSE Content(SlotFor(ps, g))
  BY <1>2 DEF Changes
<1> QED
  BY <1>2, <1>3, <1>4, <1>5, StageMaps

\* A promotion is a promotion of FactTxn.
LEMMA PromoteMaps ==
  ASSUME IInv, IInv', NEW w \in Writer, NEW c \in Captures, NEW order \in SetToSeqs(DOMAIN c),
         Promote(w, c, order)
  PROVE  Txn!Promote(w, c)
<1> DEFINE q == CaptureStore(w, c, order)
           t == Installs!After(Memory, q.slots)
           captured == Txn!Captured(w, c)
           facts == {f \in Fact : Txn!Present(captured[f])}
           next == [f \in Fact |-> Txn!Installed(Live[f], captured[f])]
<1>0. Becomes(t) /\ promoted' = TRUE /\ PromotesTo(w, c, q, t)
  BY PromoteStep
<1> HIDE DEF q, t
<1>1. /\ Becomes(t) /\ promoted' = TRUE /\ ArenaOK(q) /\ Consistent(t, snap, TRUE)
      /\ \A i \in DOMAIN q.slots :
           Occupied(q.slots[i]) => ~InstallConflicts(Live[q.slots[i].fact], Content(q.slots[i]))
      /\ \A f \in Fact : Content(SlotFor(q, f)) =
           IF f \in DOMAIN c THEN Written(Content(SlotFor(ps, f)), c[f], w, Shareable(w, f))
           ELSE Content(SlotFor(ps, f))
      /\ \A f \in Fact : FirstSlot(t, f) = FirstSlot(Memory, f) /\ FirstSlot(t, f) = SlotFor(ps, f)
      /\ \A f \in Fact : Touched(t, f) <=> Occupied(SlotFor(q, f))
      /\ \A f \in Fact : Content(SlotFor(t.ps, f)) =
           IF Occupied(SlotFor(q, f)) THEN Installed(Content(SlotFor(ps, f)), Content(SlotFor(q, f)))
           ELSE Content(SlotFor(ps, f))
  BY <1>0 DEF PromotesTo
<1>2. t = [ps |-> t.ps, journal |-> t.journal]
  BY <1>1 DEF Consistent, MemoryOK, Memories
<1>3. Memory' = t /\ ps' = t.ps /\ UNCHANGED <<snap, lastChanged, active, pre>>
  BY <1>1, <1>2 DEF Memory, Becomes
<1>4. \A f \in Fact : captured[f] = Content(SlotFor(q, f))
  <2>1. \A f \in Fact : Shareable(w, f) \in BOOLEAN /\ Txn!Shareable(w, f) = Shareable(w, f)
    BY DEF Shareable, Txn!Shareable
  <2>2. \A f \in Fact : captured[f] = IF f \in DOMAIN c THEN Written(Live[f], c[f], w, Shareable(w, f)) ELSE Live[f]
    BY <2>1, SameRules DEF Txn!Captured
  <2>3. \A f \in Fact : Live[f] = Content(SlotFor(ps, f))
    BY DEF Live
  <2> HIDE DEF captured
  <2> QED
    BY <1>1, <2>2, <2>3
<1>5. \A f \in Fact : f \in facts <=> Occupied(SlotFor(q, f))
  BY <1>1, <1>4, SlotIndexFinds, ContentOccupied, SameRules
<1>6. journal = <<>> /\ \A f \in Fact : ~Touched(Memory, f)
  <2>1. journal = <<>> /\ Memory.journal = journal /\ Consistent(Memory, snap, promoted) /\ promoted \in BOOLEAN
    BY DEF Promote, IInv, Memory
  <2> QED
    BY <2>1, EmptyJournal
<1>7. Staged(facts, next, Live, Touches, Firsts, Live', Touches', Firsts')
  <2>1. facts \in SUBSET Fact
    OBVIOUS
  <2> HIDE DEF facts
  <2>2. \A f \in Fact : Touched(Memory', f) <=> Touched(Memory, f) \/ f \in facts
    BY <1>1, <1>3, <1>5, <1>6
  <2>3. \A f \in Fact : FirstSlot(Memory', f) = FirstSlot(Memory, f)
    BY <1>1, <1>3
  <2>4. \A f \in Fact : next[f] = Installed(Content(SlotFor(ps, f)), Content(SlotFor(q, f)))
    BY <1>4, SameRules DEF Live
  <2> HIDE DEF next
  <2>5. \A f \in Fact : Content(SlotFor(ps', f)) = IF f \in facts THEN next[f] ELSE Content(SlotFor(ps, f))
    BY <1>1, <1>3, <1>5, <2>4
  <2> QED
    BY <1>3, <2>1, <2>2, <2>3, <2>5, StageMaps
<1>8. \A f \in facts : ~InstallConflicts(Live[f], captured[f])
  <2> SUFFICES ASSUME NEW f \in facts PROVE ~InstallConflicts(Live[f], captured[f])
    OBVIOUS
  <2>1. f \in Fact /\ Occupied(SlotFor(q, f))
    BY <1>5
  <2>2. /\ SlotIndex(q, f) \in DOMAIN q.slots /\ Occupied(q.slots[SlotIndex(q, f)])
        /\ q.slots[SlotIndex(q, f)].fact = f /\ SlotFor(q, f) = q.slots[SlotIndex(q, f)]
    BY <1>1, <2>1, SlotIndexFinds
  <2> HIDE DEF captured, facts
  <2> QED
    BY <1>1, <1>4, <2>1, <2>2
<1>9. /\ active /\ w # External /\ {e.fact : e \in ToSet(journal)} = {}
      /\ \A f \in DOMAIN c : ~Conflicts(Live[f], c[f], w, Shareable(w, f))
  BY <1>6 DEF Promote, ToSet
<1>10. \A f \in DOMAIN c : ~Txn!Conflicts(Live[f], c[f], w, Txn!Shareable(w, f))
  <2>1. \A f : Shareable(w, f) \in BOOLEAN /\ Txn!Shareable(w, f) = Shareable(w, f)
    BY DEF Shareable, Txn!Shareable
  <2> QED
    BY <1>9, <2>1, SameRules
<1> HIDE DEF captured, facts, next
<1>11. Txn!Stage(facts, next)
  BY <1>3, <1>7 DEF Txn!Stage, Staged, Touches, Firsts
<1>12. \A f \in facts : ~Txn!InstallConflicts(Live[f], captured[f])
  BY <1>8, SameRules
<1> QED
  BY <1>9, <1>10, <1>11, <1>12 DEF Txn!Promote, captured, facts, next

\* A rollback is a rollback of FactTxn.
LEMMA RollbackMaps == ASSUME IInv, IInv', Rollback PROVE Txn!Rollback
<1> DEFINE touched == {e.fact : e \in ToSet(journal)}
           first == [f \in Fact |-> FirstOf(f)]
<1>1. Mapped
  BY Mapping
<1>2. journal' = <<>> /\ UNCHANGED <<snap, lastChanged, pre>> /\ active /\ active' = FALSE
  BY DEF Rollback
<1>3. touched' = {} /\ first' = [f \in Fact |-> AbsentSlot]
  BY <1>2 DEF ToSet, FirstOf, EntryOf
<1>4. \A f \in Fact : SlotFor(ps', f) = FirstSlot(Memory, f)
  BY RollbackStep
<1>5. ASSUME NEW f \in Fact
      PROVE  Content(SlotFor(ps', f)) = IF f \in touched THEN first[f] ELSE Content(SlotFor(ps, f))
  <2>1. /\ f \in touched <=> Touched(Memory, f)
        /\ f \in touched => first[f] = Content(FirstSlot(Memory, f))
        /\ ~Touched(Memory, f) => FirstSlot(Memory, f) = SlotFor(ps, f)
    BY <1>1 DEF Mapped, FirstSlot, Memory
  <2> HIDE DEF touched, first
  <2> QED
    BY <1>4, <2>1
<1>6. Live' = [f \in Fact |-> IF f \in touched THEN first[f] ELSE Live[f]]
  BY <1>5 DEF Live
<1> HIDE DEF touched
<1> QED
  BY <1>2, <1>3, <1>6 DEF Txn!Rollback, Txn!NoFacts, Txn!AbsentSlot, AbsentSlot, touched

\* A commit is a commit of FactTxn.
LEMMA CommitMaps == ASSUME IInv, IInv', ~promoted, Commit PROVE Txn!Commit
<1> DEFINE touched == {e.fact : e \in ToSet(journal)}
           first == [f \in Fact |-> FirstOf(f)]
           changes == {f \in touched : Reported(first[f], Live[f])}
<1>0. /\ Mapped /\ Consistent(Memory, snap, FALSE) /\ MemoryOK(Memory)
      /\ Memory.ps = ps /\ Memory.journal = journal
  BY Mapping DEF IInv, Memory, Consistent
<1>1. /\ journal' = <<>> /\ UNCHANGED <<ps, pre>> /\ active /\ active' = FALSE
  BY <1>0 DEF Commit
<1>2. touched' = {} /\ first' = [f \in Fact |-> AbsentSlot] /\ Live' = Live
  BY <1>1 DEF ToSet, FirstOf, EntryOf, Live
<1>3. snap' = Deltas!After(snap, Memory.journal)
  BY <1>0 DEF Commit
<1>4. \A f \in Fact : Holds(snap', f, SlotFor(ps, f))
  BY <1>0, <1>3, CommitConsistent
<1>5. \A f \in Fact : Lookup(snap', f) = Live[f].val
  BY <1>0, <1>4, SlotsOfFact, LookupHolds DEF Live
<1>6. /\ changes = {f \in Fact : /\ Touched(Memory, f)
                                 /\ Reported(Content(FirstSlot(Memory, f)), Content(SlotFor(ps, f)))}
  BY <1>0 DEF Mapped, Live
<1>7. lastChanged' = changes
  BY <1>0, <1>6 DEF Commit, Mapped
<1>8. \A f \in Fact : f \notin changes => Lookup(snap, f) = Live[f].val
  <2>1. \A f \in Fact : Lookup(snap, f) = Content(FirstSlot(Memory, f)).val
    BY <1>0 DEF Mapped
  <2>2. \A f \in Fact : ~Touched(Memory, f) => FirstSlot(Memory, f) = SlotFor(ps, f)
    BY DEF FirstSlot, Memory
  <2>3. \A f \in Fact : Live[f] = Content(SlotFor(ps, f))
    BY DEF Live
  <2> HIDE DEF changes
  <2> QED
    BY <1>6, <2>1, <2>2, <2>3 DEF Reported
<1>9. [f \in Fact |-> Lookup(snap, f)]'
        = [f \in Fact |-> IF f \in changes THEN Live[f].val ELSE [g \in Fact |-> Lookup(snap, g)][f]]
  BY <1>5, <1>8
<1>10. Txn!CommitChanges = changes
  BY DEF Txn!CommitChanges, Txn!Reported, Reported
<1> HIDE DEF changes
<1> QED
  BY <1>1, <1>2, <1>7, <1>9, <1>10 DEF Txn!Commit, Txn!NoFacts, Txn!AbsentSlot, AbsentSlot

\* Every step is a step of FactTxn or invisible there.
LEMMA StepMaps == IInv /\ IInv' /\ [CommandNext]_vars => [Txn!Next]_(Txn!vars)
<1> SUFFICES ASSUME IInv, IInv', [CommandNext]_vars PROVE Txn!Next \/ UNCHANGED Txn!vars
  OBVIOUS
<1>1. CASE Begin
  <2>1. Txn!Begin
    BY <1>1 DEF Begin, Txn!Begin, Live, FirstOf
  <2> QED
    BY <2>1 DEF Txn!Next
<1>2. ASSUME NEW w \in Writer, NEW f \in Fact, NEW v \in ValueOrNone, Write(w, f, v)
      PROVE  Txn!Next
  <2> DEFINE m == JournalWrite(Memory, w, f, v)
             c == Written(Content(SlotFor(ps, f)), v, w, Shareable(w, f))
  <2>1. Live[f] = Content(SlotFor(ps, f))
    BY DEF Live
  <2>2. c # Content(SlotFor(ps, f)) /\ Changes(Memory, m, f, c)
    BY <1>2, WriteStep
  <2>3. Becomes(m) /\ active
    BY <1>2 DEF Write
  <2>4. ~Conflicts(Live[f], v, w, Shareable(w, f))
    BY <1>2, <2>1 DEF Write, IInv, Consistent, MemoryOK, Memory
  <2> HIDE DEF m, c
  <2>5. /\ Staged({f}, [g \in Fact |-> c], Live, Touches, Firsts, Live', Touches', Firsts')
        /\ UNCHANGED <<snap, lastChanged, active, pre>>
    BY <2>2, <2>3, ChangeMaps DEF Becomes
  <2>6. Shareable(w, f) \in BOOLEAN /\ Txn!Shareable(w, f) = Shareable(w, f)
    BY DEF Shareable, Txn!Shareable
  <2>7. /\ Txn!Written(Live[f], v, w, Txn!Shareable(w, f)) = c
        /\ ~Txn!Conflicts(Live[f], v, w, Txn!Shareable(w, f))
    BY <2>1, <2>4, <2>6, SameRules DEF c
  <2>8. Txn!Write(w, f, v)
    BY <2>1, <2>2, <2>3, <2>5, <2>7 DEF Txn!Write, Txn!Stage, Staged, Touches, Firsts
  <2> QED
    BY <2>8, SameRules DEF Txn!Next
<1>3. ASSUME NEW w \in Writer, NEW f \in Fact, Retract(w, f) PROVE Txn!Next
  <2> DEFINE m == JournalRetract(Memory, w, f)  c == Retracted(Content(SlotFor(ps, f)), w)
  <2>1. Live[f] = Content(SlotFor(ps, f))
    BY DEF Live
  <2>2. Changes(Memory, m, f, c)
    BY <1>3, RetractStep
  <2>3. Becomes(m) /\ active
    BY <1>3 DEF Retract
  <2>4. w \in Live[f].writers
    BY <1>3, <2>1 DEF Retract, IInv, Consistent, MemoryOK, Memory
  <2> HIDE DEF m, c
  <2>5. /\ Staged({f}, [g \in Fact |-> c], Live, Touches, Firsts, Live', Touches', Firsts')
        /\ UNCHANGED <<snap, lastChanged, active, pre>>
    BY <2>2, <2>3, ChangeMaps DEF Becomes
  <2>6. Txn!Retracted(Live[f], w) = c
    BY <2>1, SameRules DEF c
  <2>7. Txn!Retract(w, f)
    BY <2>3, <2>4, <2>5, <2>6 DEF Txn!Retract, Txn!Stage, Staged, Touches, Firsts
  <2> QED
    BY <2>7 DEF Txn!Next
<1>4. ASSUME NEW w \in Writer, NEW c \in Captures, NEW order \in SetToSeqs(DOMAIN c),
             Promote(w, c, order)
      PROVE  Txn!Next
  <2>1. Txn!Promote(w, c)
    BY <1>4, PromoteMaps
  <2> QED
    BY <2>1 DEF Txn!Next
<1>5. CASE Rollback
  BY <1>5, RollbackMaps DEF Txn!Next
<1>6. CASE ~promoted /\ Commit
  BY <1>6, CommitMaps DEF Txn!Next
<1>7. CASE UNCHANGED vars
  <2>1. UNCHANGED Txn!vars
    BY <1>7 DEF vars, Txn!vars, Live, FirstOf
  <2> QED
    BY <2>1
<1> QED
  BY <1>1, <1>2, <1>3, <1>4, <1>5, <1>6, <1>7 DEF CommandNext, Work, Done

\* The initial state is the initial state of FactTxn.
LEMMA InitMaps == Init => Txn!Init
<1> SUFFICES ASSUME Init PROVE Txn!Init
  OBVIOUS
<1>1. IInv /\ journal = <<>>
  BY InitIInv DEF Init
<1>2. \A f \in Fact : ~Occupied(SlotFor(ps, f))
  <2>1. ps.slots = <<>>
    BY DEF Init, EmptyState, State
  <2> QED
    BY <2>1 DEF SlotFor, SlotIndex, Occupied
<1>3. Live = [f \in Fact |-> AbsentSlot]
  BY <1>2 DEF Live, Content
<1>4. [f \in Fact |-> FirstOf(f)] = [f \in Fact |-> AbsentSlot] /\ {e.fact : e \in ToSet(journal)} = {}
  BY <1>1 DEF FirstOf, EntryOf, ToSet
<1>5. [f \in Fact |-> Lookup(snap, f)] = [f \in Fact |-> NoValue]
  BY DEF Init, EmptySnap, Lookup
<1> QED
  BY <1>3, <1>4, <1>5 DEF Init, Txn!Init, Txn!NoFacts, Txn!AbsentSlot, AbsentSlot

\* FactArena.ImplementsFactTxn for every value of the constants: whatever the
\* arena, the journal and the snapshot index do is what FactTxn promises.
THEOREM ArenaImplementsFactTxn == CommandSpec => ImplementsFactTxn
<1>1. Init => Txn!Init
  BY InitMaps
<1>2. IInv /\ IInv' /\ [CommandNext]_vars => [Txn!Next]_(Txn!vars)
  BY StepMaps
<1> QED
  BY <1>1, <1>2, Invariance, PTL DEF CommandSpec, ImplementsFactTxn, Txn!Spec
=============================================================================
