----------------------------- MODULE ArenaLemmas -----------------------------
(***************************************************************************)
(* What the operations of FactArena do to the arena, the journal and the   *)
(* snapshot index, for every value of the constants.                       *)
(***************************************************************************)
EXTENDS FactArena, TLAPS, SequenceTheorems, FiniteSetTheorems

\* A slot some writer owns, and an arena cell.
SlotRec == [fact : Fact, ord : Nat, val : Value, writers : (SUBSET Writer) \ {{}}, shared : BOOLEAN]
Cell == SlotRec \cup {Empty}
Index == UNION {[D -> Nat] : D \in SUBSET Nat}
PlainState == [slots : Seq(Cell), free : Seq(Nat), byView : [View -> Index],
               byOwner : [Writer -> Index], next : Nat]

\* No fact has two slots.
Unique(p) ==
  \A i, j \in DOMAIN p.slots :
    Occupied(p.slots[i]) /\ Occupied(p.slots[j]) /\ p.slots[i].fact = p.slots[j].fact => i = j

\* The free list is the vacant cells, each once.
FreeExact(p) ==
  /\ \A n \in DOMAIN p.free : p.free[n] \in DOMAIN p.slots /\ ~Occupied(p.slots[p.free[n]])
  /\ \A i \in DOMAIN p.slots : ~Occupied(p.slots[i]) => \E n \in DOMAIN p.free : p.free[n] = i
  /\ IsInjective(p.free)

ArenaOK(p) == p \in PlainState /\ Unique(p) /\ FreeExact(p)

-----------------------------------------------------------------------------
(* Slots *)

\* The slot of an absent fact is not the slot of a present one.
LEMMA CellKinds ==
  /\ Empty \notin SlotRec
  /\ \A s \in Cell : Occupied(s) <=> s \in SlotRec
  /\ \A s \in SlotRec : s.fact \in Fact /\ s.ord \in Nat /\ s.val \in Value /\ s.writers \in SUBSET Writer
       /\ s.writers # {} /\ s.shared \in BOOLEAN
<1>1. Empty \notin SlotRec
  <2>1. \A s \in SlotRec : DOMAIN s = {"fact", "ord", "val", "writers", "shared"}
    BY DEF SlotRec
  <2>2. DOMAIN Empty = {"fact"}
    BY DEF Empty
  <2> QED
    BY <2>1, <2>2
<1>2. \A s \in Cell : Occupied(s) <=> s \in SlotRec
  BY <1>1 DEF Cell, Occupied
<1> QED
  BY <1>1, <1>2 DEF SlotRec

\* slot_index finds the fact's slot.
LEMMA SlotIndexFinds ==
  ASSUME NEW p, ArenaOK(p), NEW f \in Fact
  PROVE  /\ SlotIndex(p, f) # 0 => /\ SlotIndex(p, f) \in DOMAIN p.slots
                                   /\ SlotFor(p, f) = p.slots[SlotIndex(p, f)]
                                   /\ Occupied(SlotFor(p, f)) /\ SlotFor(p, f).fact = f
                                   /\ SlotFor(p, f) \in SlotRec
         /\ SlotIndex(p, f) = 0 => ~Occupied(SlotFor(p, f)) /\ SlotFor(p, f) = Empty
         /\ \A i \in DOMAIN p.slots :
              Occupied(p.slots[i]) /\ p.slots[i].fact = f => SlotIndex(p, f) = i
         /\ SlotFor(p, f) \in Cell
<1> DEFINE At(i) == Occupied(p.slots[i]) /\ p.slots[i].fact = f
<1>1. DOMAIN p.slots = 1 .. Len(p.slots) /\ Len(p.slots) \in Nat /\ \A i \in DOMAIN p.slots : p.slots[i] \in Cell
  BY DEF ArenaOK, PlainState
<1>2. CASE \E i \in DOMAIN p.slots : At(i)
  <2>1. SlotIndex(p, f) \in DOMAIN p.slots /\ At(SlotIndex(p, f))
    BY <1>2 DEF SlotIndex
  <2>2. SlotIndex(p, f) # 0
    BY <2>1, <1>1
  <2>3. \A i \in DOMAIN p.slots : At(i) => SlotIndex(p, f) = i
    BY <2>1 DEF ArenaOK, Unique
  <2> QED
    BY <2>1, <2>2, <2>3, <1>1, CellKinds DEF SlotFor
<1>3. CASE ~\E i \in DOMAIN p.slots : At(i)
  <2>1. SlotIndex(p, f) = 0 /\ SlotFor(p, f) = Empty
    BY <1>3 DEF SlotIndex, SlotFor
  <2> QED
    BY <2>1, <1>3 DEF Occupied, Cell
<1> QED
  BY <1>2, <1>3

\* One cell of a fact changes: every other fact keeps its slot.
LEMMA CellChanges ==
  ASSUME NEW p, ArenaOK(p), NEW q \in PlainState, NEW f \in Fact, NEW i \in DOMAIN q.slots,
         DOMAIN p.slots \subseteq DOMAIN q.slots,
         DOMAIN q.slots \subseteq DOMAIN p.slots \cup {i},
         \A j \in DOMAIN p.slots : j # i => q.slots[j] = p.slots[j],
         i \in DOMAIN p.slots /\ Occupied(p.slots[i]) => p.slots[i].fact = f,
         Occupied(q.slots[i]) => q.slots[i].fact = f,
         SlotIndex(p, f) \in {0, i},
         FreeExact(q)
  PROVE  /\ ArenaOK(q)
         /\ SlotFor(q, f) = q.slots[i]
         /\ SlotIndex(q, f) = IF Occupied(q.slots[i]) THEN i ELSE 0
         /\ \A g \in Fact : g # f => /\ SlotFor(q, g) = SlotFor(p, g)
                                     /\ SlotIndex(q, g) = SlotIndex(p, g)
<1>0. /\ \A j \in DOMAIN p.slots : p.slots[j] \in Cell
      /\ \A j \in DOMAIN q.slots : q.slots[j] \in Cell
      /\ 0 \notin DOMAIN q.slots /\ 0 \notin DOMAIN p.slots
  BY DEF ArenaOK, PlainState
<1>1. Unique(q)
  <2> SUFFICES ASSUME NEW j \in DOMAIN q.slots, NEW k \in DOMAIN q.slots,
                      Occupied(q.slots[j]), Occupied(q.slots[k]), q.slots[j].fact = q.slots[k].fact, j # k
               PROVE  FALSE
    BY DEF Unique
  <2>1. CASE j # i /\ k # i
    BY <2>1 DEF ArenaOK, Unique
  <2>2. CASE j = i
    <3>1. k # i /\ k \in DOMAIN p.slots /\ Occupied(p.slots[k]) /\ p.slots[k].fact = f
      BY <2>2
    <3>2. SlotIndex(p, f) = k
      BY <3>1, SlotIndexFinds
    <3> QED
      BY <3>1, <3>2, <1>0
  <2>3. CASE k = i
    <3>1. j # i /\ j \in DOMAIN p.slots /\ Occupied(p.slots[j]) /\ p.slots[j].fact = f
      BY <2>3
    <3>2. SlotIndex(p, f) = j
      BY <3>1, SlotIndexFinds
    <3> QED
      BY <3>1, <3>2, <1>0
  <2> QED
    BY <2>1, <2>2, <2>3
<1>2. ArenaOK(q)
  BY <1>1 DEF ArenaOK
<1>3. /\ SlotFor(q, f) = q.slots[i] /\ SlotIndex(q, f) = IF Occupied(q.slots[i]) THEN i ELSE 0
  <2>1. CASE Occupied(q.slots[i])
    BY <2>1, <1>2, <1>0, SlotIndexFinds
  <2>2. CASE ~Occupied(q.slots[i])
    <3>1. ASSUME SlotIndex(q, f) # 0 PROVE FALSE
      <4>1. PICK k \in DOMAIN q.slots : k = SlotIndex(q, f) /\ Occupied(q.slots[k]) /\ q.slots[k].fact = f
        BY <3>1, <1>2, SlotIndexFinds
      <4>2. k # i /\ k \in DOMAIN p.slots /\ Occupied(p.slots[k]) /\ p.slots[k].fact = f
        BY <4>1, <2>2
      <4> QED
        BY <4>2, <1>0, SlotIndexFinds
    <3> QED
      BY <3>1, <2>2, <1>2, SlotIndexFinds DEF Occupied
  <2> QED
    BY <2>1, <2>2
<1>4. ASSUME NEW g \in Fact, g # f
      PROVE  SlotFor(q, g) = SlotFor(p, g) /\ SlotIndex(q, g) = SlotIndex(p, g)
  <2>1. CASE SlotIndex(p, g) # 0
    <3>1. PICK k \in DOMAIN p.slots : /\ k = SlotIndex(p, g) /\ Occupied(p.slots[k])
                                      /\ p.slots[k].fact = g /\ SlotFor(p, g) = p.slots[k]
      BY <2>1, SlotIndexFinds
    <3>2. k # i
      BY <3>1, <1>4
    <3>3. k \in DOMAIN q.slots /\ Occupied(q.slots[k]) /\ q.slots[k].fact = g /\ q.slots[k] = p.slots[k]
      BY <3>1, <3>2
    <3>4. SlotIndex(q, g) = k
      BY <3>3, <1>2, SlotIndexFinds
    <3> QED
      BY <3>1, <3>3, <3>4, <1>0 DEF SlotFor
  <2>2. CASE SlotIndex(p, g) = 0
    <3>1. ASSUME SlotIndex(q, g) # 0 PROVE FALSE
      <4>1. PICK k \in DOMAIN q.slots : k = SlotIndex(q, g) /\ Occupied(q.slots[k]) /\ q.slots[k].fact = g
        BY <3>1, <1>2, SlotIndexFinds
      <4>2. k # i
        BY <4>1, <1>4
      <4>3. k \in DOMAIN p.slots /\ Occupied(p.slots[k]) /\ p.slots[k].fact = g
        BY <4>1, <4>2
      <4> QED
        BY <4>3, <2>2, <1>0, SlotIndexFinds
    <3> QED
      BY <3>1, <2>2 DEF SlotFor
  <2> QED
    BY <2>1, <2>2
<1> QED
  BY <1>2, <1>3, <1>4

-----------------------------------------------------------------------------
(* Indexes *)

\* Every index entry is the ordinal of a slot that belongs there.
IndexSound(p) ==
  /\ \A v \in View : \A o \in DOMAIN p.byView[v] :
       \E f \in Fact : ViewOf[f] = v /\ Occupied(SlotFor(p, f)) /\ SlotFor(p, f).ord = o
  /\ \A w \in Writer : \A o \in DOMAIN p.byOwner[w] :
       \E f \in Fact : Occupied(SlotFor(p, f)) /\ w \in SlotFor(p, f).writers /\ SlotFor(p, f).ord = o

\* The slot of a fact is found through every index.
Indexed(p, f) ==
  Occupied(SlotFor(p, f)) =>
    /\ SlotFor(p, f).ord \in DOMAIN p.byView[ViewOf[f]]
    /\ p.byView[ViewOf[f]][SlotFor(p, f).ord] = SlotIndex(p, f)
    /\ \A w \in SlotFor(p, f).writers :
         /\ SlotFor(p, f).ord \in DOMAIN p.byOwner[w]
         /\ p.byOwner[w][SlotFor(p, f).ord] = SlotIndex(p, f)

\* The ordinal of a slot, if there is one.
OrdOf(slot) == IF Occupied(slot) THEN {slot.ord} ELSE {}

\* One index, before and after: `old` left it and `new` entered it as i.
Moved(before, after, old, new, i) ==
  /\ DOMAIN after = (DOMAIN before \ old) \cup new
  /\ \A o \in DOMAIN after : after[o] = IF o \in new THEN i ELSE before[o]

\* All indexes, before and after cell i of fact f went from old to new.
Reindexed(p, q, f, old, new, i) ==
  /\ \A v \in View :
       IF v = ViewOf[f] THEN Moved(p.byView[v], q.byView[v], OrdOf(old), OrdOf(new), i)
       ELSE q.byView[v] = p.byView[v]
  /\ \A w \in Writer :
       Moved(p.byOwner[w], q.byOwner[w],
             IF Occupied(old) /\ w \in old.writers THEN {old.ord} ELSE {},
             IF Occupied(new) /\ w \in new.writers THEN {new.ord} ELSE {}, i)

\* Inserting into an index and removing from it leave an index.
LEMMA IndexTypes ==
  ASSUME NEW x \in Index, NEW o \in Nat
  PROVE  /\ Without(x, o) \in Index
         /\ \A i \in Nat : WithEntry(x, o, i) \in Index
<1>1. PICK D \in SUBSET Nat : x \in [D -> Nat]
  BY DEF Index
<1>2. Without(x, o) \in [D \ {o} -> Nat]
  BY <1>1 DEF Without
<1>3. ASSUME NEW i \in Nat PROVE WithEntry(x, o, i) \in [D \cup {o} -> Nat]
  BY <1>1 DEF WithEntry
<1>4. D \ {o} \in SUBSET Nat /\ D \cup {o} \in SUBSET Nat
  OBVIOUS
<1> QED
  BY <1>2, <1>3, <1>4 DEF Index

\* unindex_slot
LEMMA Unindexing ==
  ASSUME NEW p \in PlainState, NEW i \in DOMAIN p.slots
  PROVE  /\ UnindexSlot(p, i) \in PlainState
         /\ UnindexSlot(p, i).slots = p.slots /\ UnindexSlot(p, i).free = p.free
         /\ UnindexSlot(p, i).next = p.next
         /\ \A f \in Fact : (Occupied(p.slots[i]) => p.slots[i].fact = f) =>
              Reindexed(p, UnindexSlot(p, i), f, p.slots[i], Empty, i)
<1> DEFINE slot == p.slots[i]  q == UnindexSlot(p, i)
<1>0. slot \in Cell
  BY DEF PlainState
<1>1. CASE ~Occupied(slot)
  <2>1. q = p
    BY <1>1 DEF UnindexSlot
  <2> QED
    BY <1>1, <2>1 DEF Reindexed, Moved, OrdOf, Occupied
<1>2. CASE Occupied(slot)
  <2>0. slot \in SlotRec /\ slot.fact \in Fact /\ slot.ord \in Nat
    BY <1>0, <1>2, CellKinds
  <2>1. ViewOf[slot.fact] \in View
    BY <2>0, ArenaAssumption
  <2>2. /\ q.slots = p.slots /\ q.free = p.free /\ q.next = p.next
        /\ q.byView = [v \in View |-> IF v = ViewOf[slot.fact]
                                        THEN Without(p.byView[v], slot.ord) ELSE p.byView[v]]
        /\ q.byOwner = [w \in Writer |-> IF w \in slot.writers
                                           THEN Without(p.byOwner[w], slot.ord) ELSE p.byOwner[w]]
        /\ q = State(q.slots, q.free, q.byView, q.byOwner, q.next)
    BY <1>2 DEF UnindexSlot, State
  <2> HIDE DEF q, slot
  <2>3. (\A v \in View : p.byView[v] \in Index) /\ (\A w \in Writer : p.byOwner[w] \in Index)
    BY DEF PlainState
  <2>4. /\ \A v \in View : Without(p.byView[v], slot.ord) \in Index
        /\ \A w \in Writer : Without(p.byOwner[w], slot.ord) \in Index
    BY <2>0, <2>3, IndexTypes
  <2>5. q.byView \in [View -> Index]
    BY <2>2, <2>3, <2>4
  <2>6. q.byOwner \in [Writer -> Index]
    BY <2>2, <2>3, <2>4
  <2>7. q \in PlainState
    BY <2>2, <2>5, <2>6 DEF PlainState, State
  <2>8. ASSUME NEW f \in Fact, slot.fact = f
        PROVE  Reindexed(p, q, f, slot, Empty, i)
    <3>1. ASSUME NEW v \in View
          PROVE  IF v = ViewOf[f] THEN Moved(p.byView[v], q.byView[v], OrdOf(slot), OrdOf(Empty), i)
                 ELSE q.byView[v] = p.byView[v]
      BY <1>2, <2>2, <2>1, <2>8 DEF Moved, OrdOf, Without, PlainState, Occupied
    <3>2. ASSUME NEW w \in Writer
          PROVE  Moved(p.byOwner[w], q.byOwner[w], IF Occupied(slot) /\ w \in slot.writers THEN {slot.ord} ELSE {},
                       IF Occupied(Empty) /\ w \in Empty.writers THEN {Empty.ord} ELSE {}, i)
      BY <1>2, <2>2 DEF Moved, Without, Occupied
    <3> QED
      BY <3>1, <3>2 DEF Reindexed
  <2> QED
    BY <2>2, <2>7, <2>8, <1>2 DEF q, slot
<1> QED
  BY <1>1, <1>2

\* index_slot
LEMMA Indexing ==
  ASSUME NEW p \in PlainState, NEW i \in DOMAIN p.slots, Occupied(p.slots[i])
  PROVE  /\ IndexSlot(p, i) \in PlainState
         /\ IndexSlot(p, i).slots = p.slots /\ IndexSlot(p, i).free = p.free
         /\ IndexSlot(p, i).next = p.next
         /\ Reindexed(p, IndexSlot(p, i), p.slots[i].fact, Empty, p.slots[i], i)
<1> DEFINE slot == p.slots[i]  q == IndexSlot(p, i)
<1>0. slot \in SlotRec /\ slot.fact \in Fact /\ slot.ord \in Nat /\ i \in Nat
  BY CellKinds DEF PlainState
<1>1. ViewOf[slot.fact] \in View
  BY <1>0, ArenaAssumption
<1>2. Occupied(slot)
  OBVIOUS
<1>3. /\ q.slots = p.slots /\ q.free = p.free /\ q.next = p.next
      /\ q.byView = [v \in View |-> IF v = ViewOf[slot.fact]
                                      THEN WithEntry(p.byView[v], slot.ord, i) ELSE p.byView[v]]
      /\ q.byOwner = [w \in Writer |-> IF w \in slot.writers
                                         THEN WithEntry(p.byOwner[w], slot.ord, i) ELSE p.byOwner[w]]
      /\ q = State(q.slots, q.free, q.byView, q.byOwner, q.next)
  BY DEF IndexSlot, State
<1> HIDE DEF q, slot
<1>4. (\A v \in View : p.byView[v] \in Index) /\ (\A w \in Writer : p.byOwner[w] \in Index)
  BY DEF PlainState
<1>5. /\ \A v \in View : WithEntry(p.byView[v], slot.ord, i) \in Index
      /\ \A w \in Writer : WithEntry(p.byOwner[w], slot.ord, i) \in Index
  BY <1>0, <1>4, IndexTypes
<1>6. q.byView \in [View -> Index]
  BY <1>3, <1>4, <1>5
<1>7. q.byOwner \in [Writer -> Index]
  BY <1>3, <1>4, <1>5
<1>8. q \in PlainState
  BY <1>3, <1>6, <1>7 DEF PlainState, State
<1>9. ASSUME NEW v \in View
      PROVE  IF v = ViewOf[slot.fact] THEN Moved(p.byView[v], q.byView[v], OrdOf(Empty), OrdOf(slot), i)
             ELSE q.byView[v] = p.byView[v]
  BY <1>2, <1>3, <1>1 DEF Moved, OrdOf, WithEntry, PlainState, Occupied
<1>10. ASSUME NEW w \in Writer
       PROVE  Moved(p.byOwner[w], q.byOwner[w], IF Occupied(Empty) /\ w \in Empty.writers THEN {Empty.ord} ELSE {},
                    IF Occupied(slot) /\ w \in slot.writers THEN {slot.ord} ELSE {}, i)
  <2>1. CASE w \in slot.writers
    <3>1. q.byOwner[w] = WithEntry(p.byOwner[w], slot.ord, i)
      BY <1>3, <2>1
    <3> QED
      BY <1>2, <2>1, <3>1 DEF Moved, WithEntry, Occupied
  <2>2. CASE w \notin slot.writers
    <3>1. q.byOwner[w] = p.byOwner[w]
      BY <1>3, <2>2
    <3> QED
      BY <2>2, <3>1 DEF Moved, Occupied
  <2> QED
    BY <2>1, <2>2
<1>11. Reindexed(p, q, slot.fact, Empty, slot, i)
  BY <1>9, <1>10 DEF Reindexed
<1> QED
  BY <1>3, <1>8, <1>11 DEF q, slot

\* What a changed cell means for the indexes: they stay sound, they find the
\* new slot, and they still find every slot under another ordinal.
Follows(p, q, f, new) ==
  /\ IndexSound(p) => IndexSound(q)
  /\ Indexed(q, f)
  /\ \A g \in Fact : g # f /\ Indexed(p, g)
                     /\ OrdOf(SlotFor(p, g)) \cap (OrdOf(SlotFor(p, f)) \cup OrdOf(new)) = {}
                       => Indexed(q, g)

\* An index that only lost the old ordinal of f and gained the new one follows.
LEMMA IndexesFollow ==
  ASSUME NEW p, NEW q, ArenaOK(p), ArenaOK(q), NEW f \in Fact, NEW i, NEW new \in Cell,
         SlotFor(q, f) = new, Occupied(new) => SlotIndex(q, f) = i,
         \A g \in Fact : g # f => SlotFor(q, g) = SlotFor(p, g) /\ SlotIndex(q, g) = SlotIndex(p, g),
         Reindexed(p, q, f, SlotFor(p, f), new, i)
  PROVE  Follows(p, q, f, new)
<1> DEFINE old == SlotFor(p, f)
<1>0. /\ \A g \in Fact : SlotFor(p, g) \in Cell /\ ViewOf[g] \in View
      /\ \A g \in Fact : Occupied(SlotFor(p, g)) => SlotFor(p, g) \in SlotRec /\ SlotFor(p, g).writers \subseteq Writer
      /\ Occupied(new) => new.writers \subseteq Writer
  BY SlotIndexFinds, CellKinds, ArenaAssumption
<1>1. ASSUME IndexSound(p) PROVE IndexSound(q)
  <2>1. ASSUME NEW v \in View, NEW o \in DOMAIN q.byView[v]
        PROVE  \E g \in Fact : ViewOf[g] = v /\ Occupied(SlotFor(q, g)) /\ SlotFor(q, g).ord = o
    <3>1. CASE v = ViewOf[f] /\ o \in OrdOf(new)
      BY <3>1 DEF OrdOf
    <3>2. CASE ~(v = ViewOf[f] /\ o \in OrdOf(new))
      <4>1. o \in DOMAIN p.byView[v] /\ ~(v = ViewOf[f] /\ o \in OrdOf(old))
        BY <3>2 DEF Reindexed, Moved
      <4>2. PICK g \in Fact : ViewOf[g] = v /\ Occupied(SlotFor(p, g)) /\ SlotFor(p, g).ord = o
        BY <4>1, <1>1 DEF IndexSound
      <4>3. g # f
        BY <4>1, <4>2 DEF OrdOf
      <4> QED
        BY <4>2, <4>3
    <3> QED
      BY <3>1, <3>2
  <2>2. ASSUME NEW w \in Writer, NEW o \in DOMAIN q.byOwner[w]
        PROVE  \E g \in Fact : Occupied(SlotFor(q, g)) /\ w \in SlotFor(q, g).writers /\ SlotFor(q, g).ord = o
    <3>1. CASE Occupied(new) /\ w \in new.writers /\ o = new.ord
      BY <3>1
    <3>2. CASE ~(Occupied(new) /\ w \in new.writers /\ o = new.ord)
      <4>1. o \in DOMAIN p.byOwner[w] /\ ~(Occupied(old) /\ w \in old.writers /\ o = old.ord)
        BY <3>2 DEF Reindexed, Moved
      <4>2. PICK g \in Fact : Occupied(SlotFor(p, g)) /\ w \in SlotFor(p, g).writers /\ SlotFor(p, g).ord = o
        BY <4>1, <1>1 DEF IndexSound
      <4>3. g # f
        BY <4>1, <4>2
      <4> QED
        BY <4>2, <4>3
    <3> QED
      BY <3>1, <3>2
  <2> QED
    BY <2>1, <2>2 DEF IndexSound
<1>2. Indexed(q, f)
  <2> SUFFICES ASSUME Occupied(new) PROVE Indexed(q, f)
    BY DEF Indexed
  <2>1. new.ord \in DOMAIN q.byView[ViewOf[f]] /\ q.byView[ViewOf[f]][new.ord] = i
    BY <1>0 DEF Reindexed, Moved, OrdOf
  <2>2. ASSUME NEW w \in new.writers
        PROVE  new.ord \in DOMAIN q.byOwner[w] /\ q.byOwner[w][new.ord] = i
    BY <1>0 DEF Reindexed, Moved
  <2> QED
    BY <2>1, <2>2 DEF Indexed
<1>3. ASSUME NEW g \in Fact, g # f, Indexed(p, g),
             OrdOf(SlotFor(p, g)) \cap (OrdOf(old) \cup OrdOf(new)) = {}
      PROVE  Indexed(q, g)
  <2> DEFINE at == SlotFor(p, g)  k == SlotIndex(p, g)
  <2> SUFFICES ASSUME Occupied(at) PROVE Indexed(q, g)
    BY <1>3 DEF Indexed
  <2>0. SlotFor(q, g) = at /\ SlotIndex(q, g) = k /\ ViewOf[g] \in View /\ at.writers \subseteq Writer
    BY <1>3, <1>0
  <2>1. at.ord \notin OrdOf(old) /\ at.ord \notin OrdOf(new)
    BY <1>3 DEF OrdOf
  <2>2. at.ord \in DOMAIN q.byView[ViewOf[g]] /\ q.byView[ViewOf[g]][at.ord] = k
    <3>1. at.ord \in DOMAIN p.byView[ViewOf[g]] /\ p.byView[ViewOf[g]][at.ord] = k
      BY <1>3 DEF Indexed
    <3> HIDE DEF at, k
    <3>2. CASE ViewOf[g] = ViewOf[f]
      BY <3>1, <3>2, <2>0, <2>1 DEF Reindexed, Moved
    <3>3. CASE ViewOf[g] # ViewOf[f]
      BY <3>1, <3>3, <2>0 DEF Reindexed
    <3> QED
      BY <3>2, <3>3
  <2>3. ASSUME NEW w \in at.writers
        PROVE  at.ord \in DOMAIN q.byOwner[w] /\ q.byOwner[w][at.ord] = k
    <3>1. at.ord \in DOMAIN p.byOwner[w] /\ p.byOwner[w][at.ord] = k /\ w \in Writer
      BY <1>3, <2>0 DEF Indexed
    <3>2. ~(Occupied(old) /\ at.ord = old.ord) /\ ~(Occupied(new) /\ at.ord = new.ord)
      BY <2>1 DEF OrdOf
    <3> HIDE DEF at, k
    <3> QED
      BY <3>1, <3>2 DEF Reindexed, Moved
  <2> QED
    BY <2>0, <2>2, <2>3 DEF Indexed
<1> QED
  BY <1>1, <1>2, <1>3 DEF Follows

\* What put_slot, insert_fact and the placing of rollback have in common: the
\* slot of f becomes `new`, every other fact keeps its slot.
Sets(p, q, f, new) ==
  /\ ArenaOK(q)
  /\ SlotFor(q, f) = new
  /\ \A g \in Fact : g # f => SlotFor(q, g) = SlotFor(p, g)
  /\ Follows(p, q, f, new)

\* put_slot
LEMMA Putting ==
  ASSUME NEW p, ArenaOK(p), NEW f \in Fact, SlotIndex(p, f) # 0,
         NEW new \in Cell, Occupied(new) => new.fact = f
  PROVE  /\ Sets(p, PutSlot(p, SlotIndex(p, f), new), f, new)
         /\ PutSlot(p, SlotIndex(p, f), new).next = p.next
<1> DEFINE i == SlotIndex(p, f)
           u == UnindexSlot(p, i)
           freed == IF ~Occupied(new) /\ Occupied(p.slots[i]) THEN Append(p.free, i) ELSE p.free
           put == State([p.slots EXCEPT ![i] = new], freed, u.byView, u.byOwner, p.next)
           q == PutSlot(p, i, new)
<1>1. /\ i \in DOMAIN p.slots /\ Occupied(p.slots[i]) /\ p.slots[i].fact = f /\ p.slots[i] = SlotFor(p, f)
      /\ p \in PlainState /\ i \in Nat /\ Empty \in Cell
  BY SlotIndexFinds DEF ArenaOK, PlainState, Cell
<1>2. q = IF Occupied(new) THEN IndexSlot(put, i) ELSE put
  BY DEF PutSlot
<1>3. /\ u \in PlainState /\ u.slots = p.slots /\ u.free = p.free /\ u.next = p.next
      /\ Reindexed(p, u, f, SlotFor(p, f), Empty, i)
  BY <1>1, Unindexing
<1>4. freed \in Seq(Nat) /\ [p.slots EXCEPT ![i] = new] \in Seq(Cell)
  BY <1>1 DEF PlainState
<1>5. put \in PlainState /\ DOMAIN put.slots = DOMAIN p.slots /\ put.slots[i] = new
      /\ \A j \in DOMAIN p.slots : j # i => put.slots[j] = p.slots[j]
  BY <1>1, <1>3, <1>4 DEF PlainState, State
<1>6. put.free = freed /\ put.next = p.next /\ put.byView = u.byView /\ put.byOwner = u.byOwner
  BY DEF State
<1>7. FreeExact(put)
  <2>1. CASE Occupied(new)
    <3>1. put.free = p.free
      BY <2>1, <1>6
    <3>2. \A n \in DOMAIN p.free : p.free[n] # i
      BY <1>1 DEF ArenaOK, FreeExact
    <3> QED
      BY <2>1, <3>1, <3>2, <1>5 DEF ArenaOK, FreeExact
  <2>2. CASE ~Occupied(new)
    <3>1. put.free = Append(p.free, i) /\ p.free \in Seq(Nat)
      BY <2>2, <1>6, <1>1 DEF PlainState
    <3>2. /\ DOMAIN put.free = 1 .. Len(p.free) + 1 /\ DOMAIN p.free = 1 .. Len(p.free) /\ Len(p.free) \in Nat
          /\ put.free[Len(p.free) + 1] = i
          /\ \A n \in DOMAIN p.free : put.free[n] = p.free[n]
      <4> HIDE DEF put, i
      <4>1. i \in Nat
        BY <1>1
      <4> QED
        BY <3>1, <4>1, AppendProperties
    <3>3. \A n \in DOMAIN p.free : p.free[n] # i
      BY <1>1 DEF ArenaOK, FreeExact
    <3>4. \A n \in DOMAIN put.free : n \in DOMAIN p.free \/ n = Len(p.free) + 1
      BY <3>2
    <3> HIDE DEF put, q, freed, i, u
    <3>5. \A n \in DOMAIN put.free : put.free[n] \in DOMAIN put.slots /\ ~Occupied(put.slots[put.free[n]])
      BY <3>2, <3>3, <3>4, <1>5, <1>1, <2>2 DEF ArenaOK, FreeExact
    <3>6. \A j \in DOMAIN put.slots : ~Occupied(put.slots[j]) => \E n \in DOMAIN put.free : put.free[n] = j
      <4> SUFFICES ASSUME NEW j \in DOMAIN put.slots, ~Occupied(put.slots[j])
                   PROVE  \E n \in DOMAIN put.free : put.free[n] = j
        OBVIOUS
      <4>1. CASE j = i
        BY <4>1, <3>2
      <4>2. CASE j # i
        <5>1. PICK n \in DOMAIN p.free : p.free[n] = j
          BY <4>2, <1>5 DEF ArenaOK, FreeExact
        <5> QED
          BY <5>1, <3>2
      <4> QED
        BY <4>1, <4>2
    <3>7. IsInjective(put.free)
      BY <3>2, <3>3, <3>4 DEF ArenaOK, FreeExact, IsInjective
    <3> QED
      BY <3>5, <3>6, <3>7 DEF FreeExact
  <2> QED
    BY <2>1, <2>2
<1>8. /\ q \in PlainState /\ q.slots = put.slots /\ q.free = put.free /\ q.next = p.next
      /\ Reindexed(p, q, f, SlotFor(p, f), new, i)
  <2>1. CASE Occupied(new)
    <3> HIDE DEF put
    <3>1. /\ IndexSlot(put, i) \in PlainState
          /\ IndexSlot(put, i).slots = put.slots /\ IndexSlot(put, i).free = put.free
          /\ IndexSlot(put, i).next = put.next
          /\ Reindexed(put, IndexSlot(put, i), f, Empty, new, i)
      BY <2>1, <1>1, <1>5, Indexing
    <3>2. q = IndexSlot(put, i)
      BY <1>2, <2>1
    <3> HIDE DEF q, u, i
    <3>3. ASSUME NEW v \in View
          PROVE  IF v = ViewOf[f] THEN Moved(p.byView[v], q.byView[v], OrdOf(SlotFor(p, f)), OrdOf(new), i)
                 ELSE q.byView[v] = p.byView[v]
      BY <3>1, <3>2, <1>3, <1>6 DEF Reindexed, Moved, OrdOf, Occupied
    <3>4. ASSUME NEW w \in Writer
          PROVE  Moved(p.byOwner[w], q.byOwner[w],
                   IF Occupied(SlotFor(p, f)) /\ w \in SlotFor(p, f).writers THEN {SlotFor(p, f).ord} ELSE {},
                   IF Occupied(new) /\ w \in new.writers THEN {new.ord} ELSE {}, i)
      BY <3>1, <3>2, <1>3, <1>6 DEF Reindexed, Moved, Occupied
    <3> QED
      BY <3>1, <3>2, <3>3, <3>4, <1>6 DEF Reindexed
  <2>2. CASE ~Occupied(new)
    <3>1. q = put /\ new = Empty
      BY <2>2, <1>2 DEF Occupied
    <3> HIDE DEF put, q
    <3> QED
      BY <3>1, <1>3, <1>5, <1>6 DEF Reindexed
  <2> QED
    BY <2>1, <2>2
<1> HIDE DEF put, q, u, freed
<1>9. FreeExact(q)
  BY <1>7, <1>8 DEF FreeExact
<1>10. /\ ArenaOK(q) /\ SlotFor(q, f) = new /\ (Occupied(new) => SlotIndex(q, f) = i)
       /\ \A g \in Fact : g # f => SlotFor(q, g) = SlotFor(p, g) /\ SlotIndex(q, g) = SlotIndex(p, g)
  BY <1>1, <1>5, <1>8, <1>9, CellChanges
<1>11. Follows(p, q, f, new)
  BY <1>10, <1>8, IndexesFollow
<1> QED
  BY <1>8, <1>10, <1>11 DEF Sets, q

\* The placing of a slot for an absent fact, with or without a free cell.
LEMMA Placing ==
  ASSUME NEW p, ArenaOK(p), NEW f \in Fact, SlotIndex(p, f) = 0,
         NEW new \in SlotRec, new.fact = f
  PROVE  Sets(p, Place(p, new), f, new) /\ Place(p, new).next = p.next
<1> DEFINE i == IF p.free # <<>> THEN Last(p.free) ELSE Len(p.slots) + 1
           slots == IF p.free # <<>> THEN [p.slots EXCEPT ![i] = new] ELSE Append(p.slots, new)
           free == IF p.free # <<>> THEN Front(p.free) ELSE p.free
           put == State(slots, free, p.byView, p.byOwner, p.next)
           q == Place(p, new)
<1>0. /\ p.slots \in Seq(Cell) /\ p.free \in Seq(Nat) /\ Len(p.slots) \in Nat /\ Len(p.free) \in Nat
      /\ DOMAIN p.slots = 1 .. Len(p.slots) /\ DOMAIN p.free = 1 .. Len(p.free)
      /\ new \in Cell /\ Occupied(new) /\ p \in PlainState
  BY CellKinds DEF ArenaOK, PlainState, Cell
<1>1. q = IndexSlot(put, i)
  BY DEF Place
<1>2. /\ i \in DOMAIN slots /\ slots \in Seq(Cell) /\ slots[i] = new
      /\ \A j \in DOMAIN p.slots : j \in DOMAIN slots /\ (j # i => slots[j] = p.slots[j])
      /\ DOMAIN slots \subseteq DOMAIN p.slots \cup {i}
      /\ i \in DOMAIN p.slots => ~Occupied(p.slots[i])
  <2>1. CASE p.free # <<>>
    <3>1. i = p.free[Len(p.free)] /\ Len(p.free) \in DOMAIN p.free
      BY <2>1, <1>0 DEF Last
    <3>2. i \in DOMAIN p.slots /\ ~Occupied(p.slots[i])
      BY <3>1 DEF ArenaOK, FreeExact
    <3>3. slots = [p.slots EXCEPT ![i] = new]
      BY <2>1
    <3> HIDE DEF i, slots
    <3> QED
      BY <3>2, <3>3, <1>0
  <2>2. CASE p.free = <<>>
    <3>1. i = Len(p.slots) + 1 /\ slots = Append(p.slots, new)
      BY <2>2
    <3> HIDE DEF i, slots
    <3>2. DOMAIN slots = 1 .. Len(p.slots) + 1 /\ slots \in Seq(Cell)
      BY <3>1, <1>0, AppendProperties
    <3> QED
      BY <3>1, <3>2, <1>0, AppendProperties
  <2> QED
    BY <2>1, <2>2
<1>3. /\ free \in Seq(Nat) /\ IsInjective(free)
      /\ \A n \in DOMAIN free : free[n] \in DOMAIN p.slots /\ free[n] # i /\ ~Occupied(p.slots[free[n]])
      /\ \A j \in DOMAIN p.slots : ~Occupied(p.slots[j]) /\ j # i => \E n \in DOMAIN free : free[n] = j
  <2>1. CASE p.free # <<>>
    <3>1. /\ free = SubSeq(p.free, 1, Len(p.free) - 1) /\ i = p.free[Len(p.free)]
          /\ Len(p.free) - 1 \in Nat
      BY <2>1, <1>0 DEF Front, Last
    <3>2. /\ free \in Seq(Nat) /\ DOMAIN free = 1 .. Len(p.free) - 1
          /\ \A n \in 1 .. Len(p.free) - 1 : free[n] = p.free[n]
      <4>1. \A n \in 1 .. Len(p.free) - 1 : p.free[n] \in Nat
        BY <1>0
      <4> HIDE DEF free
      <4> QED
        BY <3>1, <4>1, <1>0, SubSeqProperties
    <3> HIDE DEF free, i
    <3>3. \A n \in DOMAIN free : n \in DOMAIN p.free /\ n # Len(p.free) /\ Len(p.free) \in DOMAIN p.free
      BY <3>1, <3>2, <1>0
    <3>4. \A n \in DOMAIN free : free[n] # i
      BY <3>1, <3>2, <3>3 DEF ArenaOK, FreeExact, IsInjective
    <3>5. IsInjective(free)
      BY <3>2, <3>3 DEF ArenaOK, FreeExact, IsInjective
    <3>6. ASSUME NEW j \in DOMAIN p.slots, ~Occupied(p.slots[j]), j # i
          PROVE  \E n \in DOMAIN free : free[n] = j
      <4>1. PICK n \in DOMAIN p.free : p.free[n] = j
        BY <3>6 DEF ArenaOK, FreeExact
      <4>2. n \in DOMAIN free
        BY <4>1, <3>6, <3>1, <3>2, <1>0
      <4> QED
        BY <4>1, <4>2, <3>2
    <3> QED
      BY <3>2, <3>3, <3>4, <3>5, <3>6 DEF ArenaOK, FreeExact
  <2>2. CASE p.free = <<>>
    <3>1. free = <<>> /\ DOMAIN free = {}
      BY <2>2
    <3>2. \A j \in DOMAIN p.slots : Occupied(p.slots[j])
      BY <2>2 DEF ArenaOK, FreeExact
    <3> HIDE DEF free
    <3> QED
      BY <3>1, <3>2 DEF IsInjective
  <2> QED
    BY <2>1, <2>2
<1>4. /\ put \in PlainState /\ put.slots = slots /\ put.free = free /\ put.next = p.next
      /\ put.byView = p.byView /\ put.byOwner = p.byOwner
  <2> HIDE DEF slots, free, i
  <2> QED
    BY <1>0, <1>2, <1>3 DEF State, PlainState
<1> HIDE DEF put, slots, free, i, q
<1>5. /\ q \in PlainState /\ q.slots = slots /\ q.free = free /\ q.next = p.next
      /\ Reindexed(put, q, f, Empty, new, i)
  BY <1>0, <1>1, <1>2, <1>4, Indexing
<1>6. Reindexed(p, q, f, SlotFor(p, f), new, i)
  <2>1. SlotFor(p, f) = Empty
    BY SlotIndexFinds
  <2> QED
    BY <1>4, <1>5, <2>1 DEF Reindexed
<1>7. FreeExact(q)
  <2>1. \A n \in DOMAIN free : free[n] \in DOMAIN slots /\ ~Occupied(slots[free[n]])
    BY <1>2, <1>3
  <2>2. \A j \in DOMAIN slots : ~Occupied(slots[j]) => \E n \in DOMAIN free : free[n] = j
    BY <1>0, <1>2, <1>3
  <2> QED
    BY <1>3, <1>5, <2>1, <2>2 DEF FreeExact
<1>8. /\ ArenaOK(q) /\ SlotFor(q, f) = new /\ (Occupied(new) => SlotIndex(q, f) = i)
      /\ \A g \in Fact : g # f => SlotFor(q, g) = SlotFor(p, g) /\ SlotIndex(q, g) = SlotIndex(p, g)
  <2>1. /\ i \in DOMAIN q.slots /\ DOMAIN p.slots \subseteq DOMAIN q.slots
        /\ DOMAIN q.slots \subseteq DOMAIN p.slots \cup {i}
        /\ \A j \in DOMAIN p.slots : j # i => q.slots[j] = p.slots[j]
        /\ q.slots[i] = new
    BY <1>2, <1>5
  <2>2. i \in DOMAIN p.slots /\ Occupied(p.slots[i]) => p.slots[i].fact = f
    BY <1>2
  <2>3. Occupied(q.slots[i]) => q.slots[i].fact = f
    BY <2>1
  <2>4. SlotIndex(p, f) \in {0, i}
    OBVIOUS
  <2>5. /\ ArenaOK(q) /\ SlotFor(q, f) = q.slots[i]
        /\ SlotIndex(q, f) = IF Occupied(q.slots[i]) THEN i ELSE 0
        /\ \A g \in Fact : g # f => SlotFor(q, g) = SlotFor(p, g) /\ SlotIndex(q, g) = SlotIndex(p, g)
    <3>1. q \in PlainState
      BY <1>5
    <3> QED
      BY <3>1, <1>7, <2>1, <2>2, <2>3, <2>4, CellChanges
  <2> QED
    BY <2>1, <2>5, <1>0
<1>9. Follows(p, q, f, new)
  BY <1>0, <1>6, <1>8, IndexesFollow
<1> QED
  BY <1>5, <1>8, <1>9 DEF Sets, q

\* Taking an ordinal leaves everything else alone.
LEMMA Numbering ==
  ASSUME NEW p, ArenaOK(p)
  PROVE  LET q == [p EXCEPT !.next = @ + 1] IN
         /\ ArenaOK(q) /\ q.next = p.next + 1 /\ p.next \in Nat
         /\ \A g \in Fact : SlotIndex(q, g) = SlotIndex(p, g) /\ SlotFor(q, g) = SlotFor(p, g)
         /\ \A g \in Fact : Indexed(q, g) <=> Indexed(p, g)
         /\ IndexSound(q) <=> IndexSound(p)
<1> DEFINE q == [p EXCEPT !.next = @ + 1]
<1>1. p \in PlainState
  BY DEF ArenaOK
<1>2. /\ q \in PlainState /\ q.slots = p.slots /\ q.free = p.free /\ q.byView = p.byView
      /\ q.byOwner = p.byOwner /\ q.next = p.next + 1 /\ p.next \in Nat
  BY <1>1 DEF PlainState
<1> HIDE DEF q
<1>3. ArenaOK(q)
  BY <1>2 DEF ArenaOK, Unique, FreeExact
<1>4. \A g \in Fact : SlotIndex(q, g) = SlotIndex(p, g) /\ SlotFor(q, g) = SlotFor(p, g)
  BY <1>2 DEF SlotIndex, SlotFor
<1>5. \A g \in Fact : Indexed(q, g) <=> Indexed(p, g)
  BY <1>2, <1>4 DEF Indexed
<1>6. IndexSound(q) <=> IndexSound(p)
  BY <1>2, <1>4 DEF IndexSound
<1> QED
  BY <1>2, <1>3, <1>4, <1>5, <1>6 DEF q

\* insert_fact numbers the slot itself.
LEMMA Inserting ==
  ASSUME NEW p, ArenaOK(p), NEW f \in Fact, SlotIndex(p, f) = 0,
         NEW slot \in SlotRec, slot.fact = f
  PROVE  /\ Sets(p, InsertFact(p, slot), f, [slot EXCEPT !.ord = p.next])
         /\ InsertFact(p, slot).next = p.next + 1
<1> DEFINE q == [p EXCEPT !.next = @ + 1]  new == [slot EXCEPT !.ord = p.next]
<1>1. /\ ArenaOK(q) /\ q.next = p.next + 1 /\ p.next \in Nat
      /\ \A g \in Fact : SlotIndex(q, g) = SlotIndex(p, g) /\ SlotFor(q, g) = SlotFor(p, g)
      /\ \A g \in Fact : Indexed(q, g) <=> Indexed(p, g)
      /\ IndexSound(q) <=> IndexSound(p)
  BY Numbering
<1>2. InsertFact(p, slot) = Place(q, new)
  BY DEF InsertFact
<1>3. new \in SlotRec /\ new.fact = f
  BY <1>1 DEF SlotRec
<1> HIDE DEF q, new
<1>4. Sets(q, Place(q, new), f, new) /\ Place(q, new).next = q.next
  BY <1>1, <1>3, Placing
<1> QED
  BY <1>1, <1>2, <1>4 DEF Sets, Follows, new

-----------------------------------------------------------------------------
(* The journal *)

Entry == [fact : Fact, first : Cell, staged : Cell]

\* One entry per fact, and it speaks of that fact.
JournalOK(j) ==
  /\ j \in Seq(Entry)
  /\ \A n, k \in DOMAIN j : j[n].fact = j[k].fact => n = k
  /\ \A n \in DOMAIN j : /\ Occupied(j[n].first) => j[n].first.fact = j[n].fact
                         /\ Occupied(j[n].staged) => j[n].staged.fact = j[n].fact

Touched(m, f) == EntryOf(m.journal, f) # 0

\* The slot the transaction found: recorded when touched, else still live.
FirstSlot(m, f) == IF Touched(m, f) THEN m.journal[EntryOf(m.journal, f)].first
                   ELSE SlotFor(m.ps, f)

Memories == [ps : PlainState, journal : Seq(Entry)]

\* The staged slot of a fact and its live slot differ in their ordinal only.
MemoryOK(m) ==
  /\ m \in Memories /\ ArenaOK(m.ps) /\ JournalOK(m.journal)
  /\ \A f \in Fact : Content(Current(m, f)) = Content(SlotFor(m.ps, f))

\* An occupied slot has writers, so content tells whether there is a slot.
LEMMA ContentOccupied ==
  ASSUME NEW s \in Cell
  PROVE  /\ Occupied(s) <=> Present(Content(s))
         /\ Occupied(s) <=> Content(s).val # NoValue
         /\ Occupied(s) => Content(s).val = s.val /\ Content(s).writers = s.writers
         /\ Content(s) \in Slot
         /\ \A t \in Cell : Content(s) = Content(t) => (Occupied(s) <=> Occupied(t))
<1>1. ASSUME NEW t \in Cell
      PROVE  /\ Occupied(t) <=> Present(Content(t))
             /\ Occupied(t) <=> Content(t).val # NoValue
             /\ Occupied(t) => Content(t).val = t.val /\ Content(t).writers = t.writers
             /\ Content(t) \in Slot
  <2>1. CASE Occupied(t)
    BY <2>1, CellKinds, FactStoreAssumption DEF Content, Present, Slot, ValueOrNone
  <2>2. CASE ~Occupied(t)
    BY <2>2 DEF Content, Present, AbsentSlot, Slot, ValueOrNone
  <2> QED
    BY <2>1, <2>2
<1> QED
  BY <1>1

\* EntryOf finds the fact's entry.
LEMMA EntryOfFinds ==
  ASSUME NEW j, JournalOK(j), NEW f \in Fact
  PROVE  /\ EntryOf(j, f) # 0 => EntryOf(j, f) \in DOMAIN j /\ j[EntryOf(j, f)].fact = f
         /\ \A n \in DOMAIN j : j[n].fact = f => EntryOf(j, f) = n
         /\ EntryOf(j, f) # 0 <=> \E n \in DOMAIN j : j[n].fact = f
<1>0. DOMAIN j = 1 .. Len(j) /\ Len(j) \in Nat
  BY DEF JournalOK
<1>1. CASE \E n \in DOMAIN j : j[n].fact = f
  <2>1. EntryOf(j, f) \in DOMAIN j /\ j[EntryOf(j, f)].fact = f
    BY <1>1 DEF EntryOf
  <2> QED
    BY <2>1, <1>0 DEF JournalOK
<1>2. CASE ~\E n \in DOMAIN j : j[n].fact = f
  BY <1>2 DEF EntryOf
<1> QED
  BY <1>1, <1>2

\* Current and first slots are slots of the fact.
LEMMA SlotsOfFact ==
  ASSUME NEW m, MemoryOK(m), NEW f \in Fact
  PROVE  /\ Current(m, f) \in Cell /\ (Occupied(Current(m, f)) => Current(m, f).fact = f)
         /\ FirstSlot(m, f) \in Cell /\ (Occupied(FirstSlot(m, f)) => FirstSlot(m, f).fact = f)
         /\ SlotFor(m.ps, f) \in Cell
         /\ Occupied(Current(m, f)) <=> Occupied(SlotFor(m.ps, f))
<1>1. SlotFor(m.ps, f) \in Cell /\ (Occupied(SlotFor(m.ps, f)) => SlotFor(m.ps, f).fact = f)
  BY SlotIndexFinds DEF MemoryOK
<1>2. /\ Current(m, f) \in Cell /\ (Occupied(Current(m, f)) => Current(m, f).fact = f)
      /\ FirstSlot(m, f) \in Cell /\ (Occupied(FirstSlot(m, f)) => FirstSlot(m, f).fact = f)
  <2>1. CASE EntryOf(m.journal, f) # 0
    <3>1. PICK n \in DOMAIN m.journal : n = EntryOf(m.journal, f) /\ m.journal[n].fact = f
      BY <2>1, EntryOfFinds DEF MemoryOK
    <3>2. m.journal[n] \in Entry
      BY <3>1 DEF MemoryOK, JournalOK
    <3> QED
      BY <2>1, <3>1, <3>2 DEF MemoryOK, JournalOK, Entry, Current, FirstSlot, Touched
  <2>2. CASE EntryOf(m.journal, f) = 0
    BY <2>2, <1>1 DEF Current, FirstSlot, Touched
  <2> QED
    BY <2>1, <2>2
<1>3. Occupied(Current(m, f)) <=> Occupied(SlotFor(m.ps, f))
  BY <1>1, <1>2, ContentOccupied DEF MemoryOK
<1> QED
  BY <1>1, <1>2, <1>3

\* first_touch
LEMMA FirstTouching ==
  ASSUME NEW m, MemoryOK(m), NEW f \in Fact
  PROVE  LET t == FirstTouch(m, f) IN
         /\ MemoryOK(t) /\ t.ps = m.ps
         /\ \A g \in Fact : Current(t, g) = Current(m, g) /\ FirstSlot(t, g) = FirstSlot(m, g)
         /\ \A g \in Fact : Touched(t, g) <=> Touched(m, g) \/ g = f
<1> DEFINE t == FirstTouch(m, f)
<1>1. CASE EntryOf(m.journal, f) # 0
  BY <1>1 DEF FirstTouch, Touched
<1>2. CASE EntryOf(m.journal, f) = 0
  <2> DEFINE e == [fact |-> f, first |-> SlotFor(m.ps, f), staged |-> SlotFor(m.ps, f)]
             j == m.journal
             k == Append(j, e)
  <2>1. t.ps = m.ps /\ t.journal = k /\ t = [ps |-> m.ps, journal |-> k]
    BY <1>2 DEF FirstTouch
  <2>2. SlotFor(m.ps, f) \in Cell /\ (Occupied(SlotFor(m.ps, f)) => SlotFor(m.ps, f).fact = f)
    BY SlotIndexFinds DEF MemoryOK
  <2>3. e \in Entry /\ e.fact = f /\ e.first = SlotFor(m.ps, f) /\ e.staged = SlotFor(m.ps, f)
    BY <2>2 DEF Entry
  <2>4. /\ j \in Seq(Entry) /\ DOMAIN j = 1 .. Len(j) /\ Len(j) \in Nat
        /\ \A n \in DOMAIN j : j[n].fact # f
    BY <1>2, EntryOfFinds DEF MemoryOK, JournalOK
  <2> HIDE DEF e, j
  <2>5. /\ k \in Seq(Entry) /\ DOMAIN k = DOMAIN j \cup {Len(j) + 1} /\ Len(j) + 1 \notin DOMAIN j
        /\ \A n \in DOMAIN j : k[n] = j[n]
        /\ k[Len(j) + 1] = e
    <3>1. Len(k) = Len(j) + 1 /\ DOMAIN k = 1 .. Len(k)
      BY <2>3, <2>4, AppendProperties
    <3>2. 1 .. Len(j) + 1 = 1 .. Len(j) \cup {Len(j) + 1} /\ Len(j) + 1 \notin 1 .. Len(j)
      BY <2>4
    <3> QED
      BY <3>1, <3>2, <2>3, <2>4, AppendProperties
  <2> HIDE DEF k
  <2>6. JournalOK(k)
    BY <2>2, <2>3, <2>4, <2>5 DEF MemoryOK, JournalOK, j
  <2>7. /\ EntryOf(k, f) = Len(j) + 1 /\ Len(j) + 1 # 0
        /\ \A g \in Fact : g # f => EntryOf(k, g) = EntryOf(j, g)
    <3>1. EntryOf(k, f) = Len(j) + 1
      BY <2>3, <2>5, <2>6, EntryOfFinds
    <3>2. ASSUME NEW g \in Fact, g # f PROVE EntryOf(k, g) = EntryOf(j, g)
      <4>0. JournalOK(j)
        BY DEF MemoryOK, j
      <4>1. CASE EntryOf(j, g) # 0
        <5>1. EntryOf(j, g) \in DOMAIN j /\ j[EntryOf(j, g)].fact = g
          BY <4>0, <4>1, EntryOfFinds
        <5> QED
          BY <5>1, <2>5, <2>6, EntryOfFinds
      <4>2. CASE EntryOf(j, g) = 0
        <5>1. \A n \in DOMAIN k : k[n].fact # g
          BY <4>0, <4>2, <3>2, <2>3, <2>5, EntryOfFinds
        <5> QED
          BY <4>2, <5>1, <2>6, EntryOfFinds
      <4> QED
        BY <4>1, <4>2
    <3> QED
      BY <3>1, <3>2, <2>4
  <2>8. \A g \in Fact : /\ Current(t, g) = Current(m, g) /\ FirstSlot(t, g) = FirstSlot(m, g)
                        /\ Touched(t, g) <=> Touched(m, g) \/ g = f
    <3>1. /\ Current(t, f) = Current(m, f) /\ FirstSlot(t, f) = FirstSlot(m, f) /\ Touched(t, f)
      BY <1>2, <2>1, <2>3, <2>5, <2>7 DEF Current, FirstSlot, Touched
    <3>2. ASSUME NEW g \in Fact, g # f
          PROVE /\ Current(t, g) = Current(m, g) /\ FirstSlot(t, g) = FirstSlot(m, g)
                /\ Touched(t, g) <=> Touched(m, g)
      <4>1. EntryOf(j, g) # 0 => k[EntryOf(j, g)] = j[EntryOf(j, g)]
        BY <2>5, EntryOfFinds DEF MemoryOK, j
      <4> QED
        BY <4>1, <3>2, <2>1, <2>7 DEF Current, FirstSlot, Touched, j
    <3> QED
      BY <3>1, <3>2
  <2>9. MemoryOK(t)
    BY <2>1, <2>5, <2>6, <2>8 DEF MemoryOK, Memories
  <2> QED
    BY <2>1, <2>8, <2>9
<1> QED
  BY <1>1, <1>2

\* The entry of a touched fact takes another staged slot, whatever happens to
\* the arena, as long as the other facts keep their slots.
LEMMA Entering ==
  ASSUME NEW m, MemoryOK(m), NEW f \in Fact, Touched(m, f), NEW new \in Cell,
         Occupied(new) => new.fact = f, NEW q, ArenaOK(q),
         \A g \in Fact : g # f => SlotFor(q, g) = SlotFor(m.ps, g),
         Content(SlotFor(q, f)) = Content(new)
  PROVE  LET t == [ps |-> q, journal |-> WithStaged(m.journal, EntryOf(m.journal, f), new)] IN
         /\ MemoryOK(t) /\ Current(t, f) = new
         /\ \A g \in Fact : g # f => Current(t, g) = Current(m, g)
         /\ \A g \in Fact : FirstSlot(t, g) = FirstSlot(m, g) /\ (Touched(t, g) <=> Touched(m, g))
<1> DEFINE j == m.journal
           n == EntryOf(j, f)
           k == WithStaged(j, n, new)
           t == [ps |-> q, journal |-> k]
<1>1. n \in DOMAIN j /\ j[n].fact = f /\ j \in Seq(Entry) /\ j[n] \in Entry /\ JournalOK(j)
  BY EntryOfFinds DEF Touched, MemoryOK, JournalOK
<1>2. /\ DOMAIN k = DOMAIN j
      /\ k[n] = [fact |-> f, first |-> j[n].first, staged |-> new]
      /\ \A l \in DOMAIN j : l # n => k[l] = j[l]
  BY <1>1 DEF WithStaged
<1>3. k[n] \in Entry /\ k[n].fact = f /\ k[n].first = j[n].first /\ k[n].staged = new
  BY <1>1, <1>2 DEF Entry
<1>4. k \in Seq(Entry)
  <2>1. k = [l \in 1 .. Len(j) |-> k[l]] /\ Len(j) \in Nat
    BY <1>1, <1>2 DEF WithStaged
  <2>2. \A l \in 1 .. Len(j) : k[l] \in Entry
    BY <1>1, <1>2, <1>3
  <2> HIDE DEF k, j, n
  <2> QED
    BY <2>1, <2>2
<1>5. t.ps = q /\ t.journal = k
  OBVIOUS
<1>6. \A l \in DOMAIN j : k[l].fact = j[l].fact /\ k[l].first = j[l].first
  BY <1>1, <1>2, <1>3
<1>7. EntryOf(m.journal, f) = n /\ m.journal = j
  OBVIOUS
<1>8. n # 0
  BY DEF Touched
<1>9. t \in [ps : {q}, journal : {k}]
  OBVIOUS
<1> HIDE DEF n, k, t, j
<1>10. JournalOK(k)
  BY <1>1, <1>2, <1>3, <1>4, <1>6 DEF JournalOK
<1>11. \A g \in Fact : EntryOf(k, g) = EntryOf(j, g)
  BY <1>2, <1>6, <1>10, <1>1, EntryOfFinds
<1>12. ASSUME NEW g \in Fact
       PROVE  /\ FirstSlot(t, g) = FirstSlot(m, g) /\ (Touched(t, g) <=> Touched(m, g))
              /\ g # f => Current(t, g) = Current(m, g)
              /\ g = f => Current(t, g) = new
  <2>1. CASE EntryOf(j, g) # 0
    <3>1. EntryOf(j, g) \in DOMAIN j /\ j[EntryOf(j, g)].fact = g
      BY <2>1, <1>1, EntryOfFinds
    <3>2. g # f => EntryOf(j, g) # n
      BY <3>1, <1>1
    <3>3. g = f => EntryOf(j, g) = n
      BY <1>7
    <3> QED
      BY <2>1, <3>1, <3>2, <3>3, <1>2, <1>3, <1>5, <1>6, <1>7, <1>11 DEF FirstSlot, Touched, Current
  <2>2. CASE EntryOf(j, g) = 0
    <3>1. g # f
      BY <2>2, <1>7, <1>8
    <3> QED
      BY <2>2, <3>1, <1>5, <1>7, <1>11 DEF FirstSlot, Touched, Current
  <2> QED
    BY <2>1, <2>2
<1>13. t \in Memories
  BY <1>9, <1>4 DEF Memories, ArenaOK
<1>14. \A g \in Fact : Content(Current(t, g)) = Content(SlotFor(t.ps, g))
  BY <1>5, <1>12 DEF MemoryOK
<1>15. MemoryOK(t)
  BY <1>5, <1>10, <1>13, <1>14 DEF MemoryOK
<1> QED
  BY <1>12, <1>15 DEF t, k, n, j

\* What staging a slot for f does: only f changes, its first slot stays
\* recorded, the indexes follow, and every ordinal it brings is the one of the
\* given slot or a fresh one.
Stages(m, t, f, slot) ==
  /\ MemoryOK(t)
  /\ Content(Current(t, f)) = Content(slot) /\ Content(SlotFor(t.ps, f)) = Content(slot)
  /\ \A g \in Fact : g # f => SlotFor(t.ps, g) = SlotFor(m.ps, g) /\ Current(t, g) = Current(m, g)
  /\ \A g \in Fact : FirstSlot(t, g) = FirstSlot(m, g)
  /\ \A g \in Fact : Touched(t, g) <=> Touched(m, g) \/ g = f
  /\ Follows(m.ps, t.ps, f, SlotFor(t.ps, f))
  /\ t.ps.next \in Nat /\ t.ps.next >= m.ps.next
  /\ \A o \in OrdOf(Current(t, f)) :
       \/ o = m.ps.next /\ o < t.ps.next
       \/ o \in OrdOf(slot) /\ (Occupied(Current(m, f)) \/ o # Unassigned)
  /\ \A o \in OrdOf(SlotFor(t.ps, f)) :
       o \in OrdOf(Current(t, f)) \/ (m.ps.next <= o /\ o < t.ps.next)

\* The live half of stage.
LEMMA Applying ==
  ASSUME NEW p, ArenaOK(p), NEW f \in Fact, NEW previous \in Cell, NEW next \in Cell,
         Occupied(next) => next.fact = f,
         Occupied(previous) <=> Occupied(SlotFor(p, f))
  PROVE  LET q == ApplyStaged(p, f, previous, next) IN
         /\ ArenaOK(q)
         /\ \A g \in Fact : g # f => SlotFor(q, g) = SlotFor(p, g)
         /\ Content(SlotFor(q, f)) = Content(next)
         /\ Follows(p, q, f, SlotFor(q, f))
         /\ q.next \in Nat /\ q.next >= p.next
         /\ \A o \in OrdOf(SlotFor(q, f)) : o \in OrdOf(next) \/ (p.next <= o /\ o < q.next)
<1> DEFINE i == SlotIndex(p, f)
           q == ApplyStaged(p, f, previous, next)
           live == [next EXCEPT !.ord = p.next]
           Goal == /\ ArenaOK(q)
                   /\ \A g \in Fact : g # f => SlotFor(q, g) = SlotFor(p, g)
                   /\ Content(SlotFor(q, f)) = Content(next)
                   /\ Follows(p, q, f, SlotFor(q, f))
                   /\ q.next \in Nat /\ q.next >= p.next
                   /\ \A o \in OrdOf(SlotFor(q, f)) : o \in OrdOf(next) \/ (p.next <= o /\ o < q.next)
<1> SUFFICES Goal
  OBVIOUS
<1>0. p.next \in Nat /\ (Occupied(SlotFor(p, f)) <=> i # 0) /\ Empty \in Cell /\ ~Occupied(Empty)
  BY SlotIndexFinds DEF ArenaOK, PlainState, Cell, Occupied
<1>1. CASE ~Occupied(next) /\ i # 0
  <2>1. q = PutSlot(p, i, Empty) /\ next = Empty
    BY <1>1 DEF ApplyStaged, Occupied
  <2>2. Sets(p, q, f, Empty) /\ q.next = p.next
    BY <1>0, <1>1, <2>1, Putting
  <2> HIDE DEF q
  <2> QED
    BY <1>0, <2>1, <2>2 DEF Sets
<1>2. CASE ~Occupied(next) /\ i = 0
  <2>1. q = p /\ next = Empty /\ SlotFor(p, f) = Empty
    BY <1>2, SlotIndexFinds DEF ApplyStaged, Occupied
  <2>2. Follows(p, p, f, Empty)
    BY <2>1, <1>0 DEF Follows, Indexed
  <2> HIDE DEF q
  <2> QED
    BY <1>0, <2>1, <2>2 DEF OrdOf
<1>3. ASSUME Occupied(next) PROVE /\ next \in SlotRec /\ live \in SlotRec /\ live.fact = f /\ live.ord = p.next
                                  /\ Content(live) = Content(next) /\ OrdOf(live) = {p.next} /\ Occupied(live)
  <2>1. next \in SlotRec
    BY <1>3, CellKinds
  <2>2. live \in SlotRec /\ live.fact = f /\ live.ord = p.next /\ live.val = next.val
        /\ live.writers = next.writers /\ live.shared = next.shared
    BY <2>1, <1>0, <1>3 DEF SlotRec
  <2>3. Occupied(live)
    BY <2>2, CellKinds DEF Cell
  <2> HIDE DEF live
  <2> QED
    BY <1>3, <2>1, <2>2, <2>3 DEF Content, OrdOf
<1>4. CASE Occupied(next) /\ ~Occupied(previous)
  <2>1. q = InsertFact(p, next) /\ i = 0
    BY <1>0, <1>4 DEF ApplyStaged
  <2>2. Sets(p, q, f, live) /\ q.next = p.next + 1
    BY <1>3, <1>4, <2>1, Inserting
  <2> HIDE DEF q, live
  <2> QED
    BY <1>0, <1>3, <1>4, <2>2 DEF Sets
<1>5. CASE Occupied(next) /\ Occupied(previous) /\ previous.ord = next.ord
  <2>1. q = PutSlot(p, i, next) /\ i # 0
    BY <1>0, <1>5 DEF ApplyStaged
  <2>2. Sets(p, q, f, next) /\ q.next = p.next
    BY <2>1, Putting
  <2> HIDE DEF q
  <2> QED
    BY <1>0, <2>2 DEF Sets
<1>6. CASE Occupied(next) /\ Occupied(previous) /\ previous.ord # next.ord
  <2> DEFINE r == PutSlot(p, i, Empty)
  <2>1. q = InsertFact(r, next) /\ i # 0
    BY <1>0, <1>6 DEF ApplyStaged
  <2>2. Sets(p, r, f, Empty) /\ r.next = p.next
    BY <1>0, <2>1, Putting
  <2> HIDE DEF r
  <2>3. ArenaOK(r) /\ SlotIndex(r, f) = 0
    BY <1>0, <2>2, SlotIndexFinds DEF Sets
  <2>4. Sets(r, q, f, live) /\ q.next = p.next + 1
    BY <1>3, <1>6, <2>1, <2>2, <2>3, Inserting
  <2> HIDE DEF q, live
  <2>5. Follows(p, q, f, live)
    BY <1>0, <2>2, <2>4 DEF Sets, Follows, OrdOf
  <2> QED
    BY <1>0, <1>3, <1>6, <2>2, <2>4, <2>5 DEF Sets
<1> QED
  BY <1>1, <1>2, <1>4, <1>5, <1>6

\* stage
LEMMA Staging ==
  ASSUME NEW m, MemoryOK(m), NEW f \in Fact, NEW slot \in Cell, Occupied(slot) => slot.fact = f
  PROVE  Stages(m, StageSlot(m, f, slot), f, slot)
<1> DEFINE a == FirstTouch(m, f)
           n == EntryOf(a.journal, f)
           previous == a.journal[n].staged
           fresh == ~Occupied(previous) /\ Occupied(slot) /\ slot.ord = Unassigned
           next == IF fresh THEN [slot EXCEPT !.ord = a.ps.next] ELSE slot
           p == IF fresh THEN [a.ps EXCEPT !.next = @ + 1] ELSE a.ps
           q == ApplyStaged(p, f, previous, next)
           t == [ps |-> q, journal |-> WithStaged(a.journal, n, next)]
<1>1. /\ MemoryOK(a) /\ a.ps = m.ps /\ Touched(a, f)
      /\ \A g \in Fact : Current(a, g) = Current(m, g) /\ FirstSlot(a, g) = FirstSlot(m, g)
      /\ \A g \in Fact : Touched(a, g) <=> Touched(m, g) \/ g = f
  BY FirstTouching
<1>2. StageSlot(m, f, slot) = t
  BY DEF StageSlot
<1> HIDE DEF a
<1>3. previous = Current(m, f)
  BY <1>1 DEF Touched, Current
<1>4. previous \in Cell /\ (Occupied(previous) <=> Occupied(SlotFor(m.ps, f)))
  BY <1>3, SlotsOfFact
<1> HIDE DEF previous
<1>5. /\ ArenaOK(p) /\ m.ps.next \in Nat
      /\ p.next = IF fresh THEN m.ps.next + 1 ELSE m.ps.next
      /\ \A g \in Fact : SlotIndex(p, g) = SlotIndex(m.ps, g) /\ SlotFor(p, g) = SlotFor(m.ps, g)
      /\ \A g \in Fact : Indexed(p, g) <=> Indexed(m.ps, g)
      /\ IndexSound(p) <=> IndexSound(m.ps)
  <2>0. ArenaOK(m.ps) /\ m.ps.next \in Nat
    BY DEF MemoryOK, ArenaOK, PlainState
  <2>1. CASE fresh
    <3>1. p = [m.ps EXCEPT !.next = @ + 1]
      BY <2>1, <1>1
    <3> HIDE DEF p
    <3> QED
      BY <2>0, <2>1, <3>1, Numbering
  <2>2. CASE ~fresh
    BY <2>0, <2>2, <1>1
  <2> QED
    BY <2>1, <2>2
<1>6. /\ next \in Cell /\ (Occupied(next) => next.fact = f) /\ Content(next) = Content(slot)
      /\ \A o \in OrdOf(next) : \/ fresh /\ o = m.ps.next
                                \/ ~fresh /\ o \in OrdOf(slot) /\ (Occupied(previous) \/ o # Unassigned)
  <2>1. CASE fresh
    <3>1. slot \in SlotRec /\ Occupied(slot)
      BY <2>1, CellKinds
    <3>2. next = [slot EXCEPT !.ord = m.ps.next]
      BY <2>1, <1>1
    <3>3. /\ next \in SlotRec /\ next.fact = slot.fact /\ next.ord = m.ps.next /\ next.val = slot.val
          /\ next.writers = slot.writers /\ next.shared = slot.shared
      BY <3>1, <3>2, <1>5 DEF SlotRec
    <3> HIDE DEF next
    <3>4. next \in Cell /\ Occupied(next)
      BY <3>3, CellKinds DEF Cell
    <3> QED
      BY <2>1, <3>1, <3>3, <3>4 DEF Content, OrdOf
  <2>2. CASE ~fresh
    BY <2>2 DEF OrdOf
  <2> QED
    BY <2>1, <2>2
<1> HIDE DEF next, p
<1>7. /\ ArenaOK(q)
      /\ \A g \in Fact : g # f => SlotFor(q, g) = SlotFor(p, g)
      /\ Content(SlotFor(q, f)) = Content(next)
      /\ Follows(p, q, f, SlotFor(q, f))
      /\ q.next \in Nat /\ q.next >= p.next
      /\ \A o \in OrdOf(SlotFor(q, f)) : o \in OrdOf(next) \/ (p.next <= o /\ o < q.next)
  BY <1>4, <1>5, <1>6, Applying
<1> HIDE DEF q
<1>8. /\ MemoryOK(t) /\ Current(t, f) = next
      /\ \A g \in Fact : g # f => Current(t, g) = Current(a, g)
      /\ \A g \in Fact : FirstSlot(t, g) = FirstSlot(a, g) /\ (Touched(t, g) <=> Touched(a, g))
  BY <1>1, <1>5, <1>6, <1>7, Entering
<1>9. t.ps = q
  OBVIOUS
<1> HIDE DEF t
<1>10. Follows(m.ps, q, f, SlotFor(q, f))
  BY <1>5, <1>7 DEF Follows
<1>11. q.next >= m.ps.next /\ (fresh => m.ps.next < q.next)
  BY <1>5, <1>7
<1>12. \A o \in OrdOf(SlotFor(q, f)) : o \in OrdOf(next) \/ (m.ps.next <= o /\ o < q.next)
  <2> SUFFICES ASSUME NEW o \in OrdOf(SlotFor(q, f)), o \notin OrdOf(next)
               PROVE  m.ps.next <= o /\ o < q.next
    OBVIOUS
  <2>1. SlotFor(q, f) \in Cell
    BY <1>7, SlotIndexFinds
  <2>2. o \in Nat
    BY <2>1, CellKinds DEF OrdOf
  <2> QED
    BY <2>2, <1>5, <1>7
<1>13. \A o \in OrdOf(next) : \/ o = m.ps.next /\ o < q.next
                              \/ o \in OrdOf(slot) /\ (Occupied(Current(m, f)) \/ o # Unassigned)
  BY <1>3, <1>6, <1>11
<1> QED
  BY <1>1, <1>2, <1>5, <1>6, <1>7, <1>8, <1>9, <1>10, <1>11, <1>12, <1>13 DEF Stages

-----------------------------------------------------------------------------
(* Writes, retractions and installations *)

\* The contents a store can hold: none, or a value somebody owns.
Contents == {s \in Slot : s = AbsentSlot \/ (s.writers # {} /\ s.val \in Value)}

\* What a cell holds is a content, and an absent content is no slot.
LEMMA ContentTypes ==
  /\ \A s \in Cell : Content(s) \in Contents
  /\ AbsentSlot \in Contents /\ ~Present(AbsentSlot)
  /\ \A c \in Contents : (Present(c) <=> c # AbsentSlot) /\ (Present(c) <=> c.val # NoValue)
<1>1. AbsentSlot \in Contents /\ ~Present(AbsentSlot)
  BY DEF AbsentSlot, Contents, Slot, ValueOrNone, Present
<1>2. ASSUME NEW s \in Cell PROVE Content(s) \in Contents
  <2>1. CASE Occupied(s)
    BY <2>1, CellKinds DEF Content, Contents, Slot, ValueOrNone
  <2>2. CASE ~Occupied(s)
    BY <2>2, <1>1 DEF Content
  <2> QED
    BY <2>1, <2>2
<1>3. \A c \in Contents : (Present(c) <=> c # AbsentSlot) /\ (Present(c) <=> c.val # NoValue)
  BY FactStoreAssumption DEF Contents, Present, AbsentSlot
<1> QED
  BY <1>1, <1>2, <1>3

\* An owner that lets go leaves a content behind.
LEMMA DroppedContents ==
  ASSUME NEW c \in Contents, NEW w \in c.writers
  PROVE  Dropped(c, w) \in Contents
<1>1. CASE c.shared /\ c.writers # {w}
  <2>1. c.writers \ {w} # {} /\ c # AbsentSlot
    BY <1>1 DEF AbsentSlot
  <2>2. Dropped(c, w) = [c EXCEPT !.writers = @ \ {w}] /\ c \in Slot /\ c.val \in Value
    BY <1>1, <2>1 DEF Dropped, Contents
  <2> QED
    BY <2>1, <2>2 DEF Contents, Slot
<1>2. CASE ~(c.shared /\ c.writers # {w})
  BY <1>2, ContentTypes DEF Dropped
<1> QED
  BY <1>1, <1>2

\* A write leaves a content behind.
LEMMA WrittenContents ==
  ASSUME NEW c \in Contents, NEW v \in ValueOrNone, NEW w \in Writer, NEW sh \in BOOLEAN
  PROVE  Written(c, v, w, sh) \in Contents
<1>1. CASE ~Present(c)
  <2>1. CASE v = NoValue
    BY <1>1, <2>1 DEF Written
  <2>2. CASE v # NoValue
    <3>1. Written(c, v, w, sh) = [val |-> v, writers |-> {w}, shared |-> sh] /\ v \in Value
      BY <1>1, <2>2 DEF Written, ValueOrNone
    <3> QED
      BY <3>1 DEF Contents, Slot, ValueOrNone
  <2> QED
    BY <2>1, <2>2
<1>2. CASE Present(c) /\ w \notin c.writers
  <2>1. CASE v = NoValue
    BY <1>2, <2>1 DEF Written
  <2>2. CASE v # NoValue
    <3>1. Written(c, v, w, sh) = [c EXCEPT !.writers = @ \cup {w}] /\ c \in Slot /\ c.val \in Value
      BY <1>2, <2>2, ContentTypes DEF Written, Contents
    <3> QED
      BY <3>1 DEF Contents, Slot
  <2> QED
    BY <2>1, <2>2
<1>3. CASE Present(c) /\ w \in c.writers
  <2>1. CASE v = NoValue
    BY <1>3, <2>1, DroppedContents DEF Written
  <2>2. CASE v # NoValue
    <3>1. Written(c, v, w, sh) = [c EXCEPT !.val = v] /\ c \in Slot /\ v \in Value
      BY <1>3, <2>2 DEF Written, Contents, ValueOrNone
    <3> QED
      BY <1>3, <3>1 DEF Contents, Slot, ValueOrNone
  <2> QED
    BY <2>1, <2>2
<1> QED
  BY <1>1, <1>2, <1>3

\* What a journalled operation does that gives f the content c: as Stages, and
\* the staged ordinal is the one f had or a fresh one.
Changes(m, t, f, c) ==
  /\ MemoryOK(t)
  /\ Content(Current(t, f)) = c /\ Content(SlotFor(t.ps, f)) = c
  /\ \A g \in Fact : g # f => SlotFor(t.ps, g) = SlotFor(m.ps, g) /\ Current(t, g) = Current(m, g)
  /\ \A g \in Fact : FirstSlot(t, g) = FirstSlot(m, g)
  /\ \A g \in Fact : Touched(t, g) <=> Touched(m, g) \/ g = f
  /\ Follows(m.ps, t.ps, f, SlotFor(t.ps, f))
  /\ t.ps.next \in Nat /\ t.ps.next >= m.ps.next
  /\ \A o \in OrdOf(Current(t, f)) : o \in OrdOf(Current(m, f)) \/ (o = m.ps.next /\ o < t.ps.next)
  /\ \A o \in OrdOf(SlotFor(t.ps, f)) :
       o \in OrdOf(Current(t, f)) \/ (m.ps.next <= o /\ o < t.ps.next)

\* Restaging the effective slot of f with the content c.
LEMMA Restaging ==
  ASSUME NEW m, MemoryOK(m), NEW f \in Fact, NEW c \in Contents
  PROVE  Changes(m, Restage(m, f, c), f, c)
<1> DEFINE current == Current(m, f)
           ord == IF Occupied(current) THEN current.ord ELSE Unassigned
           slot == IF ~Present(c) THEN Empty ELSE FactSlot(f, ord, c)
           t == Restage(m, f, c)
<1>1. t = StageSlot(m, f, slot)
  BY DEF Restage
<1>2. current \in Cell
  BY SlotsOfFact
<1>3. ord \in Nat
  BY <1>2, CellKinds DEF Unassigned
<1>4. /\ slot \in Cell /\ (Occupied(slot) => slot.fact = f) /\ Content(slot) = c
      /\ \A o \in OrdOf(slot) : o = ord
  <2>1. CASE ~Present(c)
    <3>1. slot = Empty /\ ~Occupied(Empty) /\ c = AbsentSlot
      BY <2>1, ContentTypes DEF Occupied
    <3> HIDE DEF slot
    <3> QED
      BY <3>1 DEF Content, Cell, OrdOf
  <2>2. CASE Present(c)
    <3> HIDE DEF ord
    <3>1. slot = FactSlot(f, ord, c) /\ c \in Slot /\ c.writers # {} /\ c.val \in Value
      BY <2>2 DEF Contents, AbsentSlot, Present
    <3>2. /\ slot \in SlotRec /\ slot.fact = f /\ slot.ord = ord /\ slot.val = c.val
          /\ slot.writers = c.writers /\ slot.shared = c.shared
      BY <3>1, <1>3 DEF FactSlot, SlotRec, Slot
    <3> HIDE DEF slot
    <3>3. slot \in Cell /\ Occupied(slot)
      BY <3>2, CellKinds DEF Cell
    <3>4. Content(slot) = [val |-> c.val, writers |-> c.writers, shared |-> c.shared]
      BY <3>2, <3>3 DEF Content
    <3>5. c = [val |-> c.val, writers |-> c.writers, shared |-> c.shared]
      BY <3>1 DEF Slot
    <3> QED
      BY <3>2, <3>3, <3>4, <3>5 DEF OrdOf
  <2> QED
    BY <2>1, <2>2
<1> HIDE DEF slot, t
<1>5. Stages(m, t, f, slot)
  BY <1>1, <1>4, Staging
<1>6. \A o \in OrdOf(Current(t, f)) : o \in OrdOf(Current(m, f)) \/ (o = m.ps.next /\ o < t.ps.next)
  <2> SUFFICES ASSUME NEW o \in OrdOf(Current(t, f)), ~(o = m.ps.next /\ o < t.ps.next)
               PROVE  o \in OrdOf(Current(m, f))
    OBVIOUS
  <2>1. o \in OrdOf(slot) /\ (Occupied(current) \/ o # Unassigned)
    BY <1>5 DEF Stages
  <2>2. o = ord
    BY <1>4, <2>1
  <2>3. Occupied(current)
    BY <2>1, <2>2
  <2> QED
    BY <2>2, <2>3 DEF OrdOf
<1>7. Changes(m, t, f, c)
  BY <1>4, <1>5, <1>6 DEF Stages, Changes
<1> QED
  BY <1>7 DEF t

\* FactJournal::write: the write that changes the fact.
LEMMA Writing ==
  ASSUME NEW m, MemoryOK(m), NEW f \in Fact, NEW v \in ValueOrNone, NEW w \in Writer
  PROVE  LET c == Written(Content(SlotFor(m.ps, f)), v, w, Shareable(w, f)) IN
         /\ c \in Contents
         /\ \/ c = Content(SlotFor(m.ps, f)) /\ JournalWrite(m, w, f, v) = m
            \/ c # Content(SlotFor(m.ps, f)) /\ Changes(m, JournalWrite(m, w, f, v), f, c)
<1> DEFINE c == Written(Content(SlotFor(m.ps, f)), v, w, Shareable(w, f))
<1>1. Content(Current(m, f)) = Content(SlotFor(m.ps, f)) /\ SlotFor(m.ps, f) \in Cell
  BY SlotsOfFact DEF MemoryOK
<1>2. c \in Contents
  BY <1>1, ContentTypes, WrittenContents DEF Shareable
<1>3. JournalWrite(m, w, f, v) = IF c = Content(SlotFor(m.ps, f)) THEN m ELSE Restage(m, f, c)
  BY <1>1 DEF JournalWrite
<1> HIDE DEF c
<1>4. Changes(m, Restage(m, f, c), f, c)
  BY <1>2, Restaging
<1> QED
  BY <1>2, <1>3, <1>4 DEF c

\* FactJournal::retract by an owner.
LEMMA Retracting ==
  ASSUME NEW m, MemoryOK(m), NEW f \in Fact, NEW w \in Content(SlotFor(m.ps, f)).writers
  PROVE  Changes(m, JournalRetract(m, w, f), f, Retracted(Content(SlotFor(m.ps, f)), w))
<1>1. Content(Current(m, f)) = Content(SlotFor(m.ps, f)) /\ SlotFor(m.ps, f) \in Cell
  BY SlotsOfFact DEF MemoryOK
<1>2. Retracted(Content(SlotFor(m.ps, f)), w) \in Contents
  BY <1>1, ContentTypes, DroppedContents DEF Retracted
<1>3. JournalRetract(m, w, f) = Restage(m, f, Retracted(Content(SlotFor(m.ps, f)), w))
  BY <1>1 DEF JournalRetract
<1> QED
  BY <1>2, <1>3, Restaging

\* What installing a captured slot does: as Stages, with the owners united.  A
\* fact that is new here keeps its captured ordinal in the journal.
Unites(m, t, f, slot) ==
  /\ MemoryOK(t)
  /\ Content(SlotFor(t.ps, f)) = Installed(Content(SlotFor(m.ps, f)), Content(slot))
  /\ \A g \in Fact : g # f => SlotFor(t.ps, g) = SlotFor(m.ps, g) /\ Current(t, g) = Current(m, g)
  /\ \A g \in Fact : FirstSlot(t, g) = FirstSlot(m, g)
  /\ \A g \in Fact : Touched(t, g) <=> Touched(m, g) \/ g = f
  /\ Follows(m.ps, t.ps, f, SlotFor(t.ps, f))
  /\ t.ps.next \in Nat /\ t.ps.next >= m.ps.next
  /\ \A o \in OrdOf(Current(t, f)) :
       \/ o \in OrdOf(Current(m, f))
       \/ o = m.ps.next
       \/ ~Occupied(Current(m, f)) /\ o = slot.ord
  /\ \A o \in OrdOf(SlotFor(t.ps, f)) : o \in OrdOf(Current(t, f)) \/ m.ps.next <= o

\* FactJournal::install of one captured slot.
LEMMA Installing ==
  ASSUME NEW m, MemoryOK(m), NEW slot \in SlotRec
  PROVE  Unites(m, JournalInstall(m, slot), slot.fact, slot)
<1> DEFINE f == slot.fact
           current == Current(m, f)
           united == [current EXCEPT !.writers = @ \cup slot.writers]
           t == JournalInstall(m, slot)
<1>0. /\ f \in Fact /\ slot \in Cell /\ Occupied(slot) /\ SlotFor(m.ps, f) \in Cell
      /\ Content(slot) = [val |-> slot.val, writers |-> slot.writers, shared |-> slot.shared]
      /\ current \in Cell /\ (Occupied(current) => current.fact = f)
      /\ Content(SlotFor(m.ps, f)) = Content(current)
  BY CellKinds, SlotsOfFact DEF Cell, Content, MemoryOK
<1>1. CASE Occupied(current)
  <2>1. t = StageSlot(m, f, united)
    BY <1>1 DEF JournalInstall
  <2>2. /\ united \in SlotRec /\ united.fact = f /\ united.ord = current.ord /\ united.val = current.val
        /\ united.writers = current.writers \cup slot.writers /\ united.shared = current.shared
    <3>1. current \in SlotRec
      BY <1>0, <1>1, CellKinds
    <3> QED
      BY <3>1, <1>0, <1>1 DEF SlotRec
  <2> HIDE DEF united
  <2>3. united \in Cell /\ Occupied(united)
    BY <2>2, CellKinds DEF Cell
  <2>4. Stages(m, t, f, united)
    BY <1>0, <2>1, <2>2, <2>3, Staging
  <2>5. Content(united) = Installed(Content(current), Content(slot))
    <3>1. Content(current) = [val |-> current.val, writers |-> current.writers, shared |-> current.shared]
      BY <1>1 DEF Content
    <3>2. Present(Content(current))
      BY <1>0, <1>1, ContentOccupied
    <3>3. Content(united) = [val |-> current.val, writers |-> current.writers \cup slot.writers,
                             shared |-> current.shared]
      BY <2>2, <2>3 DEF Content
    <3>4. Installed(Content(current), Content(slot))
            = [Content(current) EXCEPT !.writers = Content(current).writers \cup Content(slot).writers]
      BY <3>2 DEF Installed
    <3>5. /\ Content(current).writers = current.writers /\ Content(slot).writers = slot.writers
      BY <1>0, <3>1
    <3>6. Content(current) \in Slot /\ slot.writers \in SUBSET Writer
      BY <1>0, ContentOccupied, CellKinds
    <3> DEFINE c == Content(current)  x == Content(slot).writers
    <3>7. c \in Slot /\ x \in SUBSET Writer /\ c.val = current.val /\ c.shared = current.shared
      BY <3>1, <3>5, <3>6
    <3> HIDE DEF c, x
    <3>8. [c EXCEPT !.writers = c.writers \cup x]
            = [val |-> current.val, writers |-> c.writers \cup x, shared |-> current.shared]
      BY <3>7 DEF Slot
    <3> QED
      BY <3>3, <3>4, <3>5, <3>8 DEF c, x
  <2>6. OrdOf(united) = OrdOf(current)
    BY <1>1, <2>2, <2>3 DEF OrdOf
  <2> HIDE DEF t
  <2>7. \A o \in OrdOf(Current(t, f)) : o \in OrdOf(Current(m, f)) \/ o = m.ps.next
    BY <2>4, <2>6 DEF Stages
  <2>8. Unites(m, t, f, slot)
    BY <1>0, <2>4, <2>5, <2>7 DEF Stages, Unites
  <2> QED
    BY <2>8 DEF t
<1>2. CASE ~Occupied(current)
  <2>1. t = StageSlot(m, f, slot)
    BY <1>2 DEF JournalInstall
  <2>2. Stages(m, t, f, slot)
    BY <1>0, <2>1, Staging
  <2>3. Content(slot) = Installed(Content(current), Content(slot))
    BY <1>0, <1>2, ContentOccupied DEF Installed
  <2>4. \A o \in OrdOf(slot) : o = slot.ord
    BY DEF OrdOf
  <2> HIDE DEF t
  <2>5. \A o \in OrdOf(Current(t, f)) : o = m.ps.next \/ o = slot.ord
    BY <2>2, <2>4 DEF Stages
  <2>6. Unites(m, t, f, slot)
    BY <1>0, <1>2, <2>2, <2>3, <2>5 DEF Stages, Unites
  <2> QED
    BY <2>6 DEF t
<1> QED
  BY <1>1, <1>2

\* rollback of one entry
LEMMA RollingBack ==
  ASSUME NEW p, ArenaOK(p), NEW e \in Entry, Occupied(e.first) => e.first.fact = e.fact
  PROVE  Sets(p, RollbackEntry(p, e), e.fact, e.first) /\ RollbackEntry(p, e).next = p.next
<1>0. e.fact \in Fact /\ e.first \in Cell
  BY DEF Entry
<1>1. CASE SlotIndex(p, e.fact) # 0
  BY <1>0, <1>1, Putting DEF RollbackEntry
<1>2. CASE SlotIndex(p, e.fact) = 0 /\ Occupied(e.first)
  <2>1. e.first \in SlotRec
    BY <1>0, <1>2, CellKinds
  <2> QED
    BY <1>0, <1>2, <2>1, Placing DEF RollbackEntry
<1>3. CASE SlotIndex(p, e.fact) = 0 /\ ~Occupied(e.first)
  <2>1. RollbackEntry(p, e) = p /\ e.first = Empty /\ SlotFor(p, e.fact) = Empty /\ ~Occupied(Empty)
    BY <1>0, <1>3, SlotIndexFinds DEF RollbackEntry, Occupied
  <2>2. Follows(p, p, e.fact, Empty)
    BY <2>1 DEF Follows, Indexed
  <2> QED
    BY <2>1, <2>2 DEF Sets
<1> QED
  BY <1>1, <1>2, <1>3

\* The whole rollback: every journalled fact has its first slot back and every
\* other fact the slot it had.  B[f] are the ordinals that belong to f; the
\* indexes find every slot that ends up under an ordinal of its own.
LEMMA Undone ==
  ASSUME NEW p, ArenaOK(p), IndexSound(p), NEW j, JournalOK(j), NEW B,
         \A f, g \in Fact : f # g => B[f] \cap (B[g] \cup OrdOf(SlotFor(p, g))) = {},
         \A n \in DOMAIN j : OrdOf(j[n].first) \subseteq B[j[n].fact],
         \A f \in Fact : OrdOf(SlotFor(p, f)) \subseteq B[f] => Indexed(p, f)
  PROVE  LET q == Undo!After(p, Reverse(j)) IN
         /\ ArenaOK(q) /\ IndexSound(q) /\ q.next = p.next
         /\ \A n \in DOMAIN j : SlotFor(q, j[n].fact) = j[n].first
         /\ \A f \in Fact : (\A n \in DOMAIN j : j[n].fact # f) => SlotFor(q, f) = SlotFor(p, f)
         /\ \A f \in Fact : OrdOf(SlotFor(q, f)) \subseteq B[f] => Indexed(q, f)
<1> DEFINE s == Reverse(j)
           L == Len(j)
           X == Undo!States(p, s)
           P(n) == /\ ArenaOK(X[n]) /\ IndexSound(X[n]) /\ X[n].next = p.next
                   /\ \A k \in DOMAIN j : k > L - n => SlotFor(X[n], j[k].fact) = j[k].first
                   /\ \A f \in Fact : (\A k \in DOMAIN j : k > L - n => j[k].fact # f)
                                        => SlotFor(X[n], f) = SlotFor(p, f)
                   /\ \A f \in Fact : OrdOf(SlotFor(X[n], f)) \subseteq B[f] => Indexed(X[n], f)
           S == {n \in Nat : n <= L => P(n)}
<1>0. /\ j \in Seq(Entry) /\ L \in Nat /\ DOMAIN j = 1 .. L
      /\ \A k \in DOMAIN j : j[k] \in Entry /\ j[k].fact \in Fact
  <2>1. j \in Seq(Entry)
    BY DEF JournalOK
  <2>2. \A k \in DOMAIN j : j[k] \in Entry
    BY <2>1
  <2> QED
    BY <2>1, <2>2 DEF Entry
<1>1. Len(s) = L /\ \A n \in 1 .. L : s[n] = j[(L - n) + 1]
  BY <1>0 DEF Reverse
<1>2. X[0] = p /\ \A n \in 1 .. L : X[n] = RollbackEntry(X[n - 1], s[n])
  <2>1. Len(s) \in Nat
    BY <1>0, <1>1
  <2> HIDE DEF s, L
  <2> QED
    BY <1>1, <2>1, Undo!Iterates
<1> HIDE DEF s, X, L
<1>3. 0 \in S
  <2>1. P(0)
    BY <1>0, <1>2
  <2> QED
    BY <2>1
<1>4. ASSUME NEW n \in Nat, n \in S PROVE n + 1 \in S
  <2> SUFFICES ASSUME n + 1 <= L PROVE P(n + 1)
    OBVIOUS
  <2>1. P(n)
    BY <1>0, <1>4
  <2> DEFINE e == j[L - n]  f == e.fact  q == X[n + 1]
  <2>2. L - n \in DOMAIN j /\ n + 1 \in 1 .. L /\ (L - (n + 1)) + 1 = L - n /\ (n + 1) - 1 = n
    BY <1>0
  <2>3. e \in Entry /\ f \in Fact /\ (Occupied(e.first) => e.first.fact = f)
    BY <1>0, <2>2 DEF JournalOK
  <2>4. q = RollbackEntry(X[n], e)
    BY <1>1, <1>2, <2>2
  <2>5. Sets(X[n], q, f, e.first) /\ q.next = p.next
    BY <2>1, <2>3, <2>4, RollingBack
  <2>6. SlotFor(X[n], f) = SlotFor(p, f)
    <3>1. \A k \in DOMAIN j : k > L - n => j[k].fact # f
      BY <1>0, <2>2 DEF JournalOK
    <3> QED
      BY <2>1, <2>3, <3>1
  <2>7. \A k \in DOMAIN j : k > L - (n + 1) <=> (k > L - n \/ k = L - n)
    BY <1>0
  <2> HIDE DEF q
  <2>8. \A k \in DOMAIN j : k > L - (n + 1) => SlotFor(q, j[k].fact) = j[k].first
    <3> SUFFICES ASSUME NEW k \in DOMAIN j, k > L - (n + 1)
                 PROVE  SlotFor(q, j[k].fact) = j[k].first
      OBVIOUS
    <3>1. CASE k = L - n
      BY <2>5, <3>1 DEF Sets
    <3>2. CASE k # L - n
      <4>1. k > L - n
        BY <2>7, <3>2
      <4>2. j[k].fact # f /\ j[k].fact \in Fact
        BY <1>0, <2>2, <3>2 DEF JournalOK
      <4> QED
        BY <2>1, <2>5, <4>1, <4>2 DEF Sets
    <3> QED
      BY <3>1, <3>2
  <2>9. ASSUME NEW g \in Fact, \A k \in DOMAIN j : k > L - (n + 1) => j[k].fact # g
        PROVE  SlotFor(q, g) = SlotFor(p, g)
    <3>1. g # f /\ \A k \in DOMAIN j : k > L - n => j[k].fact # g
      BY <2>2, <2>7, <2>9
    <3> QED
      BY <2>1, <2>5, <3>1 DEF Sets
  <2>10. ASSUME NEW g \in Fact, OrdOf(SlotFor(q, g)) \subseteq B[g]
         PROVE  Indexed(q, g)
    <3>1. CASE g = f
      BY <2>5, <3>1 DEF Sets, Follows
    <3>2. CASE g # f
      <4>1. SlotFor(q, g) = SlotFor(X[n], g)
        BY <2>5, <3>2 DEF Sets
      <4>2. Indexed(X[n], g)
        BY <2>1, <2>10, <4>1
      <4>3. OrdOf(e.first) \subseteq B[f]
        BY <2>2
      <4>4. B[g] \cap (B[f] \cup OrdOf(SlotFor(p, f))) = {}
        BY <2>3, <3>2
      <4>5. OrdOf(SlotFor(X[n], g)) \cap (OrdOf(SlotFor(X[n], f)) \cup OrdOf(e.first)) = {}
        BY <2>6, <2>10, <4>1, <4>3, <4>4
      <4> QED
        BY <2>5, <3>2, <4>2, <4>5 DEF Sets, Follows
    <3> QED
      BY <3>1, <3>2
  <2>11. ArenaOK(q) /\ IndexSound(q)
    BY <2>1, <2>5 DEF Sets, Follows
  <2> QED
    BY <2>5, <2>8, <2>9, <2>10, <2>11 DEF q
<1>5. P(L)
  <2>1. \A n \in Nat : n \in S => n + 1 \in S
    BY <1>4
  <2> HIDE DEF S
  <2>2. L \in S
    BY <1>0, <1>3, <2>1, Undo!SetInduction
  <2> USE DEF S
  <2> QED
    BY <1>0, <2>2
<1>6. Undo!After(p, Reverse(j)) = X[L]
  BY <1>1 DEF Undo!After, X, s
<1>7. \A k \in DOMAIN j : k > L - L
  BY <1>0
<1> QED
  BY <1>5, <1>6, <1>7

-----------------------------------------------------------------------------
(* The committed snapshot *)

\* Every ordinal of a view belongs to a key of that view.
SnapSound(s) ==
  /\ DOMAIN s.byOrdinal = View /\ DOMAIN s.byKey \subseteq Fact
  /\ \A v \in View : \A o \in DOMAIN s.byOrdinal[v] :
       \E f \in DOMAIN s.byKey : ViewOf[f] = v /\ s.byKey[f] = o

\* The snapshot holds the value of a slot.
Holds(s, f, cell) ==
  /\ f \in DOMAIN s.byKey <=> Occupied(cell)
  /\ Occupied(cell) => /\ s.byKey[f] \in DOMAIN s.byOrdinal[ViewOf[f]]
                       /\ s.byOrdinal[ViewOf[f]][s.byKey[f]] = [fact |-> f, val |-> cell.val]

KeyOrd(s, f) == IF f \in DOMAIN s.byKey THEN {s.byKey[f]} ELSE {}

\* SnapshotView::insert under an ordinal that no other key of the view has.
LEMMA SnapInserting ==
  ASSUME NEW s, SnapSound(s), NEW f \in Fact, NEW G, \A g \in Fact : Holds(s, g, G[g]),
         NEW new, Occupied(new),
         \A g \in Fact : g # f => KeyOrd(s, g) \cap {new.ord} = {}
  PROVE  LET q == SnapInsert(s, f, new.ord, new.val) IN
         /\ SnapSound(q) /\ Holds(q, f, new) /\ KeyOrd(q, f) = {new.ord}
         /\ \A g \in Fact : g # f => Holds(q, g, G[g]) /\ KeyOrd(q, g) = KeyOrd(s, g)
<1> DEFINE v == ViewOf[f]
           ord == new.ord
           stale == IF f \in DOMAIN s.byKey THEN s.byKey[f] ELSE ord
           cleaned == IF stale # ord THEN Without(s.byOrdinal[v], stale) ELSE s.byOrdinal[v]
           entered == WithEntry(cleaned, ord, [fact |-> f, val |-> new.val])
           q == SnapInsert(s, f, ord, new.val)
<1>0. v \in View /\ DOMAIN s.byOrdinal = View
  BY ArenaAssumption DEF SnapSound
<1>1. /\ q.byKey = WithEntry(s.byKey, f, ord)
      /\ q.byOrdinal = [s.byOrdinal EXCEPT ![v] = entered]
  BY DEF SnapInsert
<1>2. /\ DOMAIN q.byKey = DOMAIN s.byKey \cup {f} /\ q.byKey[f] = ord
      /\ \A g \in DOMAIN s.byKey : g # f => q.byKey[g] = s.byKey[g]
  BY <1>1 DEF WithEntry
<1>3. /\ DOMAIN cleaned = IF stale # ord THEN DOMAIN s.byOrdinal[v] \ {stale} ELSE DOMAIN s.byOrdinal[v]
      /\ \A o \in DOMAIN cleaned : cleaned[o] = s.byOrdinal[v][o]
  BY DEF Without
<1> HIDE DEF cleaned
<1>4. /\ DOMAIN entered = DOMAIN cleaned \cup {ord} /\ entered[ord] = [fact |-> f, val |-> new.val]
      /\ \A o \in DOMAIN cleaned : o # ord => entered[o] = s.byOrdinal[v][o]
  BY <1>3 DEF WithEntry
<1> HIDE DEF entered
<1>5. /\ DOMAIN q.byOrdinal = View /\ q.byOrdinal[v] = entered
      /\ \A u \in View : u # v => q.byOrdinal[u] = s.byOrdinal[u]
  BY <1>0, <1>1
<1> HIDE DEF q
<1>6. Holds(q, f, new) /\ KeyOrd(q, f) = {ord}
  BY <1>2, <1>4, <1>5 DEF Holds, KeyOrd
<1>7. ASSUME NEW g \in Fact, g # f
      PROVE  Holds(q, g, G[g]) /\ KeyOrd(q, g) = KeyOrd(s, g)
  <2>1. KeyOrd(q, g) = KeyOrd(s, g) /\ (g \in DOMAIN q.byKey <=> Occupied(G[g]))
    BY <1>2, <1>7 DEF KeyOrd, Holds
  <2>2. ASSUME Occupied(G[g])
        PROVE  /\ q.byKey[g] \in DOMAIN q.byOrdinal[ViewOf[g]]
               /\ q.byOrdinal[ViewOf[g]][q.byKey[g]] = [fact |-> g, val |-> G[g].val]
    <3>1. /\ g \in DOMAIN s.byKey /\ q.byKey[g] = s.byKey[g] /\ ViewOf[g] \in View
          /\ s.byKey[g] \in DOMAIN s.byOrdinal[ViewOf[g]]
          /\ s.byOrdinal[ViewOf[g]][s.byKey[g]] = [fact |-> g, val |-> G[g].val]
      BY <1>2, <1>7, <2>2, ArenaAssumption DEF Holds
    <3>2. CASE ViewOf[g] # v
      BY <1>5, <3>1, <3>2
    <3>3. CASE ViewOf[g] = v
      <4>1. s.byKey[g] # ord
        BY <1>7, <3>1 DEF KeyOrd
      <4>2. stale # ord => s.byKey[g] # stale
        <5> SUFFICES ASSUME stale # ord, s.byKey[g] = stale PROVE FALSE
          OBVIOUS
        <5>1. f \in DOMAIN s.byKey /\ s.byKey[f] = s.byKey[g]
          OBVIOUS
        <5>2. s.byOrdinal[v][s.byKey[f]] = [fact |-> f, val |-> G[f].val]
          BY <5>1 DEF Holds
        <5>3. [fact |-> f, val |-> G[f].val] = [fact |-> g, val |-> G[g].val]
          BY <3>1, <3>3, <5>1, <5>2
        <5> QED
          BY <1>7, <5>3
      <4> QED
        BY <1>3, <1>4, <1>5, <3>1, <3>3, <4>1, <4>2
    <3> QED
      BY <3>2, <3>3
  <2> QED
    BY <2>1, <2>2 DEF Holds
<1>8. SnapSound(q)
  <2>1. ASSUME NEW u \in View, NEW o \in DOMAIN q.byOrdinal[u]
        PROVE  \E g \in DOMAIN q.byKey : ViewOf[g] = u /\ q.byKey[g] = o
    <3>1. CASE u = v /\ o = ord
      BY <1>2, <3>1
    <3>2. CASE ~(u = v /\ o = ord)
      <4>1. o \in DOMAIN s.byOrdinal[u] /\ (u = v /\ stale # ord => o # stale)
        BY <1>3, <1>4, <1>5, <3>2
      <4>2. PICK g \in DOMAIN s.byKey : ViewOf[g] = u /\ s.byKey[g] = o
        BY <4>1 DEF SnapSound
      <4>3. g # f
        BY <3>2, <4>1, <4>2
      <4> QED
        BY <1>2, <4>2, <4>3
    <3> QED
      BY <3>1, <3>2
  <2> QED
    BY <1>2, <1>5, <2>1 DEF SnapSound
<1> QED
  BY <1>6, <1>7, <1>8 DEF q

\* SnapshotView::remove
LEMMA SnapRemoving ==
  ASSUME NEW s, SnapSound(s), NEW f \in Fact, NEW G, \A g \in Fact : Holds(s, g, G[g])
  PROVE  LET q == SnapRemove(s, f) IN
         /\ SnapSound(q) /\ Holds(q, f, Empty) /\ KeyOrd(q, f) = {}
         /\ \A g \in Fact : g # f => Holds(q, g, G[g]) /\ KeyOrd(q, g) = KeyOrd(s, g)
<1> DEFINE v == ViewOf[f]
           q == SnapRemove(s, f)
<1>0. v \in View /\ DOMAIN s.byOrdinal = View /\ ~Occupied(Empty)
  BY ArenaAssumption DEF SnapSound, Occupied
<1>1. CASE f \notin DOMAIN s.byKey
  <2>1. q = s
    BY <1>1 DEF SnapRemove
  <2> QED
    BY <1>0, <1>1, <2>1 DEF Holds, KeyOrd
<1>2. CASE f \in DOMAIN s.byKey
  <2>1. /\ q.byKey = Without(s.byKey, f)
        /\ q.byOrdinal = [s.byOrdinal EXCEPT ![v] = Without(s.byOrdinal[v], s.byKey[f])]
    BY <1>2 DEF SnapRemove
  <2>2. /\ DOMAIN q.byKey = DOMAIN s.byKey \ {f}
        /\ \A g \in DOMAIN q.byKey : q.byKey[g] = s.byKey[g]
    BY <2>1 DEF Without
  <2>3. /\ DOMAIN q.byOrdinal = View
        /\ DOMAIN q.byOrdinal[v] = DOMAIN s.byOrdinal[v] \ {s.byKey[f]}
        /\ \A o \in DOMAIN q.byOrdinal[v] : q.byOrdinal[v][o] = s.byOrdinal[v][o]
        /\ \A u \in View : u # v => q.byOrdinal[u] = s.byOrdinal[u]
    BY <1>0, <2>1 DEF Without
  <2> HIDE DEF q
  <2>4. Holds(q, f, Empty) /\ KeyOrd(q, f) = {}
    BY <1>0, <2>2 DEF Holds, KeyOrd
  <2>5. ASSUME NEW g \in Fact, g # f
        PROVE  Holds(q, g, G[g]) /\ KeyOrd(q, g) = KeyOrd(s, g)
    <3>1. KeyOrd(q, g) = KeyOrd(s, g) /\ (g \in DOMAIN q.byKey <=> Occupied(G[g]))
      BY <2>2, <2>5 DEF KeyOrd, Holds
    <3>2. ASSUME Occupied(G[g])
          PROVE  /\ q.byKey[g] \in DOMAIN q.byOrdinal[ViewOf[g]]
                 /\ q.byOrdinal[ViewOf[g]][q.byKey[g]] = [fact |-> g, val |-> G[g].val]
      <4>1. /\ g \in DOMAIN s.byKey /\ q.byKey[g] = s.byKey[g] /\ ViewOf[g] \in View
            /\ s.byKey[g] \in DOMAIN s.byOrdinal[ViewOf[g]]
            /\ s.byOrdinal[ViewOf[g]][s.byKey[g]] = [fact |-> g, val |-> G[g].val]
        BY <2>2, <2>5, <3>2, ArenaAssumption DEF Holds
      <4>2. CASE ViewOf[g] # v
        BY <2>3, <4>1, <4>2
      <4>3. CASE ViewOf[g] = v
        <5>1. s.byKey[g] # s.byKey[f]
          <6> SUFFICES ASSUME s.byKey[g] = s.byKey[f] PROVE FALSE
            OBVIOUS
          <6>1. s.byOrdinal[v][s.byKey[f]] = [fact |-> f, val |-> G[f].val]
            BY <1>2 DEF Holds
          <6>2. [fact |-> f, val |-> G[f].val] = [fact |-> g, val |-> G[g].val]
            BY <4>1, <4>3, <6>1
          <6> QED
            BY <2>5, <6>2
        <5> QED
          BY <2>3, <4>1, <4>3, <5>1
      <4> QED
        BY <4>2, <4>3
    <3> QED
      BY <3>1, <3>2 DEF Holds
  <2>6. SnapSound(q)
    <3>1. ASSUME NEW u \in View, NEW o \in DOMAIN q.byOrdinal[u]
          PROVE  \E g \in DOMAIN q.byKey : ViewOf[g] = u /\ q.byKey[g] = o
      <4>1. o \in DOMAIN s.byOrdinal[u] /\ (u = v => o # s.byKey[f])
        BY <2>3
      <4>2. PICK g \in DOMAIN s.byKey : ViewOf[g] = u /\ s.byKey[g] = o
        BY <4>1 DEF SnapSound
      <4> QED
        BY <2>2, <4>1, <4>2
    <3> QED
      BY <2>2, <2>3, <3>1 DEF SnapSound
  <2> QED
    BY <2>4, <2>5, <2>6 DEF q
<1> QED
  BY <1>1, <1>2

\* One commit delta; an entry that is not reported has nothing to say.
LEMMA DeltaApplying ==
  ASSUME NEW s, SnapSound(s), NEW G, \A g \in Fact : Holds(s, g, G[g]),
         NEW e \in Entry, G[e.fact] = e.first,
         \A g \in Fact : g # e.fact => KeyOrd(s, g) \cap OrdOf(e.staged) = {}
  PROVE  LET q == ApplyDelta(s, e) IN
         /\ SnapSound(q) /\ Holds(q, e.fact, e.staged)
         /\ KeyOrd(q, e.fact) \subseteq KeyOrd(s, e.fact) \cup OrdOf(e.staged)
         /\ \A g \in Fact : g # e.fact => Holds(q, g, G[g]) /\ KeyOrd(q, g) = KeyOrd(s, g)
<1>0. e.fact \in Fact /\ e.first \in Cell /\ e.staged \in Cell
  BY DEF Entry
<1>1. CASE ~ReportedEntry(e)
  <2>1. Content(e.first).val = Content(e.staged).val
    BY <1>1 DEF ReportedEntry, Reported
  <2>2. /\ Occupied(e.first) <=> Occupied(e.staged)
        /\ Occupied(e.first) => e.first.val = e.staged.val
    BY <1>0, <2>1, ContentOccupied
  <2>3. Holds(s, e.fact, e.staged)
    BY <1>0, <2>2 DEF Holds
  <2> QED
    BY <1>1, <2>3 DEF ApplyDelta
<1>2. CASE ReportedEntry(e) /\ Occupied(e.staged)
  <2>1. OrdOf(e.staged) = {e.staged.ord}
    BY <1>2 DEF OrdOf
  <2>2. ApplyDelta(s, e) = SnapInsert(s, e.fact, e.staged.ord, e.staged.val)
    BY <1>2 DEF ApplyDelta
  <2>3. \A g \in Fact : g # e.fact => KeyOrd(s, g) \cap {e.staged.ord} = {}
    BY <2>1
  <2> DEFINE q == SnapInsert(s, e.fact, e.staged.ord, e.staged.val)
  <2>4. /\ SnapSound(q) /\ Holds(q, e.fact, e.staged) /\ KeyOrd(q, e.fact) = {e.staged.ord}
        /\ \A g \in Fact : g # e.fact => Holds(q, g, G[g]) /\ KeyOrd(q, g) = KeyOrd(s, g)
    <3> DEFINE f == e.fact  new == e.staged
    <3>1. f \in Fact /\ Occupied(new) /\ \A g \in Fact : g # f => KeyOrd(s, g) \cap {new.ord} = {}
      BY <1>0, <1>2, <2>3
    <3> HIDE DEF f, new
    <3>2. LET r == SnapInsert(s, f, new.ord, new.val) IN
          /\ SnapSound(r) /\ Holds(r, f, new) /\ KeyOrd(r, f) = {new.ord}
          /\ \A g \in Fact : g # f => Holds(r, g, G[g]) /\ KeyOrd(r, g) = KeyOrd(s, g)
      BY <3>1, SnapInserting
    <3> QED
      BY <3>2 DEF f, new
  <2> QED
    BY <2>1, <2>2, <2>4
<1>3. CASE ReportedEntry(e) /\ ~Occupied(e.staged)
  <2>1. ApplyDelta(s, e) = SnapRemove(s, e.fact) /\ e.staged = Empty
    BY <1>3 DEF ApplyDelta, Occupied
  <2> QED
    BY <1>0, <2>1, SnapRemoving
<1> QED
  BY <1>1, <1>2, <1>3

\* The whole commit: the snapshot holds the staged slots of the journal and
\* what it held of every other fact.
LEMMA DeltasApplied ==
  ASSUME NEW s, SnapSound(s), NEW j, JournalOK(j), NEW G,
         \A g \in Fact : Holds(s, g, G[g]),
         \A n \in DOMAIN j : G[j[n].fact] = j[n].first,
         \A n \in DOMAIN j : \A g \in Fact : g # j[n].fact => KeyOrd(s, g) \cap OrdOf(j[n].staged) = {},
         \A n, k \in DOMAIN j : n # k => OrdOf(j[n].staged) \cap OrdOf(j[k].staged) = {}
  PROVE  LET q == Deltas!After(s, j) IN
         /\ SnapSound(q)
         /\ \A n \in DOMAIN j :
              /\ Holds(q, j[n].fact, j[n].staged)
              /\ KeyOrd(q, j[n].fact) \subseteq KeyOrd(s, j[n].fact) \cup OrdOf(j[n].staged)
         /\ \A g \in Fact : (\A n \in DOMAIN j : j[n].fact # g) =>
              Holds(q, g, G[g]) /\ KeyOrd(q, g) = KeyOrd(s, g)
<1> DEFINE L == Len(j)
           X == Deltas!States(s, j)
           Fits(q, n) ==
              /\ SnapSound(q)
              /\ \A k \in DOMAIN j : k <= n =>
                   /\ Holds(q, j[k].fact, j[k].staged)
                   /\ KeyOrd(q, j[k].fact) \subseteq KeyOrd(s, j[k].fact) \cup OrdOf(j[k].staged)
              /\ \A g \in Fact : (\A k \in DOMAIN j : k <= n => j[k].fact # g) =>
                   Holds(q, g, G[g]) /\ KeyOrd(q, g) = KeyOrd(s, g)
           S == {n \in Nat : n <= L => Fits(X[n], n)}
<1>0. /\ j \in Seq(Entry) /\ L \in Nat /\ DOMAIN j = 1 .. L
      /\ \A k \in DOMAIN j : j[k] \in Entry /\ j[k].fact \in Fact
  <2>1. j \in Seq(Entry)
    BY DEF JournalOK
  <2>2. \A k \in DOMAIN j : j[k] \in Entry
    BY <2>1
  <2> QED
    BY <2>1, <2>2 DEF Entry
<1>1. X[0] = s /\ \A n \in 1 .. L : X[n] = ApplyDelta(X[n - 1], j[n])
  <2>1. Len(j) \in Nat
    BY <1>0
  <2> QED
    BY <2>1, Deltas!Iterates
<1> HIDE DEF X, L
<1>2. 0 \in S
  <2>1. Fits(s, 0)
    BY <1>0
  <2> QED
    BY <1>1, <2>1
<1>3. ASSUME NEW n \in Nat, n \in S PROVE n + 1 \in S
  <2> SUFFICES ASSUME n + 1 <= L PROVE Fits(X[n + 1], n + 1)
    OBVIOUS
  <2> DEFINE r == X[n]  q == X[n + 1]  e == j[n + 1]  f == e.fact
             H == [g \in Fact |-> IF \E k \in DOMAIN j : k <= n /\ j[k].fact = g
                                  THEN j[CHOOSE k \in DOMAIN j : k <= n /\ j[k].fact = g].staged
                                  ELSE G[g]]
  <2>1. Fits(r, n)
    BY <1>0, <1>3
  <2>2. n + 1 \in DOMAIN j /\ n + 1 \in 1 .. L /\ (n + 1) - 1 = n
    BY <1>0
  <2>3. e \in Entry /\ f \in Fact
    BY <1>0, <2>2
  <2>4. q = ApplyDelta(r, e)
    BY <1>1, <2>2
  <2> HIDE DEF r, q
  <2>5. \A k \in DOMAIN j : k <= n => k # n + 1 /\ j[k].fact # f
    BY <1>0, <2>2 DEF JournalOK
  <2>6. \A k \in DOMAIN j : k <= n => H[j[k].fact] = j[k].staged
    BY <1>0 DEF JournalOK
  <2>7. \A g \in Fact : (\A k \in DOMAIN j : k <= n => j[k].fact # g) => H[g] = G[g]
    OBVIOUS
  <2> HIDE DEF H
  <2>8. \A g \in Fact : Holds(r, g, H[g])
    <3> SUFFICES ASSUME NEW g \in Fact PROVE Holds(r, g, H[g])
      OBVIOUS
    <3>1. CASE \A k \in DOMAIN j : k <= n => j[k].fact # g
      BY <2>1, <2>7, <3>1
    <3>2. CASE \E k \in DOMAIN j : k <= n /\ j[k].fact = g
      BY <2>1, <2>6, <3>2
    <3> QED
      BY <3>1, <3>2
  <2>9. H[f] = e.first
    BY <2>2, <2>3, <2>5, <2>7
  <2>10. ASSUME NEW g \in Fact, g # f PROVE KeyOrd(r, g) \cap OrdOf(e.staged) = {}
    <3>1. CASE \E k \in DOMAIN j : k <= n /\ j[k].fact = g
      <4>1. PICK k \in DOMAIN j : k <= n /\ j[k].fact = g
        BY <3>1
      <4>2. KeyOrd(r, g) \subseteq KeyOrd(s, g) \cup OrdOf(j[k].staged)
        BY <2>1, <4>1
      <4>3. OrdOf(j[k].staged) \cap OrdOf(e.staged) = {}
        BY <2>2, <2>5, <4>1
      <4>4. KeyOrd(s, g) \cap OrdOf(e.staged) = {}
        BY <2>2, <2>10
      <4> QED
        BY <4>2, <4>3, <4>4
    <3>2. CASE ~\E k \in DOMAIN j : k <= n /\ j[k].fact = g
      BY <2>1, <2>2, <2>10, <3>2
    <3> QED
      BY <3>1, <3>2
  <2>11. /\ SnapSound(q) /\ Holds(q, f, e.staged)
         /\ KeyOrd(q, f) \subseteq KeyOrd(r, f) \cup OrdOf(e.staged)
         /\ \A g \in Fact : g # f => Holds(q, g, H[g]) /\ KeyOrd(q, g) = KeyOrd(r, g)
    <3>1. SnapSound(r)
      BY <2>1
    <3> HIDE DEF e
    <3> QED
      BY <2>3, <2>4, <2>8, <2>9, <2>10, <3>1, DeltaApplying
  <2>12. KeyOrd(r, f) = KeyOrd(s, f)
    BY <2>1, <2>3, <2>5
  <2>13. ASSUME NEW k \in DOMAIN j, k <= n + 1
         PROVE  /\ Holds(q, j[k].fact, j[k].staged)
                /\ KeyOrd(q, j[k].fact) \subseteq KeyOrd(s, j[k].fact) \cup OrdOf(j[k].staged)
    <3>1. CASE k = n + 1
      BY <2>11, <2>12, <3>1
    <3>2. CASE k # n + 1
      <4>1. k <= n
        BY <1>0, <2>13, <3>2
      <4>2. j[k].fact # f /\ j[k].fact \in Fact
        BY <1>0, <2>5, <4>1
      <4> QED
        BY <2>1, <2>6, <2>11, <4>1, <4>2
    <3> QED
      BY <3>1, <3>2
  <2>14. ASSUME NEW g \in Fact, \A k \in DOMAIN j : k <= n + 1 => j[k].fact # g
         PROVE  Holds(q, g, G[g]) /\ KeyOrd(q, g) = KeyOrd(s, g)
    <3>1. g # f
      BY <2>2, <2>14
    <3>2. \A k \in DOMAIN j : k <= n => j[k].fact # g
      BY <1>0, <2>14
    <3> QED
      BY <2>1, <2>7, <2>11, <3>1, <3>2
  <2> QED
    BY <2>11, <2>13, <2>14 DEF q
<1>4. Fits(X[L], L)
  <2>1. \A n \in Nat : n \in S => n + 1 \in S
    BY <1>3
  <2> HIDE DEF S
  <2>2. L \in S
    BY <1>0, <1>2, <2>1, Deltas!SetInduction
  <2> USE DEF S
  <2> QED
    BY <1>0, <2>2
<1>5. Deltas!After(s, j) = X[L]
  BY DEF Deltas!After, X, L
<1>6. \A k \in DOMAIN j : k <= L
  BY <1>0
<1> QED
  BY <1>4, <1>5, <1>6

-----------------------------------------------------------------------------
(* Promotion *)

\* A journal without entries: everything is as in the store.
LEMMA FreshJournal ==
  ASSUME NEW p, ArenaOK(p)
  PROVE  LET m == [ps |-> p, journal |-> <<>>] IN
         /\ MemoryOK(m) /\ m.ps = p
         /\ \A f \in Fact : /\ ~Touched(m, f) /\ FirstSlot(m, f) = SlotFor(p, f)
                            /\ Current(m, f) = SlotFor(p, f)
<1> DEFINE m == [ps |-> p, journal |-> <<>>]
<1>1. m.ps = p /\ m.journal = <<>> /\ m \in Memories /\ DOMAIN m.journal = {}
  BY DEF Memories, ArenaOK
<1>2. JournalOK(m.journal)
  BY <1>1 DEF JournalOK
<1>3. \A f \in Fact : EntryOf(m.journal, f) = 0
  BY <1>1 DEF EntryOf
<1> HIDE DEF m
<1>4. \A f \in Fact : /\ ~Touched(m, f) /\ FirstSlot(m, f) = SlotFor(p, f)
                      /\ Current(m, f) = SlotFor(p, f)
  BY <1>1, <1>3 DEF Touched, FirstSlot, Current
<1>5. MemoryOK(m)
  BY <1>1, <1>2, <1>4 DEF MemoryOK
<1> QED
  BY <1>1, <1>4, <1>5 DEF m

\* Every order of a finite set lists all of it, each element once.
LEMMA Orders ==
  ASSUME NEW T, IsFiniteSet(T), NEW order \in SetToSeqs(T)
  PROVE  /\ Cardinality(T) \in Nat /\ order \in [1 .. Cardinality(T) -> T]
         /\ \A n, k \in 1 .. Cardinality(T) : order[n] = order[k] => n = k
         /\ \A x \in T : \E n \in 1 .. Cardinality(T) : order[n] = x
<1> DEFINE N == Cardinality(T)
<1>1. N \in Nat
  BY FS_CardinalityType
<1>2. order \in [1 .. N -> T] /\ \A n, k \in 1 .. N : n # k => order[n] # order[k]
  BY DEF SetToSeqs
<1>3. order \in Injection(1 .. N, T)
  BY <1>2 DEF Injection, IsInjective
<1>4. Cardinality(1 .. N) = N
  BY <1>1, FS_Interval
<1> HIDE DEF N
<1>5. order \in Surjection(1 .. N, T)
  BY <1>3, <1>4, FS_Injection DEF N
<1> QED
  BY <1>1, <1>2, <1>5 DEF N, Surjection

\* The ordinals of a memory that grew from p: those p gave to the fact, or
\* numbers p had not handed out.
Within(p, m) ==
  \A f \in Fact : \A o \in OrdOf(SlotFor(m.ps, f)) \cup OrdOf(Current(m, f)) :
    o \in OrdOf(SlotFor(p, f)) \/ p.next <= o

\* Ordinals are numbers.
LEMMA OrdinalTypes ==
  /\ \A s \in Cell : OrdOf(s) \subseteq Nat
  /\ \A p : ArenaOK(p) => p.next \in Nat /\ \A f \in Fact : OrdOf(SlotFor(p, f)) \subseteq Nat
  /\ \A m : MemoryOK(m) => \A f \in Fact : /\ OrdOf(Current(m, f)) \subseteq Nat
                                           /\ OrdOf(FirstSlot(m, f)) \subseteq Nat
<1>1. \A s \in Cell : OrdOf(s) \subseteq Nat
  BY CellKinds DEF OrdOf
<1>2. ASSUME NEW p, ArenaOK(p)
      PROVE  p.next \in Nat /\ \A f \in Fact : OrdOf(SlotFor(p, f)) \subseteq Nat
  BY <1>1, <1>2, SlotIndexFinds DEF ArenaOK, PlainState
<1>3. ASSUME NEW m, MemoryOK(m), NEW f \in Fact
      PROVE  OrdOf(Current(m, f)) \subseteq Nat /\ OrdOf(FirstSlot(m, f)) \subseteq Nat
  BY <1>1, <1>3, SlotsOfFact
<1> QED
  BY <1>1, <1>2, <1>3

\* The clone that capture_plan builds: the writes of the root have been made
\* and nothing else.
LEMMA Capturing ==
  ASSUME ArenaOK(ps), NEW w \in Writer, NEW c \in Captures, NEW order \in SetToSeqs(DOMAIN c)
  PROVE  LET q == CaptureStore(w, c, order) IN
         /\ ArenaOK(q)
         /\ \A f \in Fact : Content(SlotFor(q, f)) =
              IF f \in DOMAIN c THEN Written(Content(SlotFor(ps, f)), c[f], w, Shareable(w, f))
              ELSE Content(SlotFor(ps, f))
         /\ \A f \in Fact : \A o \in OrdOf(SlotFor(q, f)) : o \in OrdOf(SlotFor(ps, f)) \/ ps.next <= o
<1> DEFINE L == Cardinality(DOMAIN c)
           writes == [n \in DOMAIN order |-> [writer |-> w, fact |-> order[n], val |-> c[order[n]]]]
           m0 == [ps |-> ps, journal |-> <<>>]
           X == Capture!States(m0, writes)
           New(f) == Written(Content(SlotFor(ps, f)), c[f], w, Shareable(w, f))
           Fits(m, n) ==
             /\ MemoryOK(m) /\ Within(ps, m) /\ ps.next <= m.ps.next
             /\ \A k \in 1 .. L : k <= n => Content(SlotFor(m.ps, order[k])) = New(order[k])
             /\ \A f \in Fact : (\A k \in 1 .. L : k <= n => order[k] # f)
                                  => SlotFor(m.ps, f) = SlotFor(ps, f)
           S == {n \in Nat : n <= L => Fits(X[n], n)}
<1>0. /\ DOMAIN c \subseteq Fact /\ IsFiniteSet(DOMAIN c)
      /\ \A f \in DOMAIN c : c[f] \in Value
  BY ArenaAssumption
<1>1. /\ L \in Nat /\ order \in [1 .. L -> DOMAIN c] /\ DOMAIN order = 1 .. L
      /\ \A n, k \in 1 .. L : order[n] = order[k] => n = k
      /\ \A f \in DOMAIN c : \E n \in 1 .. L : order[n] = f
  BY <1>0, Orders
<1>2. Len(writes) = L
  BY <1>1
<1>3. X[0] = m0 /\ \A n \in 1 .. L : X[n] = JournalWrite(X[n - 1], w, order[n], c[order[n]])
  <2>1. Len(writes) \in Nat
    BY <1>1, <1>2
  <2>2. \A n \in 1 .. L : /\ writes[n].writer = w /\ writes[n].fact = order[n]
                          /\ writes[n].val = c[order[n]]
    BY <1>1
  <2> HIDE DEF writes, m0, L
  <2>3. X[0] = m0 /\ \A n \in 1 .. L : X[n] = CaptureWrite(X[n - 1], writes[n])
    BY <1>2, <2>1, Capture!Iterates
  <2> QED
    BY <2>2, <2>3 DEF CaptureWrite
<1>4. Fits(m0, 0)
  <2>1. /\ MemoryOK(m0) /\ m0.ps = ps /\ \A f \in Fact : Current(m0, f) = SlotFor(ps, f)
    BY FreshJournal
  <2> HIDE DEF m0
  <2>2. ps.next \in Nat
    BY OrdinalTypes
  <2> QED
    BY <1>1, <2>1, <2>2 DEF Within
<1> HIDE DEF X, L, m0, writes
<1>5. 0 \in S
  BY <1>3, <1>4
<1>6. ASSUME NEW n \in Nat, n \in S PROVE n + 1 \in S
  <2> SUFFICES ASSUME n + 1 <= L PROVE Fits(X[n + 1], n + 1)
    OBVIOUS
  <2> DEFINE m == X[n]  t == X[n + 1]  f == order[n + 1]
  <2>1. Fits(m, n)
    BY <1>1, <1>6
  <2>2. n + 1 \in 1 .. L /\ (n + 1) - 1 = n
    BY <1>1
  <2>3. f \in DOMAIN c /\ f \in Fact /\ c[f] \in ValueOrNone
    BY <1>0, <1>1, <2>2 DEF ValueOrNone
  <2>4. t = JournalWrite(m, w, f, c[f])
    BY <1>3, <2>2
  <2>5. \A k \in 1 .. L : k <= n => k # n + 1 /\ order[k] # f
    BY <1>1, <2>2
  <2>6. SlotFor(m.ps, f) = SlotFor(ps, f)
    BY <2>1, <2>3, <2>5
  <2> HIDE DEF m, t, f, New
  <2>7. \/ New(f) = Content(SlotFor(m.ps, f)) /\ t = m
        \/ Changes(m, t, f, New(f))
    BY <2>1, <2>3, <2>4, <2>6, Writing DEF New
  <2>8. /\ MemoryOK(t) /\ Content(SlotFor(t.ps, f)) = New(f) /\ m.ps.next <= t.ps.next
        /\ m.ps.next \in Nat /\ t.ps.next \in Nat /\ ps.next \in Nat
        /\ \A g \in Fact : g # f => SlotFor(t.ps, g) = SlotFor(m.ps, g) /\ Current(t, g) = Current(m, g)
    <3>1. m.ps.next \in Nat /\ ps.next \in Nat
      BY <2>1, OrdinalTypes DEF MemoryOK
    <3> QED
      BY <2>1, <2>7, <3>1 DEF Changes
  <2>9. ASSUME NEW o \in OrdOf(SlotFor(t.ps, f)) \cup OrdOf(Current(t, f))
        PROVE  o \in OrdOf(SlotFor(ps, f)) \/ ps.next <= o
    <3>1. CASE t = m
      BY <2>1, <2>3, <2>9, <3>1 DEF Within
    <3>2. CASE Changes(m, t, f, New(f))
      <4>0. o \in Nat
        BY <2>3, <2>8, <2>9, OrdinalTypes DEF MemoryOK
      <4>1. o \in OrdOf(Current(m, f)) \/ m.ps.next <= o
        BY <2>8, <2>9, <3>2, <4>0 DEF Changes
      <4>2. CASE o \in OrdOf(Current(m, f))
        BY <2>1, <2>3, <4>2 DEF Within
      <4>3. CASE m.ps.next <= o
        BY <2>1, <2>8, <4>0, <4>3
      <4> QED
        BY <4>1, <4>2, <4>3
    <3> QED
      BY <2>7, <3>1, <3>2
  <2>10. Within(ps, t)
    BY <2>1, <2>8, <2>9 DEF Within
  <2>11. ps.next <= t.ps.next
    BY <2>1, <2>8
  <2>12. ASSUME NEW k \in 1 .. L, k <= n + 1
         PROVE  Content(SlotFor(t.ps, order[k])) = New(order[k])
    <3>1. CASE k = n + 1
      BY <2>8, <3>1 DEF f
    <3>2. CASE k # n + 1
      <4>1. k <= n
        BY <2>12, <3>2
      <4>2. order[k] # f /\ order[k] \in Fact
        BY <1>0, <1>1, <2>5, <4>1
      <4> QED
        BY <2>1, <2>8, <4>1, <4>2
    <3> QED
      BY <3>1, <3>2
  <2>13. ASSUME NEW g \in Fact, \A k \in 1 .. L : k <= n + 1 => order[k] # g
         PROVE  SlotFor(t.ps, g) = SlotFor(ps, g)
    <3>1. g # f
      BY <2>2, <2>13 DEF f
    <3>2. \A k \in 1 .. L : k <= n => order[k] # g
      BY <1>1, <2>13
    <3> QED
      BY <2>1, <2>8, <3>1, <3>2
  <2> QED
    BY <2>8, <2>10, <2>11, <2>12, <2>13 DEF t
<1>7. Fits(X[L], L)
  <2>1. \A n \in Nat : n \in S => n + 1 \in S
    BY <1>6
  <2> HIDE DEF S
  <2>2. L \in S
    BY <1>1, <1>5, <2>1, Capture!SetInduction
  <2> USE DEF S
  <2> QED
    BY <1>1, <2>2
<1>8. CaptureStore(w, c, order) = X[L].ps
  BY <1>2 DEF CaptureStore, Capture!After, X, m0, writes
<1>9. \A f \in Fact : Content(SlotFor(X[L].ps, f)) = IF f \in DOMAIN c THEN New(f) ELSE Content(SlotFor(ps, f))
  <2> SUFFICES ASSUME NEW f \in Fact
               PROVE  Content(SlotFor(X[L].ps, f)) = IF f \in DOMAIN c THEN New(f) ELSE Content(SlotFor(ps, f))
    OBVIOUS
  <2>1. CASE f \in DOMAIN c
    <3>1. PICK k \in 1 .. L : order[k] = f
      BY <1>1, <2>1
    <3> QED
      BY <1>1, <1>7, <2>1, <3>1
  <2>2. CASE f \notin DOMAIN c
    <3>1. \A k \in 1 .. L : order[k] # f
      BY <1>1, <2>2
    <3> QED
      BY <1>7, <2>2, <3>1
  <2> QED
    BY <2>1, <2>2
<1> QED
  BY <1>7, <1>8, <1>9 DEF MemoryOK, Within

\* promote_plan: every slot of the clone is installed and thereby journalled.
LEMMA Promoting ==
  ASSUME NEW p, ArenaOK(p), IndexSound(p), NEW q, ArenaOK(q),
         \A f \in Fact : Indexed(p, f),
         \A f, g \in Fact : f # g => OrdOf(SlotFor(p, f)) \cap OrdOf(SlotFor(p, g)) = {},
         \A f \in Fact : \A o \in OrdOf(SlotFor(p, f)) : o < p.next,
         \A f \in Fact : \A o \in OrdOf(SlotFor(q, f)) : o \in OrdOf(SlotFor(p, f)) \/ p.next <= o
  PROVE  LET t == Installs!After([ps |-> p, journal |-> <<>>], q.slots) IN
         /\ MemoryOK(t) /\ IndexSound(t.ps) /\ Within(p, t) /\ p.next <= t.ps.next
         /\ \A f \in Fact : FirstSlot(t, f) = SlotFor(p, f)
         /\ \A f \in Fact : OrdOf(SlotFor(t.ps, f)) \subseteq OrdOf(SlotFor(p, f)) => Indexed(t.ps, f)
         /\ \A f \in Fact : Touched(t, f) <=> Occupied(SlotFor(q, f))
         /\ \A f \in Fact : Content(SlotFor(t.ps, f)) =
              IF Occupied(SlotFor(q, f)) THEN Installed(Content(SlotFor(p, f)), Content(SlotFor(q, f)))
              ELSE Content(SlotFor(p, f))
<1> DEFINE s == q.slots
           L == Len(s)
           m0 == [ps |-> p, journal |-> <<>>]
           X == Installs!States(m0, s)
           Of(k, f) == Occupied(s[k]) /\ s[k].fact = f
           Fits(m, n) ==
             /\ MemoryOK(m) /\ IndexSound(m.ps) /\ Within(p, m) /\ p.next <= m.ps.next
             /\ \A f \in Fact : FirstSlot(m, f) = SlotFor(p, f)
             /\ \A f \in Fact : OrdOf(SlotFor(m.ps, f)) \subseteq OrdOf(SlotFor(p, f)) => Indexed(m.ps, f)
             /\ \A f \in Fact : \A k \in 1 .. L : k <= n /\ Of(k, f) =>
                  Touched(m, f) /\ Content(SlotFor(m.ps, f)) = Installed(Content(SlotFor(p, f)), Content(s[k]))
             /\ \A f \in Fact : (\A k \in 1 .. L : k <= n => ~Of(k, f)) =>
                  /\ ~Touched(m, f) /\ SlotFor(m.ps, f) = SlotFor(p, f)
                  /\ Current(m, f) = SlotFor(p, f)
           S == {n \in Nat : n <= L => Fits(X[n], n)}
<1>0. L \in Nat /\ DOMAIN s = 1 .. L /\ \A k \in 1 .. L : s[k] \in Cell
  BY DEF ArenaOK, PlainState
<1>1. X[0] = m0 /\ \A n \in 1 .. L : X[n] = InstallSlot(X[n - 1], s[n])
  <2> HIDE DEF m0, s
  <2>1. Len(s) \in Nat
    BY <1>0
  <2> QED
    BY <2>1, Installs!Iterates
<1>2. Fits(m0, 0)
  <2>1. /\ MemoryOK(m0) /\ m0.ps = p
        /\ \A f \in Fact : /\ ~Touched(m0, f) /\ FirstSlot(m0, f) = SlotFor(p, f)
                           /\ Current(m0, f) = SlotFor(p, f)
    BY FreshJournal
  <2> HIDE DEF m0
  <2>2. p.next \in Nat
    BY OrdinalTypes
  <2> QED
    BY <1>0, <2>1, <2>2 DEF Within
<1>3. \A f \in Fact : \A i, k \in 1 .. L : Of(i, f) /\ Of(k, f) => i = k
  BY <1>0 DEF ArenaOK, Unique
<1>4. \A f \in Fact : \A k \in 1 .. L : Of(k, f) => SlotFor(q, f) = s[k] /\ Occupied(SlotFor(q, f))
  <2> SUFFICES ASSUME NEW f \in Fact, NEW k \in 1 .. L, Of(k, f)
               PROVE  SlotFor(q, f) = s[k] /\ Occupied(SlotFor(q, f))
    OBVIOUS
  <2>1. SlotIndex(q, f) = k /\ k # 0
    BY <1>0, SlotIndexFinds
  <2> QED
    BY <2>1 DEF SlotFor
<1>5. \A f \in Fact : Occupied(SlotFor(q, f)) => \E k \in 1 .. L : Of(k, f)
  BY <1>0, SlotIndexFinds
<1> HIDE DEF X, L, m0, s
<1>6. 0 \in S
  BY <1>1, <1>2
<1>7. ASSUME NEW n \in Nat, n \in S PROVE n + 1 \in S
  <2> SUFFICES ASSUME n + 1 <= L PROVE Fits(X[n + 1], n + 1)
    OBVIOUS
  <2> DEFINE m == X[n]  t == X[n + 1]  slot == s[n + 1]  f == slot.fact
  <2>1. Fits(m, n)
    BY <1>0, <1>7
  <2>2. n + 1 \in 1 .. L /\ (n + 1) - 1 = n /\ slot \in Cell
    BY <1>0
  <2>3. t = InstallSlot(m, slot)
    BY <1>1, <2>2
  <2>4. \A k \in 1 .. L : k <= n + 1 <=> k <= n \/ k = n + 1
    BY <1>0
  <2>5. CASE ~Occupied(slot)
    <3>1. t = m
      BY <2>3, <2>5 DEF InstallSlot
    <3>2. \A g \in Fact : ~Of(n + 1, g)
      BY <2>5
    <3> HIDE DEF m, t, slot, Of
    <3>3. \A g \in Fact : \A k \in 1 .. L : k <= n + 1 /\ Of(k, g) => k <= n
      BY <2>4, <3>2
    <3>4. \A g \in Fact : (\A k \in 1 .. L : k <= n + 1 => ~Of(k, g)) => (\A k \in 1 .. L : k <= n => ~Of(k, g))
      BY <2>4
    <3> QED
      BY <2>1, <3>1, <3>3, <3>4 DEF t
  <2>6. CASE Occupied(slot)
    <3>0. slot \in SlotRec /\ f \in Fact /\ Of(n + 1, f)
      BY <2>2, <2>6, CellKinds
    <3>1. t = JournalInstall(m, slot)
      BY <2>3, <2>6 DEF InstallSlot
    <3>2. \A k \in 1 .. L : k <= n => ~Of(k, f)
      BY <1>3, <2>2, <3>0
    <3>3. ~Touched(m, f) /\ SlotFor(m.ps, f) = SlotFor(p, f) /\ Current(m, f) = SlotFor(p, f)
      BY <2>1, <3>0, <3>2
    <3>4. \A o \in {slot.ord} : o \in OrdOf(SlotFor(p, f)) \/ p.next <= o
      <4>1. SlotFor(q, f) = slot
        BY <1>4, <2>2, <3>0
      <4> QED
        BY <2>6, <3>0, <4>1 DEF OrdOf
    <3>5. \A g \in Fact : g # f => ~Of(n + 1, g)
      OBVIOUS
    <3>6. n + 1 \in 1 .. L /\ slot = s[n + 1] /\ \A k \in 1 .. L : Of(k, f) => k = n + 1
      BY <1>3, <2>2, <3>0
    <3> HIDE DEF m, t, slot, f, Of
    <3>7. /\ MemoryOK(t)
          /\ Content(SlotFor(t.ps, f)) = Installed(Content(SlotFor(m.ps, f)), Content(slot))
          /\ \A g \in Fact : g # f => SlotFor(t.ps, g) = SlotFor(m.ps, g) /\ Current(t, g) = Current(m, g)
          /\ \A g \in Fact : FirstSlot(t, g) = FirstSlot(m, g)
          /\ \A g \in Fact : Touched(t, g) <=> Touched(m, g) \/ g = f
          /\ Follows(m.ps, t.ps, f, SlotFor(t.ps, f))
          /\ t.ps.next \in Nat /\ t.ps.next >= m.ps.next
          /\ \A o \in OrdOf(Current(t, f)) :
               \/ o \in OrdOf(Current(m, f))
               \/ o = m.ps.next
               \/ ~Occupied(Current(m, f)) /\ o = slot.ord
          /\ \A o \in OrdOf(SlotFor(t.ps, f)) : o \in OrdOf(Current(t, f)) \/ m.ps.next <= o
      <4>1. MemoryOK(m)
        BY <2>1
      <4>2. Unites(m, t, f, slot)
        BY <3>0, <3>1, <4>1, Installing DEF f
      <4> QED
        BY <4>2 DEF Unites
    <3>8. m.ps.next \in Nat /\ p.next \in Nat /\ p.next <= m.ps.next
      BY <2>1, OrdinalTypes DEF MemoryOK
    <3>9. ASSUME NEW o \in OrdOf(SlotFor(t.ps, f)) \cup OrdOf(Current(t, f))
          PROVE  o \in OrdOf(SlotFor(p, f)) \/ p.next <= o
      <4>0. o \in Nat
        BY <3>0, <3>7, <3>9, OrdinalTypes DEF MemoryOK
      <4>1. \/ o \in OrdOf(Current(m, f))
            \/ m.ps.next <= o
            \/ o = slot.ord
        BY <3>7, <3>8, <3>9, <4>0
      <4> QED
        BY <3>3, <3>4, <3>8, <4>0, <4>1
    <3>10. Within(p, t)
      BY <2>1, <3>7, <3>9 DEF Within
    <3>11. ASSUME NEW g \in Fact, OrdOf(SlotFor(t.ps, g)) \subseteq OrdOf(SlotFor(p, g))
           PROVE  Indexed(t.ps, g)
      <4>1. CASE g = f
        BY <3>7, <4>1 DEF Follows
      <4>2. CASE g # f
        <5>1. SlotFor(t.ps, g) = SlotFor(m.ps, g) /\ Indexed(m.ps, g)
          BY <2>1, <3>7, <3>11, <4>2
        <5>2. ASSUME NEW o \in OrdOf(SlotFor(m.ps, g))
              PROVE  o \notin OrdOf(SlotFor(m.ps, f)) \cup OrdOf(SlotFor(t.ps, f))
          <6>1. o \in OrdOf(SlotFor(p, g)) /\ o < p.next /\ o \notin OrdOf(SlotFor(p, f))
            BY <3>0, <3>11, <4>2, <5>1
          <6>2. o \in Nat
            BY <6>1, OrdinalTypes
          <6> QED
            BY <3>3, <3>8, <3>9, <6>1, <6>2
        <5> QED
          BY <3>7, <4>2, <5>1, <5>2 DEF Follows
      <4> QED
        BY <4>1, <4>2
    <3>12. IndexSound(t.ps) /\ p.next <= t.ps.next
      BY <2>1, <3>7, <3>8 DEF Follows
    <3>13. \A g \in Fact : FirstSlot(t, g) = SlotFor(p, g)
      BY <2>1, <3>7
    <3>14. ASSUME NEW g \in Fact, NEW k \in 1 .. L, k <= n + 1, Of(k, g)
           PROVE  /\ Touched(t, g)
                  /\ Content(SlotFor(t.ps, g)) = Installed(Content(SlotFor(p, g)), Content(s[k]))
      <4>1. CASE g = f
        BY <3>3, <3>7, <3>14, <3>6, <4>1
      <4>2. CASE g # f
        <5>1. k <= n
          BY <2>4, <3>5, <3>14, <4>2
        <5> QED
          BY <2>1, <3>7, <3>14, <4>2, <5>1
      <4> QED
        BY <4>1, <4>2
    <3>15. ASSUME NEW g \in Fact, \A k \in 1 .. L : k <= n + 1 => ~Of(k, g)
           PROVE  /\ ~Touched(t, g) /\ SlotFor(t.ps, g) = SlotFor(p, g)
                  /\ Current(t, g) = SlotFor(p, g)
      <4>1. g # f
        BY <2>4, <3>0, <3>15, <3>6
      <4>2. \A k \in 1 .. L : k <= n => ~Of(k, g)
        BY <2>4, <3>15
      <4> QED
        BY <2>1, <3>7, <4>1, <4>2
    <3> QED
      BY <3>7, <3>10, <3>11, <3>12, <3>13, <3>14, <3>15 DEF t
  <2> QED
    BY <2>5, <2>6
<1>8. Fits(X[L], L)
  <2>1. \A n \in Nat : n \in S => n + 1 \in S
    BY <1>7
  <2> HIDE DEF S
  <2>2. L \in S
    BY <1>0, <1>6, <2>1, Installs!SetInduction
  <2> USE DEF S
  <2> QED
    BY <1>0, <2>2
<1>9. Installs!After(m0, s) = X[L]
  BY DEF Installs!After, X, L
<1> DEFINE t == X[L]
<1>10. ASSUME NEW f \in Fact
       PROVE  /\ Touched(t, f) <=> Occupied(SlotFor(q, f))
              /\ Content(SlotFor(t.ps, f)) =
                   IF Occupied(SlotFor(q, f)) THEN Installed(Content(SlotFor(p, f)), Content(SlotFor(q, f)))
                   ELSE Content(SlotFor(p, f))
  <2>0. \A k \in 1 .. L : k <= L
    BY <1>0
  <2> HIDE DEF t, Of
  <2>1. CASE Occupied(SlotFor(q, f))
    <3>1. PICK k \in 1 .. L : Of(k, f)
      BY <1>5, <2>1
    <3>2. SlotFor(q, f) = s[k]
      BY <1>4, <3>1
    <3> QED
      BY <1>8, <2>0, <2>1, <3>1, <3>2 DEF t
  <2>2. CASE ~Occupied(SlotFor(q, f))
    <3>1. \A k \in 1 .. L : ~Of(k, f)
      BY <1>4, <2>2
    <3> QED
      BY <1>8, <2>2, <3>1 DEF t
  <2> QED
    BY <2>1, <2>2
<1> QED
  BY <1>8, <1>9, <1>10 DEF m0, s
=============================================================================
