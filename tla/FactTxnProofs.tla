---------------------------- MODULE FactTxnProofs ----------------------------
(***************************************************************************)
(* The journal's promises for every set of facts, values, writers and      *)
(* captures.  The inductive invariant ties the journal to the store the    *)
(* transaction began with: a touched fact remembers its first slot, an     *)
(* untouched one still has it, and the committed index holds its value.    *)
(***************************************************************************)
EXTENDS FactTxn, TLAPS

\* A slot that writes, retractions and promotions can produce.
SlotOK(slot) ==
  /\ (slot.writers = {}) <=> (slot.val = NoValue)
  /\ ~slot.shared => \A w1, w2 \in slot.writers : w1 = w2

SlotsOK == \A f \in Fact : SlotOK(live[f]) /\ SlotOK(pre[f])

\* The journal remembers the store the transaction began with.
JournalOK ==
  IF active
    THEN \A f \in Fact : IF f \in touched THEN first[f] = pre[f] ELSE live[f] = pre[f]
    ELSE touched = {}

\* The committed index holds the values of the last transaction boundary.
CommittedOK ==
  \A f \in Fact : committed[f] = IF active THEN pre[f].val ELSE live[f].val

IInv == TypeOK /\ SlotsOK /\ JournalOK /\ CommittedOK

-----------------------------------------------------------------------------
(* What one fact operation does to one slot. *)

\* An absent slot is a well-formed slot.
LEMMA AbsentSlotOK == AbsentSlot \in Slot /\ SlotOK(AbsentSlot)
  BY FactStoreAssumption DEF AbsentSlot, Slot, SlotOK, ValueOrNone

\* An owner that lets go leaves a well-formed slot.
LEMMA DroppedOK ==
  ASSUME NEW slot \in Slot, SlotOK(slot), NEW w \in slot.writers
  PROVE  Dropped(slot, w) \in Slot /\ SlotOK(Dropped(slot, w))
<1>1. CASE slot.shared /\ slot.writers # {w}
  <2>1. slot.writers \ {w} # {}
    BY <1>1
  <2>2. slot.val # NoValue
    BY <1>1 DEF SlotOK
  <2> QED
    BY <1>1, <2>1, <2>2 DEF Dropped, Slot, SlotOK
<1>2. CASE ~(slot.shared /\ slot.writers # {w})
  BY <1>2, AbsentSlotOK DEF Dropped
<1> QED
  BY <1>1, <1>2

\* A write that is not refused leaves a well-formed slot: in particular it
\* never gives an exclusive fact a second owner.
LEMMA WrittenOK ==
  ASSUME NEW slot \in Slot, SlotOK(slot), NEW v \in ValueOrNone, NEW w \in Writer,
         NEW sh \in BOOLEAN, ~Conflicts(slot, v, w, sh)
  PROVE  Written(slot, v, w, sh) \in Slot /\ SlotOK(Written(slot, v, w, sh))
<1>1. CASE ~Present(slot)
  BY <1>1 DEF Written, Slot, SlotOK, ValueOrNone
<1>2. CASE Present(slot) /\ w \notin slot.writers
  <2>1. CASE v = NoValue
    BY <1>2, <2>1 DEF Written
  <2>2. CASE v # NoValue
    <3>1. slot.shared
      BY <1>2 DEF Conflicts
    <3>2. slot.val # NoValue
      BY <1>2 DEF Present, SlotOK
    <3>3. Written(slot, v, w, sh) = [slot EXCEPT !.writers = @ \cup {w}]
      BY <1>2, <2>2 DEF Written
    <3> QED
      BY <3>1, <3>2, <3>3 DEF Slot, SlotOK
  <2> QED
    BY <2>1, <2>2
<1>3. CASE Present(slot) /\ w \in slot.writers
  <2>1. CASE v = NoValue
    BY <1>3, <2>1, DroppedOK DEF Written
  <2>2. CASE v # NoValue
    <3>1. Written(slot, v, w, sh) = [slot EXCEPT !.val = v]
      BY <1>3, <2>2 DEF Written
    <3> QED
      BY <1>3, <2>2, <3>1 DEF Slot, SlotOK
  <2> QED
    BY <2>1, <2>2
<1> QED
  BY <1>1, <1>2, <1>3

\* A retraction leaves a well-formed slot.
LEMMA RetractedOK ==
  ASSUME NEW slot \in Slot, SlotOK(slot), NEW w \in Writer
  PROVE  Retracted(slot, w) \in Slot /\ SlotOK(Retracted(slot, w))
  BY DroppedOK DEF Retracted

\* Whether a write may share its fact is a Boolean.
LEMMA ShareableBoolean == \A w \in Writer, f \in Fact : Shareable(w, f) \in BOOLEAN
  BY DEF Shareable

-----------------------------------------------------------------------------
(* The invariant. *)

\* Staging well-formed slots keeps the invariant: the first touch saves the
\* slot the transaction began with.
LEMMA StageInv ==
  ASSUME IInv, active, NEW facts \in SUBSET Fact, NEW next,
         \A f \in facts : next[f] \in Slot /\ SlotOK(next[f]),
         Stage(facts, next)
  PROVE  IInv'
<1> USE DEF IInv
<1>1. TypeOK'
  BY DEF TypeOK, Stage
<1>2. SlotsOK'
  BY DEF TypeOK, SlotsOK, Stage
<1>3. JournalOK'
  BY DEF TypeOK, JournalOK, Stage
<1>4. CommittedOK'
  BY DEF TypeOK, CommittedOK, Stage
<1> QED
  BY <1>1, <1>2, <1>3, <1>4

\* The initial store satisfies the invariant.
LEMMA InitInv == Init => IInv
<1> SUFFICES ASSUME Init PROVE IInv
  OBVIOUS
<1>1. TypeOK
  BY AbsentSlotOK DEF Init, NoFacts, TypeOK, ValueOrNone
<1>2. SlotsOK
  BY AbsentSlotOK DEF Init, NoFacts, SlotsOK
<1>3. JournalOK
  BY DEF Init, JournalOK
<1>4. CommittedOK
  BY DEF Init, NoFacts, CommittedOK, AbsentSlot
<1> QED
  BY <1>1, <1>2, <1>3, <1>4 DEF IInv

\* Every step of a transaction keeps the invariant.
LEMMA NextInv == IInv /\ [Next]_vars => IInv'
<1> SUFFICES ASSUME IInv, [Next]_vars PROVE IInv'
  OBVIOUS
<1>1. ASSUME Begin PROVE IInv'
  BY <1>1 DEF IInv, Begin, TypeOK, SlotsOK, JournalOK, CommittedOK
<1>2. ASSUME NEW w \in Writer, NEW f \in Fact, NEW v \in ValueOrNone, Write(w, f, v)
      PROVE  IInv'
  <2> DEFINE next == Written(live[f], v, w, Shareable(w, f))
  <2>1. next \in Slot /\ SlotOK(next)
    BY <1>2, WrittenOK, ShareableBoolean DEF Write, IInv, TypeOK, SlotsOK
  <2>2. Stage({f}, [g \in Fact |-> next]) /\ active
    BY <1>2 DEF Write
  <2> HIDE DEF next
  <2> QED
    BY <2>1, <2>2, StageInv
<1>3. ASSUME NEW w \in Writer, NEW f \in Fact, Retract(w, f)
      PROVE  IInv'
  <2> DEFINE next == Retracted(live[f], w)
  <2>1. next \in Slot /\ SlotOK(next)
    BY <1>3, RetractedOK DEF IInv, TypeOK, SlotsOK
  <2>2. Stage({f}, [g \in Fact |-> next]) /\ active
    BY <1>3 DEF Retract
  <2> HIDE DEF next
  <2> QED
    BY <2>1, <2>2, StageInv
<1>4. ASSUME NEW w \in Writer, NEW c \in Captures, Promote(w, c)
      PROVE  IInv'
  <2> DEFINE captured == Captured(w, c)
             facts == {f \in Fact : Present(captured[f])}
             next == [f \in Fact |-> Installed(live[f], captured[f])]
  <2>1. ASSUME NEW f \in Fact PROVE captured[f] \in Slot /\ SlotOK(captured[f])
    <3>1. CASE f \in DOMAIN c
      <4>1. c[f] \in ValueOrNone
        BY <3>1, CapturesAssumption DEF ValueOrNone
      <4>2. ~Conflicts(live[f], c[f], w, Shareable(w, f))
        BY <1>4, <3>1 DEF Promote
      <4>3. live[f] \in Slot /\ SlotOK(live[f])
        BY DEF IInv, TypeOK, SlotsOK
      <4>4. captured[f] = Written(live[f], c[f], w, Shareable(w, f))
        BY <3>1 DEF Captured
      <4> QED
        BY <4>1, <4>2, <4>3, <4>4, WrittenOK, ShareableBoolean
    <3>2. CASE f \notin DOMAIN c
      BY <3>2 DEF Captured, IInv, TypeOK, SlotsOK
    <3> QED
      BY <3>1, <3>2
  <2>2. ASSUME NEW f \in facts PROVE next[f] \in Slot /\ SlotOK(next[f])
    <3>1. CASE ~Present(live[f])
      BY <2>1, <3>1 DEF Installed
    <3>2. CASE Present(live[f])
      <4>1. /\ next[f] = [live[f] EXCEPT !.writers = @ \cup captured[f].writers]
            /\ live[f] \in Slot /\ SlotOK(live[f])
            /\ captured[f] \in Slot /\ SlotOK(captured[f])
        BY <2>1, <3>2 DEF Installed, IInv, TypeOK, SlotsOK
      <4>2. live[f].val # NoValue /\ live[f].shared = captured[f].shared
        BY <1>4, <3>2, <4>1 DEF Promote, InstallConflicts, Present, SlotOK
      <4>3. live[f].writers \subseteq captured[f].writers
        <5>1. CASE f \in DOMAIN c
          <6>1. captured[f] = Written(live[f], c[f], w, Shareable(w, f))
            BY <5>1 DEF Captured
          <6>2. c[f] # NoValue
            BY <5>1, CapturesAssumption, FactStoreAssumption
          <6> QED
            BY <3>2, <4>1, <6>1, <6>2 DEF Written, Slot
        <5>2. CASE f \notin DOMAIN c
          BY <5>2 DEF Captured
        <5> QED
          BY <5>1, <5>2
      <4>4. next[f].writers = captured[f].writers
        BY <4>1, <4>3 DEF Slot
      <4> QED
        BY <3>2, <4>1, <4>2, <4>4 DEF Slot, SlotOK, Present
    <3> QED
      BY <3>1, <3>2
  <2>3. Stage(facts, next) /\ active
    BY <1>4 DEF Promote
  <2> HIDE DEF captured, facts, next
  <2>4. facts \in SUBSET Fact
    BY DEF facts
  <2> QED
    BY <2>2, <2>3, <2>4, StageInv
<1>5. ASSUME Commit PROVE IInv'
  <2>1. TypeOK'
    BY <1>5, AbsentSlotOK DEF IInv, Commit, NoFacts, TypeOK, CommitChanges, Slot
  <2>2. SlotsOK' /\ JournalOK'
    BY <1>5 DEF IInv, Commit, SlotsOK, JournalOK
  <2>3. CommittedOK'
    BY <1>5 DEF IInv, Commit, TypeOK, JournalOK, CommittedOK, CommitChanges, Reported
  <2> QED
    BY <2>1, <2>2, <2>3 DEF IInv
<1>6. ASSUME Rollback PROVE IInv'
  <2>1. live' = pre
    BY <1>6 DEF IInv, Rollback, TypeOK, JournalOK
  <2>2. TypeOK'
    BY <1>6, <2>1, AbsentSlotOK DEF IInv, Rollback, NoFacts, TypeOK
  <2>3. SlotsOK' /\ JournalOK'
    BY <1>6, <2>1 DEF IInv, Rollback, SlotsOK, JournalOK
  <2>4. CommittedOK'
    BY <1>6, <2>1 DEF IInv, Rollback, CommittedOK
  <2> QED
    BY <2>2, <2>3, <2>4 DEF IInv
<1>7. ASSUME UNCHANGED vars PROVE IInv'
  BY <1>7 DEF vars, IInv, TypeOK, SlotsOK, JournalOK, CommittedOK
<1> QED
  BY <1>1, <1>2, <1>3, <1>4, <1>5, <1>6, <1>7 DEF Next

\* The invariant holds in every reachable state.
THEOREM Invariance == Spec => []IInv
  BY InitInv, NextInv, PTL DEF Spec

\* Every reachable state is well typed.
THEOREM TypeCorrect == Spec => []TypeOK
<1>1. IInv => TypeOK
  BY DEF IInv
<1> QED
  BY Invariance, <1>1, PTL

\* Between transactions the committed index and the mutable store agree on
\* every fact: commit misses no change and rollback leaves none behind.
THEOREM CommitAgreement == Spec => []CommittedMatchesLive
<1>1. IInv => CommittedMatchesLive
  BY DEF IInv, CommittedOK, CommittedMatchesLive
<1> QED
  BY Invariance, <1>1, PTL

\* Only shared facts have several owners, and exactly the owned facts have a
\* value.
THEOREM Ownership == Spec => []ExclusiveOwnership
<1>1. IInv => ExclusiveOwnership
  BY DEF IInv, SlotsOK, SlotOK, ExclusiveOwnership, Present
<1> QED
  BY Invariance, <1>1, PTL

\* A rolled-back transaction restores the store it found.
THEOREM RollbackExact == Spec => RollbackRestores
<1>1. IInv /\ Rollback => live' = pre
  BY DEF IInv, Rollback, TypeOK, JournalOK
<1> QED
  BY Invariance, <1>1, PTL DEF RollbackRestores

\* Previous reads of facts that existed before the command, and enumerations of
\* facts it has not touched, see the last commit.
THEOREM PreviousExact == Spec => []PreviousReadOfExisting
<1>1. ASSUME IInv, active, NEW f \in Fact, committed[f] # NoValue
      PROVE  PreviousRead(f) = committed[f]
  <2>1. committed[f] = pre[f].val
    BY <1>1 DEF IInv, CommittedOK
  <2>2. pre[f].writers # {}
    BY <1>1, <2>1 DEF IInv, SlotsOK, SlotOK
  <2>3. IF f \in touched THEN first[f] = pre[f] ELSE live[f] = pre[f]
    BY <1>1 DEF IInv, JournalOK
  <2> QED
    BY <2>1, <2>2, <2>3 DEF PreviousRead, Present
<1>2. ASSUME IInv, active, NEW f \in Fact \ touched
      PROVE  f \in PreviousInputs <=> committed[f] # NoValue
  <2>1. committed[f] = live[f].val
    BY <1>2 DEF IInv, CommittedOK, JournalOK
  <2>2. live[f].writers # {} <=> live[f].val # NoValue
    BY <1>2 DEF IInv, SlotsOK, SlotOK
  <2> QED
    BY <2>1, <2>2 DEF PreviousInputs, Present
<1>3. IInv => PreviousReadOfExisting
  BY <1>1, <1>2 DEF PreviousReadOfExisting
<1> QED
  BY Invariance, <1>3, PTL

\* The reported change list is exactly the set of facts whose committed value
\* changed.
THEOREM DeltaExact == Spec => DeltaIsExact
<1>1. IInv /\ Commit => lastChanged' = {f \in Fact : committed'[f] # committed[f]}
  <2> SUFFICES ASSUME IInv, Commit
               PROVE  \A f \in Fact : f \in CommitChanges <=> committed'[f] # committed[f]
    BY DEF Commit, CommitChanges, IInv, TypeOK
  <2> TAKE f \in Fact
  <2>1. committed'[f] = IF f \in CommitChanges THEN live[f].val ELSE committed[f]
    BY DEF Commit
  <2>2. committed[f] = pre[f].val
    BY DEF IInv, CommittedOK, Commit
  <2>3. f \in CommitChanges <=> f \in touched /\ first[f].val # live[f].val
    BY DEF CommitChanges, Reported
  <2>4. f \in touched => first[f] = pre[f]
    BY DEF IInv, JournalOK, Commit
  <2> QED
    BY <2>1, <2>2, <2>3, <2>4
<1> QED
  BY Invariance, <1>1, PTL DEF DeltaIsExact
=============================================================================
