------------------------------ MODULE FactArena ------------------------------
(***************************************************************************)
(* The data structures behind the facts (src/src/reactive/store.rs): the   *)
(* slot arena with its free list and ordinal-keyed indexes, the coalescing *)
(* FactJournal, and the committed snapshot index.  FactTxn is what they    *)
(* promise together; this module is shown to implement it.                 *)
(*                                                                         *)
(* An index is a function from ordinals to slot numbers (by_view,          *)
(* by_owner) or to entries (by_ordinal): inserting at an ordinal that is   *)
(* taken replaces what was there, as BTreeMap and RadixMap do.  The        *)
(* by_key buckets resolve by exact key equality, so slot_index is the slot *)
(* that holds the fact.                                                    *)
(***************************************************************************)
EXTENDS FactStore, SequencesExt, Integers

CONSTANTS
  View,       \* the views
  ViewOf,     \* the view of every fact
  Captures,   \* publications of promoted roots, as in FactTxn
  MaxTxns,    \* bound: transactions in one behaviour
  MaxSteps    \* bound: journal operations in one transaction

ASSUME ArenaAssumption ==
  /\ ViewOf \in [Fact -> View]
  /\ \A c \in Captures : /\ DOMAIN c \subseteq Fact /\ IsFiniteSet(DOMAIN c)
                         /\ \A f \in DOMAIN c : c[f] \in Value
  /\ MaxTxns \in Nat /\ MaxSteps \in Nat

VARIABLES
  ps,           \* PlainState: [slots, free, byView, byOwner, next]
  journal,      \* FactJournal::entries: [fact, first, staged], first-touch order
  snap,         \* the committed SnapshotViews: [byKey, byOrdinal]
  lastChanged,  \* PlainRuntime::last_changed
  active,       \* a transaction frame is pushed
  pre,          \* history: the facts when the transaction began
  promoted,     \* history: the transaction promotes a root
  txns, steps   \* used up of the bounds

vars == <<ps, journal, snap, lastChanged, active, pre, promoted, txns, steps>>

-----------------------------------------------------------------------------
(* PlainState *)

Empty == [fact |-> NoValue]                 \* an arena slot that is None
Occupied(slot) == slot # Empty
FactSlot(f, ord, s) ==
  [fact |-> f, ord |-> ord, val |-> s.val, writers |-> s.writers, shared |-> s.shared]

State(slots, free, byView, byOwner, next) ==
  [slots |-> slots, free |-> free, byView |-> byView, byOwner |-> byOwner, next |-> next]
EmptyState == State(<<>>, <<>>, [v \in View |-> <<>>], [w \in Writer |-> <<>>], 0)

Without(index, ord) == [o \in DOMAIN index \ {ord} |-> index[o]]
WithEntry(index, ord, x) == [o \in DOMAIN index \cup {ord} |-> IF o = ord THEN x ELSE index[o]]

\* PlainState::index_slot
IndexSlot(p, i) ==
  LET slot == p.slots[i] IN
  State(p.slots, p.free,
        [v \in View |-> IF v = ViewOf[slot.fact]
                          THEN WithEntry(p.byView[v], slot.ord, i) ELSE p.byView[v]],
        [w \in Writer |-> IF w \in slot.writers
                            THEN WithEntry(p.byOwner[w], slot.ord, i) ELSE p.byOwner[w]],
        p.next)

\* Mutant: the owner index is forgotten.
UnindexViewOnly(p, i) ==
  IF ~Occupied(p.slots[i]) THEN p
  ELSE [p EXCEPT !.byView[ViewOf[p.slots[i].fact]] = Without(@, p.slots[i].ord)]

\* PlainState::unindex_slot
UnindexSlot(p, i) ==
  LET slot == p.slots[i] IN
  IF ~Occupied(slot) THEN p
  ELSE State(p.slots, p.free,
             [v \in View |-> IF v = ViewOf[slot.fact]
                               THEN Without(p.byView[v], slot.ord) ELSE p.byView[v]],
             [w \in Writer |-> IF w \in slot.writers
                                 THEN Without(p.byOwner[w], slot.ord) ELSE p.byOwner[w]],
             p.next)

\* PlainState::slot_index (0: None) and PlainState::slot
SlotIndex(p, f) ==
  IF \E i \in DOMAIN p.slots : Occupied(p.slots[i]) /\ p.slots[i].fact = f
    THEN CHOOSE i \in DOMAIN p.slots : Occupied(p.slots[i]) /\ p.slots[i].fact = f
    ELSE 0
SlotFor(p, f) == IF SlotIndex(p, f) = 0 THEN Empty ELSE p.slots[SlotIndex(p, f)]

\* The arena index a new slot gets: the top of the free list or a fresh one.
Place(p, slot) ==
  IF p.free # <<>>
    THEN IndexSlot(State([p.slots EXCEPT ![Last(p.free)] = slot], Front(p.free),
                         p.byView, p.byOwner, p.next), Last(p.free))
    ELSE IndexSlot(State(Append(p.slots, slot), p.free, p.byView, p.byOwner, p.next),
                   Len(p.slots) + 1)

\* PlainState::insert_fact allocates its own ordinal.
InsertFact(p, slot) ==
  Place([p EXCEPT !.next = @ + 1], [slot EXCEPT !.ord = p.next])

\* PlainState::put_slot
PutSlot(p, i, slot) ==
  LET q == UnindexSlot(p, i)
      freed == IF ~Occupied(slot) /\ Occupied(p.slots[i]) THEN Append(p.free, i) ELSE p.free
      put == State([p.slots EXCEPT ![i] = slot], freed, q.byView, q.byOwner, p.next)
  IN IF Occupied(slot) THEN IndexSlot(put, i) ELSE put

\* PlainState::inputs: the facts of one view, one for every ordinal.
Enumerate(p, v) == [o \in DOMAIN p.byView[v] |-> p.slots[p.byView[v][o]].fact]

-----------------------------------------------------------------------------
(* FactJournal, over a pair m = [ps, journal] *)

Unassigned == 0  \* the ordinal of a slot that stage numbers

EntryOf(j, f) ==
  IF \E n \in DOMAIN j : j[n].fact = f THEN CHOOSE n \in DOMAIN j : j[n].fact = f ELSE 0

\* The effective slot: staged if touched, else live.
Current(m, f) ==
  IF EntryOf(m.journal, f) # 0 THEN m.journal[EntryOf(m.journal, f)].staged
  ELSE SlotFor(m.ps, f)

\* A slot without identity, for the rules of FactStore.
Content(slot) ==
  IF Occupied(slot) THEN [val |-> slot.val, writers |-> slot.writers, shared |-> slot.shared]
  ELSE AbsentSlot

\* Mutant: every touch records the slot anew.
EveryTouch(m, f) ==
  [m EXCEPT !.journal =
     SelectSeq(@, LAMBDA e : e.fact # f)
       \o <<[fact |-> f, first |-> SlotFor(m.ps, f), staged |-> SlotFor(m.ps, f)]>>]

\* FactJournal::first_touch
FirstTouch(m, f) ==
  IF EntryOf(m.journal, f) # 0 THEN m
  ELSE [ps |-> m.ps,
        journal |-> Append(m.journal, [fact |-> f, first |-> SlotFor(m.ps, f),
                                       staged |-> SlotFor(m.ps, f)])]

WithStaged(j, n, slot) ==
  [j EXCEPT ![n] = [fact |-> j[n].fact, first |-> j[n].first, staged |-> slot]]

\* FactJournal::stage, the live half: the slot of f goes from previous to next.
ApplyStaged(p, f, previous, next) ==
  LET i == SlotIndex(p, f) IN
  IF ~Occupied(next) THEN (IF i # 0 THEN PutSlot(p, i, Empty) ELSE p)
  ELSE IF ~Occupied(previous) \/ i = 0 THEN InsertFact(p, next)
  ELSE IF previous.ord = next.ord THEN PutSlot(p, i, next)
  ELSE InsertFact(PutSlot(p, i, Empty), next)

\* FactJournal::stage.  A new slot without an ordinal takes one, and
\* insert_fact then takes another for the live copy.
StageSlot(m0, f, slot) ==
  LET m == FirstTouch(m0, f)
      n == EntryOf(m.journal, f)
      previous == m.journal[n].staged
      fresh == ~Occupied(previous) /\ Occupied(slot) /\ slot.ord = Unassigned
      next == IF fresh THEN [slot EXCEPT !.ord = m.ps.next] ELSE slot
      p == IF fresh THEN [m.ps EXCEPT !.next = @ + 1] ELSE m.ps
  IN [ps |-> ApplyStaged(p, f, previous, next), journal |-> WithStaged(m.journal, n, next)]

\* Restage the effective slot with new content: an existing slot keeps its
\* ordinal.
Restage(m, f, content) ==
  LET current == Current(m, f) IN
  StageSlot(m, f, IF ~Present(content) THEN Empty
                  ELSE FactSlot(f, IF Occupied(current) THEN current.ord ELSE Unassigned, content))

\* FactJournal::write for a write that is not refused.
JournalWrite(m, w, f, v) ==
  LET content == Content(Current(m, f))
      next == Written(content, v, w, Shareable(w, f))
  IN IF next = content THEN m ELSE Restage(m, f, next)

\* FactJournal::retract
JournalRetract(m, w, f) ==
  LET content == Content(Current(m, f)) IN
  IF w \in content.writers THEN Restage(m, f, Retracted(content, w)) ELSE m

\* Mutant: a fact that is new to the store is not journalled.
InstallUnjournalled(m, slot) ==
  LET current == Current(m, slot.fact) IN
  IF Occupied(current)
    THEN StageSlot(m, slot.fact, [current EXCEPT !.writers = @ \cup slot.writers])
    ELSE [m EXCEPT !.ps = InsertFact(@, slot)]

\* FactJournal::install: a fact that is new to the store is staged with the
\* ordinal it has in the captured store.
JournalInstall(m, slot) ==
  LET current == Current(m, slot.fact) IN
  IF Occupied(current)
    THEN StageSlot(m, slot.fact, [current EXCEPT !.writers = @ \cup slot.writers])
    ELSE StageSlot(m, slot.fact, slot)

\* FactJournal::rollback of one entry.
RollbackEntry(p, entry) ==
  LET i == SlotIndex(p, entry.fact) IN
  IF i # 0 THEN PutSlot(p, i, entry.first)
  ELSE IF Occupied(entry.first) THEN Place(p, entry.first)
  ELSE p

\* FactJournal::rollback, reverse first-touch order.
Undo == INSTANCE Iteration WITH Step <- RollbackEntry

\* FactJournal::commit_changes: what the journal reports.
ReportedEntry(entry) == Reported(Content(entry.first), Content(entry.staged))

-----------------------------------------------------------------------------
(* The committed snapshot *)

EmptySnap == [byKey |-> <<>>, byOrdinal |-> [v \in View |-> <<>>]]

\* Mutant: a known key keeps resolving to its old ordinal.
SnapInsertKeepsOrdinal(s, f, ord, val) ==
  [byKey |-> IF f \in DOMAIN s.byKey THEN s.byKey ELSE WithEntry(s.byKey, f, ord),
   byOrdinal |-> [s.byOrdinal EXCEPT ![ViewOf[f]] = WithEntry(@, ord, [fact |-> f, val |-> val])]]

\* SnapshotView::insert: the key leaves its stale ordinal first.
SnapInsert(s, f, ord, val) ==
  LET v == ViewOf[f]
      stale == IF f \in DOMAIN s.byKey THEN s.byKey[f] ELSE ord
      cleaned == IF stale # ord THEN Without(s.byOrdinal[v], stale) ELSE s.byOrdinal[v]
  IN [byKey |-> WithEntry(s.byKey, f, ord),
      byOrdinal |-> [s.byOrdinal EXCEPT ![v] = WithEntry(cleaned, ord, [fact |-> f, val |-> val])]]

\* SnapshotView::remove
SnapRemove(s, f) ==
  IF f \notin DOMAIN s.byKey THEN s
  ELSE [byKey |-> Without(s.byKey, f),
        byOrdinal |-> [s.byOrdinal EXCEPT ![ViewOf[f]] = Without(@, s.byKey[f])]]

\* SnapshotRoot::apply of one commit_deltas entry
ApplyDelta(s, entry) ==
  IF ~ReportedEntry(entry) THEN s
  ELSE IF Occupied(entry.staged) THEN SnapInsert(s, entry.fact, entry.staged.ord, entry.staged.val)
  ELSE SnapRemove(s, entry.fact)

\* PlainRuntime::commit: the deltas in first-touch order.
Deltas == INSTANCE Iteration WITH Step <- ApplyDelta

\* SnapshotView::lookup: key to ordinal, ordinal to entry.
Lookup(s, f) ==
  IF f \in DOMAIN s.byKey /\ s.byKey[f] \in DOMAIN s.byOrdinal[ViewOf[f]]
    THEN s.byOrdinal[ViewOf[f]][s.byKey[f]].val
    ELSE NoValue

\* SnapshotView::entries: the keys of one view, one for every ordinal.
SnapEnumerate(s, v) == [o \in DOMAIN s.byOrdinal[v] |-> s.byOrdinal[v][o].fact]

-----------------------------------------------------------------------------
(* The transaction *)

Live == [f \in Fact |-> Content(SlotFor(ps, f))]
Memory == [ps |-> ps, journal |-> journal]

Init ==
  /\ ps = EmptyState /\ journal = <<>> /\ snap = EmptySnap
  /\ lastChanged = {} /\ active = FALSE
  /\ pre = [f \in Fact |-> AbsentSlot] /\ promoted = FALSE
  /\ txns = 0 /\ steps = 0

Begin ==
  /\ ~active /\ txns < MaxTxns
  /\ active' = TRUE /\ pre' = Live /\ promoted' = FALSE /\ txns' = txns + 1 /\ steps' = 0
  /\ UNCHANGED <<ps, journal, snap, lastChanged>>

Becomes(m) ==
  /\ steps < MaxSteps /\ steps' = steps + 1
  /\ ps' = m.ps /\ journal' = m.journal
  /\ UNCHANGED <<snap, lastChanged, active, pre, txns>>

Write(w, f, v) ==
  /\ active
  /\ ~Conflicts(Content(Current(Memory, f)), v, w, Shareable(w, f))
  /\ JournalWrite(Memory, w, f, v) # Memory
  /\ Becomes(JournalWrite(Memory, w, f, v)) /\ UNCHANGED promoted

Retract(w, f) ==
  /\ active
  /\ w \in Content(Current(Memory, f)).writers
  /\ Becomes(JournalRetract(Memory, w, f)) /\ UNCHANGED promoted

\* capture_plan runs the root's writes on a clone of the store under a
\* throwaway journal; promote_plan installs every slot of the clone.
CaptureWrite(m, write) == JournalWrite(m, write.writer, write.fact, write.val)
Capture == INSTANCE Iteration WITH Step <- CaptureWrite
CaptureStore(w, c, order) ==
  Capture!After([ps |-> ps, journal |-> <<>>],
                [n \in DOMAIN order |-> [writer |-> w, fact |-> order[n], val |-> c[order[n]]]]).ps

InstallSlot(m, slot) == IF Occupied(slot) THEN JournalInstall(m, slot) ELSE m
Installs == INSTANCE Iteration WITH Step <- InstallSlot

Promote(w, c, order) ==
  /\ active /\ journal = <<>> /\ w # External
  /\ \A f \in DOMAIN c : ~Conflicts(Live[f], c[f], w, Shareable(w, f))
  /\ \E slots \in {CaptureStore(w, c, order).slots} :
     /\ \A i \in DOMAIN slots :
          Occupied(slots[i]) => ~InstallConflicts(Live[slots[i].fact], Content(slots[i]))
     /\ \E m \in {Installs!After(Memory, slots)} : Becomes(m)
  /\ promoted' = TRUE

Commit ==
  /\ active /\ active' = FALSE
  /\ snap' = Deltas!After(snap, journal)
  /\ lastChanged' = {e.fact : e \in {e \in ToSet(journal) : ReportedEntry(e)}}
  /\ journal' = <<>>
  /\ UNCHANGED <<ps, pre, promoted, txns, steps>>

Rollback ==
  /\ active /\ active' = FALSE
  /\ ps' = Undo!After(ps, Reverse(journal))
  /\ journal' = <<>>
  /\ UNCHANGED <<snap, lastChanged, pre, promoted, txns, steps>>

\* The bound on transactions is reached.
Done == ~active /\ txns = MaxTxns /\ UNCHANGED vars

Work ==
  \/ Begin
  \/ \E w \in Writer, f \in Fact, v \in ValueOrNone : Write(w, f, v)
  \/ \E w \in Writer, f \in Fact : Retract(w, f)
  \/ \E w \in Writer, c \in Captures : \E order \in SetToSeqs(DOMAIN c) : Promote(w, c, order)
  \/ Rollback
  \/ Done

\* Commands that succeed or fail, and installations of a root that fail.
CommandNext == Work \/ (~promoted /\ Commit)

\* Installations that succeed, too.
Next == Work \/ Commit

CommandSpec == Init /\ [][CommandNext]_vars
Spec == Init /\ [][Next]_vars

-----------------------------------------------------------------------------
(* Properties *)

\* The arena never holds a fact twice, its free list is exactly the vacant
\* slots, a view enumerates exactly its present facts, and the owner index
\* lists every slot of an owner under its current ordinal and nothing else, in
\* the middle of a command and after a rollback that reuses freed slots ("the
\* command journal restores them from recorded pre-state on rollback").  Not
\* while a root is being promoted: its slots come with ordinals of another store.
IndexesAgree ==
  LET used == {i \in DOMAIN ps.slots : Occupied(ps.slots[i])} IN
  ~(active /\ promoted) =>
  /\ \A i, j \in used : ps.slots[i].fact = ps.slots[j].fact => i = j
  /\ ToSet(ps.free) = DOMAIN ps.slots \ used /\ IsInjective(ps.free)
  /\ \A v \in View : /\ IsInjective(Enumerate(ps, v))
                       /\ Range(Enumerate(ps, v)) = {f \in Fact : ViewOf[f] = v /\ Present(Live[f])}
  /\ \A w \in Writer :
       LET owned == {i \in used : w \in ps.slots[i].writers} IN
       /\ \A i \in owned : /\ ps.slots[i].ord \in DOMAIN ps.byOwner[w]
                           /\ ps.byOwner[w][ps.slots[i].ord] = i
       /\ DOMAIN ps.byOwner[w] = {ps.slots[i].ord : i \in owned}

\* Between transactions an exact lookup in the committed index returns the
\* value the store holds, although the two number their slots differently
\* (the commit assertion of run_command), and enumerating a committed view
\* lists every present fact exactly once ("enumeration never lists the same
\* key twice").
SnapshotExact ==
  ~active =>
  /\ \A f \in Fact : Lookup(snap, f) = Live[f].val
  /\ \A v \in View :
       /\ IsInjective(SnapEnumerate(snap, v))
       /\ Range(SnapEnumerate(snap, v)) = {f \in Fact : ViewOf[f] = v /\ Present(Live[f])}

\* Rolling back in reverse first-touch order restores the content of every
\* fact, although slots were freed and handed to other facts meanwhile and
\* although a promoted root touched the whole store.
RollbackExact == [][Rollback => Live' = pre]_vars

\* FactArena implements FactTxn: the journal's entries are the touched facts,
\* the snapshot's lookups the committed values.
FirstOf(f) ==
  IF EntryOf(journal, f) # 0 THEN Content(journal[EntryOf(journal, f)].first) ELSE AbsentSlot
Txn == INSTANCE FactTxn WITH
         live <- Live,
         touched <- {e.fact : e \in ToSet(journal)},
         first <- [f \in Fact |-> FirstOf(f)],
         committed <- [f \in Fact |-> Lookup(snap, f)]
ImplementsFactTxn == Txn!Spec
=============================================================================
