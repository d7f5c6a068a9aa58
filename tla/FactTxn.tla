------------------------------- MODULE FactTxn -------------------------------
(***************************************************************************)
(* The promise of the command journal (FactJournal in                      *)
(* src/src/reactive/store.rs as plain.rs and engine.rs drive it): a        *)
(* transaction of writes, retractions and root promotions over the facts   *)
(* that either publishes its net effect or leaves nothing behind.          *)
(*                                                                         *)
(* `live` is the mutable store, `committed` the read index that snapshots  *)
(* share.  Ordinals, slots and secondary indexes are in FactArena, which   *)
(* is shown to implement this module.                                      *)
(***************************************************************************)
EXTENDS FactStore

CONSTANT Captures  \* the publications a promoted root may carry:
                   \* functions from a set of facts to values

ASSUME CapturesAssumption ==
  \A c \in Captures : /\ DOMAIN c \subseteq Fact
                      /\ \A f \in DOMAIN c : c[f] \in Value

VARIABLES
  live,         \* PlainState: the slot of every fact
  touched,      \* facts with a journal entry
  first,        \* JournalEntry::first of the touched facts
  committed,    \* PlainRuntime::committed: the value of every fact
  lastChanged,  \* PlainRuntime::last_changed
  active,       \* a CommandTxn frame is pushed
  pre           \* history: the store when the transaction began

vars == <<live, touched, first, committed, lastChanged, active, pre>>

TypeOK ==
  /\ live \in [Fact -> Slot]
  /\ touched \subseteq Fact
  /\ first \in [Fact -> Slot]
  /\ committed \in [Fact -> ValueOrNone]
  /\ lastChanged \subseteq Fact
  /\ active \in BOOLEAN
  /\ pre \in [Fact -> Slot]

NoFacts == [f \in Fact |-> AbsentSlot]

Init ==
  /\ live = NoFacts
  /\ touched = {}
  /\ first = NoFacts
  /\ committed = [f \in Fact |-> NoValue]
  /\ lastChanged = {}
  /\ active = FALSE
  /\ pre = NoFacts

\* push_txn: the journal is fresh.
Begin ==
  /\ ~active
  /\ active' = TRUE
  /\ pre' = live
  /\ UNCHANGED <<live, touched, first, committed, lastChanged>>

\* Mutant: every stage records the slot it replaces.
StageEveryTouch(facts, next) ==
  /\ first' = [f \in Fact |-> IF f \in facts THEN live[f] ELSE first[f]]
  /\ touched' = touched \cup facts
  /\ live' = [f \in Fact |-> IF f \in facts THEN next[f] ELSE live[f]]
  /\ UNCHANGED <<committed, lastChanged, active, pre>>

\* FactJournal::first_touch and the store half of stage, for a set of facts
\* that get new slots.
Stage(facts, next) ==
  /\ first' = [f \in Fact |-> IF f \in facts \ touched THEN live[f] ELSE first[f]]
  /\ touched' = touched \cup facts
  /\ live' = [f \in Fact |-> IF f \in facts THEN next[f] ELSE live[f]]
  /\ UNCHANGED <<committed, lastChanged, active, pre>>

\* A write that changes nothing returns before it touches the journal.
Write(w, f, v) ==
  LET next == Written(live[f], v, w, Shareable(w, f)) IN
  /\ active
  /\ ~Conflicts(live[f], v, w, Shareable(w, f))
  /\ next # live[f]
  /\ Stage({f}, [g \in Fact |-> next])

Retract(w, f) ==
  /\ active
  /\ w \in live[f].writers
  /\ Stage({f}, [g \in Fact |-> Retracted(live[f], w)])

\* capture_plan evaluates the root on a clone of the store, so its writes obey
\* the same rules there; promote_plan then installs every slot of the clone
\* and so touches every present fact.
Captured(w, c) ==
  [f \in Fact |-> IF f \in DOMAIN c
                    THEN Written(live[f], c[f], w, Shareable(w, f))
                    ELSE live[f]]

Promote(w, c) ==
  LET captured == Captured(w, c)
      facts == {f \in Fact : Present(captured[f])} IN
  /\ active
  /\ touched = {}
  /\ w # External
  /\ \A f \in DOMAIN c : ~Conflicts(live[f], c[f], w, Shareable(w, f))
  /\ \A f \in facts : ~InstallConflicts(live[f], captured[f])
  /\ Stage(facts, [f \in Fact |-> Installed(live[f], captured[f])])

\* Mutant: payload updates are not reported.
CommitPresence == {f \in touched : PresenceChanged(first[f], live[f])}

\* Mutant: everything staged is reported, A -> B -> A included.
CommitTouched == touched

\* FactJournal::commit_changes: touched facts whose first and final values
\* differ.
CommitChanges == {f \in touched : Reported(first[f], live[f])}

\* Mutant: the committed index takes slots instead of values.
CommitSlots ==
  /\ active
  /\ active' = FALSE
  /\ committed' = [f \in Fact |-> IF f \in CommitChanges THEN live[f] ELSE committed[f]]
  /\ lastChanged' = CommitChanges
  /\ touched' = {} /\ first' = NoFacts
  /\ UNCHANGED <<live, pre>>

Commit ==
  /\ active
  /\ active' = FALSE
  /\ committed' = [f \in Fact |-> IF f \in CommitChanges THEN live[f].val ELSE committed[f]]
  /\ lastChanged' = CommitChanges
  /\ touched' = {} /\ first' = NoFacts
  /\ UNCHANGED <<live, pre>>

\* FactJournal::rollback: every touched fact gets its first slot back.
Rollback ==
  /\ active
  /\ active' = FALSE
  /\ live' = [f \in Fact |-> IF f \in touched THEN first[f] ELSE live[f]]
  /\ touched' = {} /\ first' = NoFacts
  /\ UNCHANGED <<committed, lastChanged, pre>>

\* Mutant: the journal is not consulted.
PreviousReadLive(f) == live[f].val

\* Temporal::Previous reads during a command.  previous_read: the first-touch
\* value where there is one, else the live value.
PreviousRead(f) ==
  IF f \in touched /\ Present(first[f]) THEN first[f].val ELSE live[f].val

\* FactJournal::previous_inputs: the live keys, without the facts the command
\* removed and with the facts it created.
PreviousInputs ==
  LET removed == {f \in touched : Present(first[f]) /\ ~Present(live[f])}
      created == {f \in touched : ~Present(first[f]) /\ Present(live[f])}
  IN ({f \in Fact : Present(live[f])} \ removed) \cup created

Next ==
  \/ Begin
  \/ \E w \in Writer, f \in Fact, v \in ValueOrNone : Write(w, f, v)
  \/ \E w \in Writer, f \in Fact : Retract(w, f)
  \/ \E w \in Writer, c \in Captures : Promote(w, c)
  \/ Commit
  \/ Rollback

Spec == Init /\ [][Next]_vars

-----------------------------------------------------------------------------
(* Properties *)

\* Between transactions every snapshot reader and the mutable store see the
\* same facts: a rolled-back command leaves no value behind, a committed one
\* misses none, including the keys that went A -> B -> A (plain.rs, the debug
\* assertions of run_command).
CommittedMatchesLive ==
  ~active => \A f \in Fact : committed[f] = live[f].val

\* Only a shared fact ever has two owners, and a present fact has a value
\* (the T5 ownership rule, whatever writes, retractions and promotions meet).
ExclusiveOwnership ==
  \A f \in Fact :
    /\ Present(live[f]) <=> live[f].val # NoValue
    /\ ~live[f].shared => \A w1, w2 \in live[f].writers : w1 = w2

\* Rolling back restores value, owners and shared flag of every fact exactly
\* as the transaction found them, however often the command restaged them.
RollbackRestores == [][Rollback => live' = pre]_vars

\* Previous reads see the last commit where the journal can tell: a fact that
\* existed before the command reads as its committed value, however the command
\* rewrote or removed it since, and an enumeration lists a fact the command has
\* not touched exactly when it is committed.  Facts the command creates are
\* left out: previous_read and previous_inputs both show them.
PreviousReadOfExisting ==
  active =>
    /\ \A f \in Fact : committed[f] # NoValue => PreviousRead(f) = committed[f]
    /\ \A f \in Fact \ touched : f \in PreviousInputs <=> committed[f] # NoValue

\* The committed change list is exactly what a snapshot reader can see change:
\* it drives Previous wakes and subscriptions (commit_changes).
DeltaIsExact ==
  [][Commit => lastChanged' = {f \in Fact : committed'[f] # committed[f]}]_vars
=============================================================================
