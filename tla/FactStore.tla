------------------------------ MODULE FactStore ------------------------------
(***************************************************************************)
(* The fact rules of src/src/reactive/store.rs: what one journalled write, *)
(* retraction or promotion does to one fact, and when it is refused.       *)
(*                                                                         *)
(* A fact is one (view, key) coordinate.  Its slot holds the value, the    *)
(* exact owner set and the shared flag fixed by the write that created it. *)
(* An absent fact is the slot without writers, so a slot is present        *)
(* exactly when somebody owns it.                                          *)
(***************************************************************************)

CONSTANTS
  Fact,        \* the (view, key) coordinates
  Value,       \* fact values
  Writer,      \* invocation tokens, and the external writer
  External,    \* EXTERNAL_WRITER: the writer of command effects
  SharedFact,  \* facts of the views whose __shared_writes() is true
  NoValue      \* None

ASSUME FactStoreAssumption ==
  /\ External \in Writer
  /\ SharedFact \subseteq Fact
  /\ NoValue \notin Value

ValueOrNone == Value \cup {NoValue}

Slot == [val : ValueOrNone, writers : SUBSET Writer, shared : BOOLEAN]

AbsentSlot == [val |-> NoValue, writers |-> {}, shared |-> FALSE]

Present(slot) == slot.writers # {}

\* EffectContext::emit passes V::__shared_writes() for a body and `false` for
\* a command effect.
Shareable(w, f) == w # External /\ f \in SharedFact

\* Mutant: a foreign writer that agrees on the value is let in.
ConflictsOnValue(slot, v, w, shareable) == Present(slot) /\ v # NoValue /\ v # slot.val /\ slot.writers # {w}

\* FactJournal::write, the three refusals: a foreign owner of an exclusive
\* fact, a foreign owner of a shared fact that disagrees on the value, and
\* one of several owners that wants another value.
Conflicts(slot, v, w, shareable) ==
  /\ Present(slot)
  /\ \/ w \notin slot.writers /\ ~(slot.shared /\ shareable)
     \/ w \notin slot.writers /\ v # NoValue /\ v # slot.val
     \/ /\ w \in slot.writers
        /\ slot.shared /\ slot.writers # {w}
        /\ v # NoValue /\ v # slot.val

\* An owner lets go: the other owners of a shared fact keep it, otherwise the
\* fact disappears.
Dropped(slot, w) ==
  IF slot.shared /\ slot.writers # {w}
    THEN [slot EXCEPT !.writers = @ \ {w}]
    ELSE AbsentSlot

\* FactJournal::write when nothing conflicts.
Written(slot, v, w, shareable) ==
  IF ~Present(slot)
    THEN IF v = NoValue THEN slot
         ELSE [val |-> v, writers |-> {w}, shared |-> shareable]
  ELSE IF w \notin slot.writers
    THEN IF v = NoValue THEN slot ELSE [slot EXCEPT !.writers = @ \cup {w}]
  ELSE IF v = NoValue THEN Dropped(slot, w)
  ELSE [slot EXCEPT !.val = v]

\* FactJournal::retract: moot when the writer no longer owns the fact.
Retracted(slot, w) ==
  IF w \in slot.writers THEN Dropped(slot, w) ELSE slot

\* FactJournal::install (root promotion): a present fact must agree on value
\* and shared flag, and then the owner sets are united.
InstallConflicts(slot, captured) ==
  /\ Present(slot)
  /\ slot.val # captured.val \/ slot.shared # captured.shared

Installed(slot, captured) ==
  IF Present(slot) THEN [slot EXCEPT !.writers = @ \cup captured.writers]
  ELSE captured

\* FactChange: what a staged step reports to the scheduler.  Owner-only
\* changes report nothing.
Reported(before, after) == before.val # after.val

PresenceChanged(before, after) == Present(before) # Present(after)
=============================================================================
