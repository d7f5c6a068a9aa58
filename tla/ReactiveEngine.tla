---------------------------- MODULE ReactiveEngine ----------------------------
(***************************************************************************)
(* The reactive engine (src/src/reactive/engine.rs and plain.rs): planned  *)
(* roots, keyed families, invocations with their reads, writes and nested  *)
(* runs, the ordered dirty queue, and the command transaction that either  *)
(* reaches a fixed point and commits or rolls back.                        *)
(*                                                                         *)
(* A component body is any deterministic program over the effects: Op      *)
(* gives its next effect from its input and what its effects returned so   *)
(* far.  A body's evaluation is one step per effect, because nested runs   *)
(* evaluate in the middle of their caller.  Facts are abstracted to        *)
(* FactStore slots (FactArena has their ordinals and indexes).             *)
(***************************************************************************)
EXTENDS FactStore, Integers, Sequences, SequencesExt, FiniteSetsExt

CONSTANTS
  View, ViewOf,    \* the views, and the view of every fact
  Op(_, _, _),     \* Op(fn, input, trace): the body's next effect
  Root,            \* functions planned as roots, on input NoValue
  Family,          \* functions installed as keyed families
  FamilyView,      \* the driving view of every family
  Commands,        \* external commands: functions from facts to ValueOrNone
  MaxCalls,        \* bound: engine calls in one behaviour
  MaxToken,        \* bound: fresh_token() values
  RunLimit,        \* the 1_000_000 evaluations of quiesce, scaled down
  NoResult         \* an invocation that has not produced a result

ASSUME EngineAssumption ==
  /\ ViewOf \in [Fact -> View]
  /\ FamilyView \in [Family -> View]
  /\ Root \cap Family = {}
  /\ MaxCalls \in Nat /\ MaxToken \in Nat /\ RunLimit \in Nat
  /\ Writer = 0 .. MaxToken /\ External = 0

VARIABLES
  rt,         \* PlainRuntime with its graphs, and the CommandTxn (see Init)
  stack,      \* ACTIVE_EVALS: the evaluations in progress, innermost last
  call,       \* the engine call in progress
  plan,       \* per root: Planned / Running handle and captured store
  committed,  \* PlainRuntime::committed
  last,       \* PlainRuntime::last_changed, and (history) committed before that commit
  epoch,      \* PlainRuntime::epoch
  sink,       \* per root: the output cell its OutputSink updates
  rounds,     \* evaluations of this quiesce
  calls,      \* engine calls so far (bound)
  before      \* history: rt when the call began

vars == <<rt, stack, call, plan, committed, last, epoch, sink, rounds, calls, before>>

Idle == [kind |-> "idle", name |-> NoValue, output |-> NoValue]

-----------------------------------------------------------------------------
(* Small helpers *)

Extend(fn, x, y) == [z \in DOMAIN fn \cup {x} |-> IF z = x THEN y ELSE fn[z]]
Drop(fn, S) == [z \in DOMAIN fn \ S |-> fn[z]]
Sorted(S) == SetToSortSeq(S, <)

Change(f, old, new) == [fact |-> f, presence |-> PresenceChanged(old, new)]

\* A reverse-dependency row of one graph (DepRow): exact, keyset or wildcard.
Row(graph, id, read) == [graph |-> graph, id |-> id, read |-> read]

\* ReadDep::matches for current reads: a keyset read wakes on insertion and
\* removal only.  Reads of kind "previous" have rows of their own.
Matches(read, change) ==
  \/ read.kind = "exact" /\ read.on = change.fact
  \/ read.kind = "keyset" /\ read.on = ViewOf[change.fact] /\ change.presence
  \/ read.kind = "inputs" /\ read.on = ViewOf[change.fact]

\* CallIdentity::same
SameIdentity(i, j) ==
  /\ i.fn = j.fn /\ i.input = j.input
  /\ (i.stable /\ j.stable) \/ (i.site = j.site /\ i.occ = j.occ)

Identity(fn, input, site, occ, stable) ==
  [fn |-> fn, input |-> input, site |-> site, occ |-> occ, stable |-> stable]

\* A new Invocation record.  `trace` is the history the properties replay.
NewInvocation(graph, parent, identity) ==
  [graph |-> graph, parent |-> parent, identity |-> identity,
   reads |-> {}, writes |-> {}, pending |-> <<>>, result |-> NoResult,
   children |-> {}, seen |-> {}, retired |-> FALSE, trace |-> <<>>]

LiveId(r, id) == id \in DOMAIN r.inv /\ ~r.inv[id].retired

\* CommandTxn::touch_invocation
Touch(r, id) ==
  IF id \in DOMAIN r.undo THEN r ELSE [r EXCEPT !.undo = Extend(@, id, r.inv[id])]

-----------------------------------------------------------------------------
(* Facts through the journal *)

\* previous_read: the journal's first value of a fact that was present, else
\* the store's.
PreviousRead(r, f) ==
  IF f \in r.touched /\ Present(r.first[f]) THEN r.first[f].val ELSE r.live[f].val

Store(r, f, slot) ==
  [r EXCEPT !.live[f] = slot,
            !.touched = @ \cup {f},
            !.first[f] = IF f \in r.touched THEN @ ELSE r.live[f],
            !.out = IF Reported(r.live[f], slot)
                      THEN Append(@, Change(f, r.live[f], slot)) ELSE @]

WriteFact(r, w, f, v) ==
  LET next == Written(r.live[f], v, w, Shareable(w, f)) IN
  IF r.err THEN r
  ELSE IF Conflicts(r.live[f], v, w, Shareable(w, f)) THEN [r EXCEPT !.err = TRUE]
  ELSE IF next = r.live[f] THEN r
  ELSE Store(r, f, next)

RetractFact(r, w, f) ==
  IF w \in r.live[f].writers THEN Store(r, f, Retracted(r.live[f], w)) ELSE r

WriteAll(r, w, writes) ==
  FoldLeft(LAMBDA q, f : WriteFact(q, w, f, writes[f]), r, SetToSeq(DOMAIN writes))

RetractAll(r, w, facts) == FoldLeft(LAMBDA q, f : RetractFact(q, w, f), r, SetToSeq(facts))

-----------------------------------------------------------------------------
(* Retirement, marking and family membership *)

\* Mutant: a retired invocation keeps its facts.
RetireKeepsWrites(r, id) ==
  IF ~LiveId(r, id) THEN r
  ELSE [Touch(r, id) EXCEPT !.inv[id] = [@ EXCEPT !.retired = TRUE, !.reads = {}, !.writes = {}]]

\* retract_invocation: children first, then dependency rows, then writes and
\* the state slot, for which no inverse is recorded.
RECURSIVE RetireInvocation(_, _)
RetireInvocation(r, id) ==
  IF ~LiveId(r, id) THEN r
  ELSE LET i == r.inv[id]
           q == FoldLeft(RetireInvocation, Touch(r, id), Sorted(i.children))
           p == [q EXCEPT !.rows = @ \ {Row(i.graph, id, read) : read \in i.reads}]
       IN [RetractAll(p, id, i.writes) EXCEPT
             !.cells = Drop(@, {id}),
             !.inv[id] = [@ EXCEPT !.retired = TRUE, !.result = NoResult, !.reads = {},
                                   !.writes = {}, !.children = {}, !.seen = {}, !.trace = <<>>]]

\* DirtyQueue::insert, under the installation ordinal of the graph.
MarkDirty(r, graph, id) == [r EXCEPT !.dirty = @ \cup {<<r.ord[graph], id, graph>>}]

\* Mutant: only root graphs are woken.
MarkRootReaders(r, changes) ==
  [r EXCEPT !.dirty = @ \cup
     {<<r.ord[row.graph], row.id, row.graph>> :
        row \in {w \in r.rows : /\ w.graph \in DOMAIN r.ord \ DOMAIN r.fams
                                /\ \E n \in DOMAIN changes : Matches(w.read, changes[n])}}]

\* DependencyIndex::mark_current over every installed graph.
MarkReaders(r, changes) ==
  [r EXCEPT !.dirty = @ \cup
     {<<r.ord[row.graph], row.id, row.graph>> :
        row \in {w \in r.rows : /\ w.graph \in DOMAIN r.ord
                                /\ \E n \in DOMAIN changes : Matches(w.read, changes[n])}}]

Members(r, fam, f) ==
  {id \in DOMAIN r.inv : /\ r.inv[id].parent = fam /\ ~r.inv[id].retired
                         /\ r.inv[id].identity.input = f}

Watchers(r, f) == {fam \in DOMAIN r.fams : FamilyView[r.fams[fam]] = ViewOf[f]}

\* queue_family_child: creates the member when absent, and queues it.
QueueMember(r, fam, f) ==
  IF Members(r, fam, f) # {}
    THEN MarkDirty(r, fam, CHOOSE id \in Members(r, fam, f) : TRUE)
    ELSE MarkDirty(
           [r EXCEPT !.token = @ + 1,
                     !.inv = Extend(@, r.token, NewInvocation(fam, fam,
                                      Identity(r.fams[fam], f, "keyed", 0, TRUE)))],
           fam, r.token)

\* schedule_families retires members whose key vanished before it queues the
\* members of new keys; retirement marks readers and families in turn.
RECURSIVE MarkChanges(_, _)
RetireMember(r, id) ==
  LET q == RetireInvocation([r EXCEPT !.out = <<>>], id) IN
  MarkChanges([q EXCEPT !.inv = Drop(@, {id}), !.out = r.out], q.out)

\* Mutant: new keys get no member.
ScheduleRemovalsOnly(r, changes) ==
  FoldLeft(LAMBDA q, c :
             IF ~c.presence \/ Present(q.live[c.fact]) THEN q
             ELSE FoldLeft(RetireMember, q,
                    Sorted(UNION {Members(q, fam, c.fact) : fam \in Watchers(q, c.fact)})),
           r, changes)

ScheduleFamilies(r, changes) ==
  LET gone(q, c) ==
        IF ~c.presence \/ Present(q.live[c.fact]) THEN q
        ELSE FoldLeft(RetireMember, q,
               Sorted(UNION {Members(q, fam, c.fact) : fam \in Watchers(q, c.fact)}))
      come(q, c) ==
        IF ~c.presence \/ ~Present(q.live[c.fact]) THEN q
        ELSE FoldLeft(LAMBDA p, fam : QueueMember(p, fam, c.fact), q, Sorted(Watchers(q, c.fact)))
  IN FoldLeft(come, FoldLeft(gone, r, changes), changes)

MarkChanges(r, changes) ==
  IF changes = <<>> THEN r ELSE MarkReaders(ScheduleFamilies(r, changes), changes)

\* take_changes of one graph, and mark_changes of what it held.
DrainLog(r, graph) == MarkChanges([r EXCEPT !.log[graph] = <<>>], r.log[graph])

\* DependencyIndex::mark_previous over every installed graph.
MarkPrevious(r, changes) ==
  [r EXCEPT !.dirty = @ \cup
     {<<r.ord[row.graph], row.id, row.graph>> :
        row \in {w \in r.rows : /\ w.graph \in DOMAIN r.ord
                                /\ \E n \in DOMAIN changes :
                                     w.read = [kind |-> "previous", on |-> changes[n].fact]}}]

\* The queue and every change log of an installed graph start clean.
CleanQueue(r) ==
  [r EXCEPT !.dirty = {},
            !.log = [g \in DOMAIN @ |-> IF g \in DOMAIN r.ord THEN <<>> ELSE @[g]]]

\* Mutant: only current reads wake.
InitializeDirtyCurrent(r, changes) == MarkReaders(CleanQueue(r), changes)

\* initialize_dirty: Previous reads wake on what the last commit changed,
\* current reads on the changes of this call; families are not scheduled.
InitializeDirty(r, changes) == MarkReaders(MarkPrevious(CleanQueue(r), last.changed), changes)

-----------------------------------------------------------------------------
(* Transactions *)

\* push_txn: a fresh journal and undo list.
FreshTxn(r) ==
  [r EXCEPT !.touched = {}, !.first = [f \in Fact |-> AbsentSlot],
            !.undo = <<>>, !.cellUndo = <<>>, !.inserted = 0, !.removed = 0, !.out = <<>>, !.err = FALSE]

ChangedFacts(r) == {f \in r.touched : Reported(r.first[f], r.live[f])}

CommitChanges(r) ==
  LET s == SetToSeq(ChangedFacts(r)) IN
  [n \in DOMAIN s |-> Change(s[n], r.first[s[n]], r.live[s[n]])]

\* The state slots of the graphs in `roots` return to their first values.
RestoredCells(r) ==
  LET restored == {id \in DOMAIN r.cellUndo : /\ id \in DOMAIN r.inv
                                              /\ r.inv[id].graph \in DOMAIN r.ord \ DOMAIN r.fams}
      held == {id \in restored : r.cellUndo[id] # NoValue}
  IN [id \in (DOMAIN r.cells \ restored) \cup held |->
        IF id \in held THEN r.cellUndo[id] ELSE r.cells[id]]

\* rollback_txn: facts from the journal, then invocation records and their
\* dependency rows, but only of the graphs in `roots`; then root insertion
\* and removal.  Family graphs and the dirty queue are left as they are, and so
\* are rows that no current or restored read of their invocation has.
RolledBack(r) ==
  LET restored == {id \in DOMAIN r.undo : r.undo[id].graph \in DOMAIN r.ord \ DOMAIN r.fams}
      stale == UNION {{Row(r.inv[id].graph, id, read) : read \in r.inv[id].reads} : id \in restored}
      kept == UNION {{Row(r.undo[id].graph, id, read) : read \in r.undo[id].reads} :
                       id \in {i \in restored : ~r.undo[i].retired}}
      ords == Drop(r.ord, {r.inserted})
  IN FreshTxn([r EXCEPT
       !.live = [f \in Fact |-> IF f \in r.touched THEN r.first[f] ELSE r.live[f]],
       !.inv = [id \in DOMAIN @ |-> IF id \in restored THEN r.undo[id] ELSE @[id]],
       !.rows = (@ \ stale) \cup kept,
       !.cells = RestoredCells(r),
       !.ord = IF r.removed # 0 THEN Extend(ords, r.removed, r.removedOrd) ELSE ords])

\* dependency_cycle: cross-view read-to-write edges of the live invocations of
\* roots; an enumeration is a node of its own.
CycleEdges(r) ==
  UNION {{<<read.on, f>> : <<read, f>> \in
            {<<d, g>> \in r.inv[id].reads \X r.inv[id].writes :
               d.kind = "exact" /\ ViewOf[d.on] # ViewOf[g]}} :
         id \in {i \in DOMAIN r.inv : ~r.inv[i].retired
                                      /\ r.inv[i].graph \in DOMAIN r.ord \ DOMAIN r.fams}}

Reach(edges) ==
  LET R[n \in 0 .. Cardinality(Fact)] ==
        IF n = 0 THEN edges
        ELSE LET S == R[n - 1] IN
             S \cup {<<e[1], d[2]>> : <<e, d>> \in {<<x, y>> \in S \X edges : x[2] = y[1]}}
  IN R[Cardinality(Fact)]

DependencyCycle(r) == \E e \in Reach(CycleEdges(r)) : e[1] = e[2]

-----------------------------------------------------------------------------
(* Evaluation: evaluate_graph, one step per effect of the body *)

Frame(r, id) ==
  [id |-> id, trace |-> <<>>, sites |-> <<>>,
   oldWrites |-> r.inv[id].writes, oldReads |-> r.inv[id].reads]

\* The head of evaluate_graph: the record is touched, then emptied.
Enter(r, id) ==
  [Touch(r, id) EXCEPT !.inv[id] = [@ EXCEPT !.reads = {}, !.writes = {},
                                             !.pending = <<>>, !.seen = {}]]

Top == Last(stack)
Body == rt.inv[Top.id]
NextOp == Op(Body.identity.fn, Body.identity.input, Top.trace)

\* The stack after the innermost body's effect returned x.
Returned(st, x) == [st EXCEPT ![Len(st)].trace = Append(@, x)]

PresentIn(r, v) == {f \in Fact : ViewOf[f] = v /\ Present(r.live[f])}

Evaluating(op) == stack # <<>> /\ NextOp.op = op

\* EffectContext::observe
Observe ==
  /\ Evaluating("observe")
  /\ rt' = [rt EXCEPT !.inv[Top.id].reads = @ \cup {[kind |-> "exact", on |-> NextOp.fact]}]
  /\ stack' = Returned(stack, rt.live[NextOp.fact].val)
  /\ UNCHANGED <<call, plan, committed, last, epoch, sink, rounds, calls, before>>

\* EffectContext::observe with Temporal::Previous
ObservePrevious ==
  /\ Evaluating("previous")
  /\ rt' = [rt EXCEPT !.inv[Top.id].reads = @ \cup {[kind |-> "previous", on |-> NextOp.fact]}]
  /\ stack' = Returned(stack, PreviousRead(rt, NextOp.fact))
  /\ UNCHANGED <<call, plan, committed, last, epoch, sink, rounds, calls, before>>

\* StateCell::with: no dependency is recorded.
CellOf(r, id) == IF id \in DOMAIN r.cells THEN r.cells[id] ELSE NoValue

ReadCell ==
  /\ Evaluating("get")
  /\ stack' = Returned(stack, CellOf(rt, Top.id))
  /\ UNCHANGED <<rt, call, plan, committed, last, epoch, sink, rounds, calls, before>>

\* Mutant: every write of a slot records what it replaces.
TouchCellAlways(r, id) == [r EXCEPT !.cellUndo = Extend(@, id, CellOf(r, id))]

\* CommandTxn::touch_state_slot: only the first write of a call records it.
TouchCell(r, id) ==
  IF id \in DOMAIN r.cellUndo THEN r ELSE [r EXCEPT !.cellUndo = Extend(@, id, CellOf(r, id))]

\* StateCell::set, and clear (of NoValue): applied at once, not when the body
\* returns.
WriteCell ==
  /\ Evaluating("set")
  /\ LET r == TouchCell(rt, Top.id) IN
     rt' = [r EXCEPT !.cells = IF NextOp.val = NoValue THEN Drop(@, {Top.id})
                               ELSE Extend(@, Top.id, NextOp.val)]
  /\ stack' = Returned(stack, NoValue)
  /\ UNCHANGED <<call, plan, committed, last, epoch, sink, rounds, calls, before>>

\* EffectContext::inputs and inputs_keyset
Enumerate ==
  /\ Evaluating("inputs") \/ Evaluating("keyset")
  /\ rt' = [rt EXCEPT !.inv[Top.id].reads = @ \cup {[kind |-> NextOp.op, on |-> NextOp.view]}]
  /\ stack' = Returned(stack, PresentIn(rt, NextOp.view))
  /\ UNCHANGED <<call, plan, committed, last, epoch, sink, rounds, calls, before>>

\* EffectContext::emit: buffered until the body returns, the last write of a
\* key wins (IndexedWrites::replace).
Emit ==
  /\ Evaluating("emit")
  /\ rt' = [rt EXCEPT !.inv[Top.id].pending = Extend(@, NextOp.fact, NextOp.val)]
  /\ stack' = Returned(stack, NoValue)
  /\ UNCHANGED <<call, plan, committed, last, epoch, sink, rounds, calls, before>>

\* run_effect_at_with_definition: reuse the child with this identity, else
\* retire the children this call site no longer reaches and create one.
CallIdentityOf(op) ==
  Identity(op.fn, op.input, op.site,
           Len(SelectSeq(Top.sites, LAMBDA x : x = <<op.site, op.fn>>)), op.stable)

CallCycle(op) ==
  \E n \in DOMAIN stack : LET i == rt.inv[stack[n].id].identity IN
                          i.fn = op.fn /\ i.input = op.input

Reusable(r, parent, identity) ==
  {c \in r.inv[parent].children \ r.inv[parent].seen :
     ~r.inv[c].retired /\ SameIdentity(r.inv[c].identity, identity)}

StaleChildren(r, parent, identity) ==
  IF identity.stable THEN {}
  ELSE {c \in r.inv[parent].children :
          LET i == r.inv[c].identity IN
          /\ ~r.inv[c].retired
          /\ i.site = identity.site /\ i.fn = identity.fn /\ i.occ >= identity.occ}

\* The graph with the called child in place, and that child's token.
Called(r, parent, identity) ==
  LET graph == r.inv[parent].graph
      reuse == Reusable(r, parent, identity)
      stale == IF reuse = {} THEN StaleChildren(r, parent, identity) ELSE {}
      q == FoldLeft(RetireInvocation, [r EXCEPT !.out = <<>>], Sorted(stale))
      p == Touch([q EXCEPT !.log[graph] = @ \o q.out,
                           !.inv[parent].children = @ \ stale], parent)
      c == IF reuse # {} THEN Min(reuse) ELSE p.token
      made == IF reuse # {} THEN Touch(p, c)
              ELSE [p EXCEPT !.token = @ + 1, !.inv = Extend(@, c, NewInvocation(graph, parent, identity))]
  IN [r |-> [made EXCEPT !.inv[parent].children = @ \cup {c}, !.inv[parent].seen = @ \cup {c}],
      child |-> c]

ChildCall == Called(rt, Top.id, CallIdentityOf(NextOp))
AtSite == [stack EXCEPT ![Len(stack)].sites = Append(@, <<NextOp.site, NextOp.fn>>)]

\* A child without a result is evaluated inside its caller ...
EvaluateChild ==
  /\ Evaluating("run") /\ ~CallCycle(NextOp)
  /\ ChildCall.r.inv[ChildCall.child].result = NoResult
  /\ rt' = Enter(ChildCall.r, ChildCall.child)
  /\ stack' = Append(AtSite, Frame(ChildCall.r, ChildCall.child))
  /\ UNCHANGED <<call, plan, committed, last, epoch, sink, rounds, calls, before>>

\* ... and one with a result only hands it out.
ReuseChild ==
  /\ Evaluating("run") /\ ~CallCycle(NextOp)
  /\ ChildCall.r.inv[ChildCall.child].result # NoResult
  /\ rt' = ChildCall.r
  /\ stack' = Returned(AtSite, ChildCall.r.inv[ChildCall.child].result)
  /\ UNCHANGED <<call, plan, committed, last, epoch, sink, rounds, calls, before>>

\* Mutant: writes the body no longer emits stay in the store.
AppliedWithoutRetracts(r, id, old, pending) == WriteAll(r, id, pending)

\* Omitted writes retract, then the candidate is written.
Applied(r, id, old, pending) == WriteAll(RetractAll(r, id, old \ DOMAIN pending), id, pending)

Rows(graph, id, reads) == {Row(graph, id, read) : read \in reads}

\* DependencyIndex::replace
ReplaceRows(rows, graph, id, old, new) == (rows \ Rows(graph, id, old)) \cup Rows(graph, id, new)

\* The tail of evaluate_graph up to the candidate: unseen children retire.
Candidate ==
  LET q == FoldLeft(RetireInvocation, [rt EXCEPT !.out = <<>>], Sorted(Body.children \ Body.seen))
  IN Applied(q, Top.id, Top.oldWrites, Body.pending)

\* The rest, when no write was refused: the dependency rows are replaced and
\* the record takes the result, the writes and the children.
Concluded(result) ==
  LET id == Top.id
      i == Body
      p == Candidate
  IN [p EXCEPT
       !.rows = ReplaceRows(@, i.graph, id, Top.oldReads, i.reads),
       !.log[i.graph] = @ \o p.out,
       !.inv[id] = [@ EXCEPT !.result = result, !.children = i.seen, !.trace = Top.trace,
                             !.writes = {f \in DOMAIN i.pending : i.pending[f] # NoValue}]]

\* A nested body returns to its caller.
ReturnNested ==
  /\ Evaluating("return") /\ Len(stack) > 1
  /\ ~Candidate.err
  /\ rt' = Concluded(NextOp.val)
  /\ stack' = Returned(Front(stack), NextOp.val)
  /\ UNCHANGED <<call, plan, committed, last, epoch, sink, rounds, calls, before>>

Capturing == call.kind \in {"plan", "recapture"}

\* Mutant: a caller is not requeued when its callee's result changed.
ReturnWithoutRequeue ==
  /\ Evaluating("return") /\ Len(stack) = 1 /\ ~Capturing
  /\ ~Candidate.err
  /\ rt' = DrainLog(Concluded(NextOp.val), Body.graph)
  /\ stack' = <<>>
  /\ rounds' = rounds + 1
  /\ UNCHANGED <<call, plan, committed, last, epoch, sink, calls, before>>

\* Mutant: the evaluation is not counted against the run limit.
ReturnUncounted ==
  /\ Evaluating("return") /\ Len(stack) = 1 /\ ~Capturing
  /\ ~Candidate.err
  /\ rt' = DrainLog(Concluded(NextOp.val), Body.graph)
  /\ stack' = <<>>
  /\ UNCHANGED <<call, plan, committed, last, epoch, sink, rounds, calls, before>>

\* The end of a quiesce round: the graph's changes are marked, and a changed
\* result requeues the caller (never the root of a family).
ReturnToQueue ==
  /\ Evaluating("return") /\ Len(stack) = 1 /\ ~Capturing
  /\ ~Candidate.err
  /\ LET i == Body
         q == DrainLog(Concluded(NextOp.val), i.graph)
         requeue == /\ i.result # NextOp.val /\ i.parent # 0
                    /\ ~(i.graph \in DOMAIN q.fams /\ i.parent = i.graph)
     IN rt' = IF requeue THEN MarkDirty(q, i.graph, i.parent) ELSE q
  /\ stack' = <<>>
  /\ rounds' = rounds + 1
  /\ UNCHANGED <<call, plan, committed, last, epoch, sink, calls, before>>

\* capture_plan / recapture_plan keep the captured store with the plan; the
\* runtime's own store was never touched.
ReturnToPlan ==
  /\ Evaluating("return") /\ Len(stack) = 1 /\ Capturing
  /\ ~Candidate.err
  /\ LET q == Concluded(NextOp.val) IN
     /\ rt' = FreshTxn([q EXCEPT !.live = before.live])
     /\ plan' = [plan EXCEPT ![call.name].cap = q.live, ![call.name].adopted = FALSE,
                             ![call.name].status = "planned",
                             ![call.name].epoch = IF call.kind = "plan" THEN epoch ELSE @]
  /\ sink' = [sink EXCEPT ![call.name] = NextOp.val]
  /\ call' = IF call.kind = "plan" THEN Idle ELSE [call EXCEPT !.kind = "install"]
  /\ stack' = <<>>
  /\ UNCHANGED <<committed, last, epoch, rounds, calls, before>>

-----------------------------------------------------------------------------
(* Failure *)

\* The call returns Err: captures drop their graph or store, everything else
\* rolls the transaction back.  A plan that failed to run stays planned with
\* its output restored.
Abort(r) ==
  /\ rt' = CASE call.kind = "plan" -> [before EXCEPT !.token = r.token]
             [] call.kind = "recapture" -> FreshTxn([r EXCEPT !.live = before.live])
             [] OTHER -> RolledBack(r)
  /\ sink' = IF call.kind \in {"run", "install"} THEN [sink EXCEPT ![call.name] = call.output] ELSE sink
  /\ stack' = <<>> /\ call' = Idle
  /\ UNCHANGED <<plan, committed, last, epoch, rounds, calls, before>>

\* A body fails, its candidate conflicts, or it calls itself.
BodyFails ==
  /\ stack # <<>>
  /\ \/ Evaluating("fail") /\ Abort(rt)
     \/ Evaluating("run") /\ CallCycle(NextOp) /\ Abort(rt)
     \/ Evaluating("return") /\ Candidate.err /\ Abort(Candidate)

-----------------------------------------------------------------------------
(* Quiescence and commit *)

Settling == stack = <<>> /\ call.kind \in {"command", "run", "remove", "family"}

\* DirtyQueue::pop: installation ordinal first, then invocation token.
FirstDirty ==
  CHOOSE k \in rt.dirty : \A m \in rt.dirty : k[1] < m[1] \/ (k[1] = m[1] /\ k[2] <= m[2])

\* One turn of quiesce: stale entries are skipped, a family member whose key
\* vanished retires, anything else is evaluated.  (The change log drained here
\* is empty unless a failed call left residue before a family installation.)
Pop ==
  /\ Settling /\ rt.dirty # {} /\ rounds < RunLimit
  /\ LET k == FirstDirty
         id == k[2]
         graph == k[3]
         popped == [rt EXCEPT !.dirty = @ \ {k}]
         q == DrainLog(popped, graph)
         i == rt.inv[id]
     IN IF graph \notin DOMAIN rt.ord \/ ~LiveId(rt, id)
          THEN rt' = popped /\ stack' = <<>> /\ UNCHANGED rounds
        ELSE IF graph \in DOMAIN rt.fams /\ i.parent = graph /\ ~Present(q.live[i.identity.input])
          THEN rt' = RetireMember(q, id) /\ stack' = <<>> /\ rounds' = rounds + 1
        ELSE rt' = Enter(q, id) /\ stack' = <<Frame(q, id)>> /\ UNCHANGED rounds
  /\ UNCHANGED <<call, plan, committed, last, epoch, sink, calls, before>>

\* "plain computation run limit exceeded"
RunLimitExceeded ==
  /\ Settling /\ rt.dirty # {} /\ rounds >= RunLimit
  /\ Abort([rt EXCEPT !.dirty = @ \ {FirstDirty}])

\* Commands and root promotion check for cross-view cycles before committing.
CycleRejected ==
  /\ Settling /\ rt.dirty = {}
  /\ call.kind \in {"command", "run"} /\ DependencyCycle(rt)
  /\ Abort(rt)

\* update_sinks
Sinks(r) ==
  [R \in Root |-> IF plan[R].token \in DOMAIN r.ord THEN r.inv[plan[R].token].result ELSE sink[R]]

\* The committed index takes the net changes and the sinks the new results;
\* family calls publish nothing when no fact changed.
Publish(r, always) ==
  IF always \/ ChangedFacts(r) # {}
    THEN /\ committed' = [f \in Fact |-> IF f \in ChangedFacts(r) THEN r.live[f].val ELSE committed[f]]
         /\ last' = [changed |-> CommitChanges(r), before |-> committed]
         /\ epoch' = epoch + 1
         /\ sink' = Sinks(r)
    ELSE UNCHANGED <<committed, last, epoch, sink>>

Commit ==
  /\ Settling /\ rt.dirty = {}
  /\ ~(call.kind \in {"command", "run"} /\ DependencyCycle(rt))
  /\ Publish(rt, call.kind # "family")
  /\ plan' = CASE call.kind = "run" -> [plan EXCEPT ![call.name].status = "running"]
               [] call.kind = "remove" -> [plan EXCEPT ![call.name].status = "removed"]
               [] OTHER -> plan
  /\ rt' = FreshTxn(rt)
  /\ call' = Idle
  /\ UNCHANGED <<stack, rounds, calls, before>>

-----------------------------------------------------------------------------
(* Engine calls *)

Calling(kind, name) ==
  /\ call = Idle /\ calls < MaxCalls /\ calls' = calls + 1
  /\ before' = rt
  /\ rounds' = 0

\* A graph with nothing but its root invocation (PlainGraph::new).
NewGraph(r, root, fn) ==
  LET own == {id \in DOMAIN r.inv : r.inv[id].graph = root} IN
  [r EXCEPT !.cells = Drop(@, own),
            !.inv = Extend(Drop(@, own), root, NewInvocation(root, 0, Identity(fn, NoValue, "root", 0, FALSE))),
            !.rows = {w \in @ : w.graph # root},
            !.log = Extend(@, root, <<>>)]

\* Engine::plan: capture in an isolated graph over a clone of the store.
Plan(R) ==
  /\ plan[R].status = "none"
  /\ Calling("plan", R)
  /\ LET r == NewGraph([FreshTxn(rt) EXCEPT !.token = @ + 1], rt.token, R) IN
     /\ rt' = Enter(r, rt.token)
     /\ stack' = <<Frame(r, rt.token)>>
  /\ plan' = [plan EXCEPT ![R].token = rt.token]
  /\ call' = [Idle EXCEPT !.kind = "plan", !.name = R]
  /\ UNCHANGED <<committed, last, epoch, sink>>

\* Engine::run: a plan captured at another epoch is captured again, in a new
\* graph with the same root token.
Run(R) ==
  /\ plan[R].status = "planned"
  /\ Calling("run", R)
  /\ IF plan[R].epoch = epoch
       THEN /\ rt' = FreshTxn(rt) /\ stack' = <<>>
            /\ call' = [kind |-> "install", name |-> R, output |-> sink[R]]
       ELSE LET r == NewGraph(FreshTxn(rt), plan[R].token, R) IN
            /\ rt' = Enter(r, plan[R].token)
            /\ stack' = <<Frame(r, plan[R].token)>>
            /\ call' = [kind |-> "recapture", name |-> R, output |-> sink[R]]
  /\ UNCHANGED <<plan, committed, last, epoch, sink>>

\* promote_plan: the captured slots join the store and the root the graph.
Promoted(r, R) ==
  LET cap == IF plan[R].adopted THEN r.live ELSE plan[R].cap
      facts == {f \in Fact : Present(cap[f])} IN
  [r EXCEPT !.live = [f \in Fact |-> IF f \in facts THEN Installed(@[f], cap[f]) ELSE @[f]],
            !.touched = facts,
            !.first = [f \in Fact |-> IF f \in facts THEN r.live[f] ELSE @[f]],
            !.ord = Extend(@, plan[R].token, r.nextOrd),
            !.nextOrd = @ + 1,
            !.inserted = plan[R].token,
            !.err = \E f \in facts : InstallConflicts(r.live[f], cap[f])]

\* The rest of Engine::run: promotion, cycle check, and initialize_dirty, from
\* which on the graph works on the runtime's store (adopted).
InstallRoot ==
  /\ call.kind = "install"
  /\ LET r == Promoted(rt, call.name) IN
     IF r.err THEN Abort(rt)
     ELSE IF DependencyCycle(r) THEN Abort(r)
     ELSE /\ rt' = InitializeDirty(r, CommitChanges(r))
          /\ plan' = [plan EXCEPT ![call.name].adopted = TRUE]
          /\ call' = [call EXCEPT !.kind = "run"]
          /\ UNCHANGED <<stack, committed, last, epoch, sink, rounds, calls, before>>

\* The invocations remove_root walks.
Tree(r, id) ==
  LET depth == Cardinality(DOMAIN r.inv)
      T[n \in 0 .. depth] ==
        IF n = 0 THEN {id}
        ELSE LET S == T[n - 1] IN S \cup UNION {r.inv[i].children : i \in S}
  IN T[depth]

\* Engine::remove: the root's publication is retracted, its graph is not
\* changed; readers wake only if something changed.
RemoveRoot(R) ==
  /\ plan[R].status = "running"
  /\ Calling("remove", R)
  /\ LET root == plan[R].token
         r == FoldLeft(LAMBDA q, id : RetractAll(q, id, q.inv[id].writes), FreshTxn(rt),
                       Reverse(Sorted(Tree(rt, root))))
         q == [r EXCEPT !.ord = Drop(@, {root}), !.removed = root, !.removedOrd = r.ord[root]]
     IN IF ChangedFacts(q) = {}
          THEN /\ rt' = FreshTxn(q) /\ call' = Idle
               /\ plan' = [plan EXCEPT ![R].status = "removed"]
          ELSE /\ rt' = InitializeDirty(q, CommitChanges(q))
               /\ call' = [Idle EXCEPT !.kind = "remove", !.name = R]
               /\ UNCHANGED plan
  /\ UNCHANGED <<stack, committed, last, epoch, sink>>

\* Engine::command: external writes, then readers and families of what they
\* changed.  A command that touches nothing does no work.
Command(c) ==
  /\ Calling("command", NoValue)
  /\ LET r == WriteAll(FreshTxn(rt), External, c) IN
     IF r.err THEN rt' = RolledBack(r) /\ call' = Idle
     ELSE IF r.touched = {} THEN rt' = FreshTxn(rt) /\ call' = Idle
     ELSE /\ rt' = ScheduleFamilies(InitializeDirty(r, r.out), r.out)
          /\ call' = [Idle EXCEPT !.kind = "command", !.name = NoValue]
  /\ UNCHANGED <<stack, plan, committed, last, epoch, sink>>

\* Engine::install_component_each_key: a definition registers once and for
\* good; then one member per committed key is queued.  The dirty queue and the
\* change logs are taken as they are.
InstallFamily(F) ==
  /\ F \notin rt.reg
  /\ Calling("family", F)
  /\ LET root == rt.token
         r == NewGraph([FreshTxn(rt) EXCEPT !.token = @ + 1], root, F)
         q == [r EXCEPT !.fams = Extend(@, root, F), !.ord = Extend(@, root, r.nextOrd),
                        !.nextOrd = @ + 1, !.reg = @ \cup {F}]
     IN rt' = FoldLeft(LAMBDA p, f : QueueMember(p, root, f), q,
                SetToSeq({f \in Fact : ViewOf[f] = FamilyView[F] /\ committed[f] # NoValue}))
  /\ call' = [Idle EXCEPT !.kind = "family", !.name = F]
  /\ UNCHANGED <<stack, plan, committed, last, epoch, sink>>

\* Engine::remove_keyed: every member retires and the result is published;
\* nothing is marked or evaluated.
RemoveFamily(F) ==
  \E fam \in DOMAIN rt.fams :
    /\ rt.fams[fam] = F
    /\ Calling("removeFamily", F)
    /\ LET r == FoldLeft(RetireInvocation, FreshTxn(rt),
                  Sorted({id \in DOMAIN rt.inv : rt.inv[id].parent = fam /\ ~rt.inv[id].retired}))
           q == [r EXCEPT !.fams = Drop(@, {fam}), !.ord = Drop(@, {fam})]
       IN Publish(q, FALSE) /\ rt' = FreshTxn(q)
    /\ UNCHANGED <<stack, call, plan>>

-----------------------------------------------------------------------------
(* Specification *)

Init ==
  /\ rt = [live |-> [f \in Fact |-> AbsentSlot],    \* PlainRuntime::state
           inv |-> <<>>,                            \* invocations of all graphs, by token
           rows |-> {}, log |-> <<>>,               \* per graph: deps, change_log
           ord |-> <<>>, nextOrd |-> 1,             \* installed graphs, by root token
           fams |-> <<>>,                           \* of these, the family graphs
           reg |-> {},                              \* DefinitionRegistry
           dirty |-> {}, token |-> 1,
           cells |-> <<>>,                          \* per graph: state_slots
           touched |-> {}, first |-> [f \in Fact |-> AbsentSlot],  \* the journal
           undo |-> <<>>, cellUndo |-> <<>>, inserted |-> 0, removed |-> 0, removedOrd |-> 0,
           out |-> <<>>, err |-> FALSE]             \* changes and error of one operation
  /\ stack = <<>> /\ call = Idle
  /\ plan = [R \in Root |-> [status |-> "none", token |-> 0, epoch |-> 0, adopted |-> FALSE,
                             cap |-> [f \in Fact |-> AbsentSlot]]]
  /\ committed = [f \in Fact |-> NoValue]
  /\ last = [changed |-> <<>>, before |-> committed]
  /\ epoch = 0 /\ sink = [R \in Root |-> NoValue]
  /\ rounds = 0 /\ calls = 0
  /\ before = rt

\* What the engine does once called.
Step ==
  \/ Observe \/ ObservePrevious \/ Enumerate \/ Emit \/ ReadCell \/ WriteCell \/ EvaluateChild \/ ReuseChild
  \/ ReturnNested \/ ReturnToQueue \/ ReturnToPlan
  \/ BodyFails \/ Pop \/ RunLimitExceeded \/ CycleRejected \/ Commit \/ InstallRoot

RootCall == \E R \in Root : Plan(R) \/ Run(R) \/ RemoveRoot(R)

\* The bound on calls is reached.
Done == call = Idle /\ calls = MaxCalls /\ UNCHANGED vars

CommandCall == \E c \in Commands : Command(c)
InstallCall == \E F \in Family : InstallFamily(F)
RemoveCall == \E F \in Family : RemoveFamily(F)

\* A call runs on its caller's thread until it returns, so Step is fair.
\* NextInstalled is the engine whose families stay.
NextInstalled == Step \/ RootCall \/ CommandCall \/ InstallCall \/ Done
InstalledSpec == Init /\ [][NextInstalled]_vars /\ WF_vars(Step)

Next == NextInstalled \/ RemoveCall
Spec == Init /\ [][Next]_vars /\ WF_vars(Step)

-----------------------------------------------------------------------------
(* Properties *)

\* The invocations that installed roots and families keep alive.
Attached ==
  UNION {Tree(rt, g) : g \in DOMAIN rt.ord \ DOMAIN rt.fams}
    \cup UNION {Tree(rt, id) : id \in {i \in DOMAIN rt.inv : /\ rt.inv[i].parent \in DOMAIN rt.fams
                                                            /\ ~rt.inv[i].retired}}

\* No family that was installed is gone.
FamiliesStay == \A F \in rt.reg : \E fam \in DOMAIN rt.fams : rt.fams[fam] = F

\* What effect n of an evaluation returned is what it would return now.
EffectHolds(i, n) ==
  LET op == Op(i.identity.fn, i.identity.input, SubSeq(i.trace, 1, n - 1)) IN
  CASE op.op = "observe" -> i.trace[n] = rt.live[op.fact].val
    [] op.op \in {"inputs", "keyset"} -> i.trace[n] = PresentIn(rt, op.view)
    [] op.op = "run" -> \E c \in i.children : /\ rt.inv[c].identity.fn = op.fn
                                              /\ rt.inv[c].identity.input = op.input
                                              /\ rt.inv[c].result = i.trace[n]
    [] OTHER -> TRUE

\* The last value an evaluation emitted for each fact.
Emitted(i) ==
  LET ops == [n \in DOMAIN i.trace |-> Op(i.identity.fn, i.identity.input, SubSeq(i.trace, 1, n - 1))]
      emits(f) == {n \in DOMAIN ops : ops[n].op = "emit" /\ ops[n].fact = f}
  IN [f \in {g \in Fact : emits(g) # {}} |-> ops[Max(emits(f))].val]

\* A committed state is a fixed point: replaying the body of any attached
\* invocation would read the same, call the same children with the same
\* results, return the same and publish exactly what the store holds for it
\* (T1), and the output cell of a root holds its result, whatever order the
\* dirty queue evaluated it in.  It holds until a family is removed:
\* remove_keyed wakes no reader.
FixedPoint ==
  call = Idle /\ FamiliesStay => \A id \in Attached :
    LET i == rt.inv[id] IN
    /\ \A n \in DOMAIN i.trace : EffectHolds(i, n)
    /\ LET end == Op(i.identity.fn, i.identity.input, i.trace) IN
       end.op = "return" /\ end.val = i.result
    /\ \A f \in DOMAIN Emitted(i) : Emitted(i)[f] # NoValue => rt.live[f].val = Emitted(i)[f]
    /\ \A R \in Root : plan[R].status = "running" /\ plan[R].token = id => sink[R] = i.result

\* Ownership is a bijection between calls: a fact's writers are the attached
\* invocations that list it, so retirement can always find what to retract
\* (the liveness audit, and T5).
OwnersAttached ==
  call = Idle => \A f \in Fact :
    rt.live[f].writers \ {External} = {id \in Attached : f \in rt.inv[id].writes}

RowsOf(r, id) == {w \in r.rows : w.id = id}

\* What an invocation the failure cut short had read when it was begun last.
CutShort(id) ==
  UNION {Rows(rt.inv[id].graph, id, stack[n].oldReads) : n \in {m \in DOMAIN stack : stack[m].id = id}}

\* A call fails, at once or after work.
Failing ==
  /\ call' = Idle /\ epoch' = epoch /\ plan' = plan
  /\ call.kind # "family" /\ rt'.reg = rt.reg /\ rt'.fams = rt.fams

\* A failed call leaves the facts, the installed graphs, and the record and
\* state of every attached invocation as it found them, and the dependency rows
\* of its reads in place; only the state of a nested invocation may be gone,
\* when the call had retired it.  No row is new but those of an invocation that
\* was cut short: rollback_txn drops the rows of what it had read so far, and
\* what it had read in an evaluation that the same call completed may stay.
FailureRestores ==
  [][Failing =>
       /\ rt'.live = before'.live
       /\ rt'.ord = before'.ord
       /\ \A id \in Attached' :
            /\ id \in DOMAIN before'.inv
            /\ rt'.inv[id] = before'.inv[id]
            /\ Rows(rt'.inv[id].graph, id, rt'.inv[id].reads) \subseteq RowsOf(rt', id)
            /\ RowsOf(rt', id) \subseteq RowsOf(before', id) \cup CutShort(id)
            /\ \/ CellOf(rt', id) = CellOf(before', id)
               \/ CellOf(rt', id) = NoValue /\ rt'.inv[id].parent # 0]_vars

\* The audit's converse: every dependency row is one of what its invocation
\* read last.
RowsJustified ==
  call = Idle => \A id \in Attached :
    RowsOf(rt, id) = Rows(rt.inv[id].graph, id, rt.inv[id].reads)

\* A Previous read held by an attached invocation is the fact's value at the
\* commit before the last one, if it had one then: the reader wakes one call
\* after the change, and calls that fail in between do not lose the wake.
\* (Installing or removing a family replaces last_changed and wakes nobody, so
\* this is about engines without families.)
PreviousCurrent ==
  call = Idle /\ rt.reg = {} => \A id \in Attached :
    LET i == rt.inv[id] IN
    \A n \in DOMAIN i.trace :
      LET op == Op(i.identity.fn, i.identity.input, SubSeq(i.trace, 1, n - 1)) IN
      op.op = "previous" /\ last.before[op.fact] # NoValue => i.trace[n] = last.before[op.fact]

\* A family has exactly one member for every key of its view between calls
\* ("an instance exists iff its key exists"), until a family is removed, which
\* schedules no other family.
FamilyMembership ==
  call = Idle /\ FamiliesStay => \A fam \in DOMAIN rt.fams : \A f \in Fact :
    ViewOf[f] = FamilyView[rt.fams[fam]] =>
      Cardinality(Members(rt, fam, f)) = IF Present(rt.live[f]) THEN 1 ELSE 0

\* Every call ends: the queue drains, a body fails, or the run limit is hit.
CallsReturn == (call # Idle) ~> (call = Idle)
=============================================================================
