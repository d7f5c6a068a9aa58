------------------------------ MODULE Recovery ------------------------------
(***************************************************************************)
(* Error recovery: the repair search of recovery.rs and the application,   *)
(* journalling and replay of repairs in parsing/session.rs and             *)
(* parsing/incremental.rs under src/src/framework/parse.  tail is the rest *)
(* of the token document, its end of input included.                       *)
(***************************************************************************)
EXTENDS Glr

MinRealShifts == 1

Insert(t) == [op |-> "insert", term |-> t]
Delete == [op |-> "delete", term |-> Eof]
Shift == [op |-> "shift", term |-> Eof]
ShiftAsError == [op |-> "error", term |-> Eof]

\* TokenTail::terminal
TerminalAt(tail, i) == IF i <= Len(tail) THEN tail[i].term ELSE Eof

-----------------------------------------------------------------------------
(* Stacks of states *)

LexLess(a, b) ==
  \/ \E i \in DOMAIN a \cap DOMAIN b : SubSeq(a, 1, i - 1) = SubSeq(b, 1, i - 1) /\ a[i] < b[i]
  \/ Len(a) < Len(b) /\ SubSeq(b, 1, Len(a)) = a

RECURSIVE StackPaths(_, _)
StackPaths(edges, node) ==
  LET out == {e \in ToSet(OutgoingEdges(edges, node)) : e.to # node}
  IN IF OutgoingEdges(edges, node) = <<>> THEN {<<node.state>>}
     ELSE {Append(path, node.state) : path \in UNION {StackPaths(edges, e.to) : e \in out}}

\* active_stack_paths: sorted and without duplicates
ActiveStackPaths(c, column) ==
  SetToSortSeq(UNION {StackPaths(c.edges, n) : n \in ToSet(c.cols[column].active)}, LexLess)

ReducedStacks(stack, t) ==
  LET cell == ActionSet(Last(stack), t)
      target(i) == LET p == cell[i].arg
                       keep == Len(stack) - Len(parser.productions[p].rhs)
                   IN IF cell[i].op # "reduce" \/ keep < 1 THEN <<>>
                      ELSE LET to == GotoState(stack[keep], parser.productions[p].lhs)
                           IN IF to = NoState THEN <<>> ELSE <<Append(SubSeq(stack, 1, keep), to)>>
  IN FlattenSeq([i \in DOMAIN cell |-> target(i)])

Accepts(stack, t) == \E i \in DOMAIN ActionSet(Last(stack), t) : ActionSet(Last(stack), t)[i].op = "accept"

\* compute_closed_stacks: the stacks no reduction on t leads on from
RECURSIVE Closing(_, _, _, _)
Closing(queue, seen, out, t) ==
  IF queue = <<>> THEN out
  ELSE LET stack == Head(queue)
           next == ReducedStacks(stack, t)
       IN IF stack \in seen THEN Closing(Tail(queue), seen, out, t)
          ELSE Closing(Tail(queue) \o next, seen \cup {stack},
                       IF next = <<>> \/ Accepts(stack, t) THEN Append(out, stack) ELSE out, t)
CloseStacks(stack, t) == Closing(<<stack>>, {}, <<>>, t)

RECURSIVE CanShiftSuffix(_, _, _, _)
CanShiftSuffix(tail, input, stack, remaining) ==
  \/ remaining = 0
  \/ \E closed \in ToSet(CloseStacks(stack, TerminalAt(tail, input))) :
       LET t == TerminalAt(tail, input) IN
       \/ Accepts(closed, t)
       \/ \E to \in ToSet(ShiftTargets(Last(closed), t)) :
            CanShiftSuffix(tail, input + 1, Append(closed, to),
                           IF t = ErrorTerminal THEN remaining ELSE remaining - 1)

-----------------------------------------------------------------------------
(* The repair search: a queue ordered by cost, then by arrival *)

Count(repairs, op) == Cardinality({i \in DOMAIN repairs : repairs[i].op = op})

\* SearchRecord::dominates and SearchScore::dominates
ScoreDominates(a, b) ==
  LET keys == <<Count(a, "error") - Count(b, "error"), Count(a, "shift") - Count(b, "shift"),
                Count(b, "delete") - Count(a, "delete"), Count(b, "insert") - Count(a, "insert")>>
      differ == {i \in DOMAIN keys : keys[i] # 0}
  IN differ # {} /\ keys[Min(differ)] > 0
Dominates(a, b) == a.cost < b.cost \/ (a.cost = b.cost /\ ScoreDominates(a.repairs, b.repairs))

Rank == [shift |-> 0, delete |-> 1, insert |-> 2, error |-> 3]

\* repairs_better: quality first, then the first repair that ranks differently
RepairsBetter(a, b) ==
  LET quality == <<Count(a, "shift") - Count(b, "shift"), Count(b, "error") - Count(a, "error"),
                   Count(b, "insert") - Count(a, "insert"), Count(b, "delete") - Count(a, "delete")>>
      differ == {i \in DOMAIN quality : quality[i] # 0}
      ranks == {i \in DOMAIN a \cap DOMAIN b : Rank[a[i].op] # Rank[b[i].op]}
  IN IF differ # {} THEN quality[Min(differ)] > 0
     ELSE ranks # {} /\ Rank[a[Min(ranks)].op] < Rank[b[Min(ranks)].op]

KeyOf(config) == <<config.stack, config.input>>

\* push_config
PushConfig(s, config) ==
  IF KeyOf(config) \in DOMAIN s.best /\ ~Dominates(config, s.best[KeyOf(config)]) THEN s
  ELSE [s EXCEPT !.best = (KeyOf(config) :> [cost |-> config.cost, repairs |-> config.repairs]) @@ @,
                 !.queue = Append(@, config)]

After(config, stack, used, repair, price) ==
  [stack |-> stack, input |-> config.input + used, repairs |-> Append(config.repairs, repair),
   cost |-> config.cost + price]

\* push_insert_neighbours and insert_terminals: every terminal but the end that
\* some stack closed under it can shift, in terminal order
InsertNeighbours(config, stack) ==
  LET closings == [i \in DOMAIN TerminalSeq |-> IF TerminalSeq[i] = Eof THEN <<>> ELSE CloseStacks(stack, TerminalSeq[i])]
      inserted(t, closed) == LET targets == ShiftTargets(Last(closed), t)
                             IN [k \in DOMAIN targets |-> After(config, Append(closed, targets[k]), 0, Insert(t), 1)]
  IN FlattenSeq([i \in DOMAIN closings |->
       FlattenSeq([k \in DOMAIN closings[i] |-> inserted(TerminalSeq[i], closings[i][k])])])

\* The configurations one repair away, in the order they are queued: shift,
\* shift as an error, insert, delete.
Neighbours(tail, config, stack) ==
  LET t == TerminalAt(tail, config.input)
      shifts == ShiftTargets(Last(stack), t)
      errors == IF t = Eof THEN <<>> ELSE ShiftTargets(Last(stack), ErrorTerminal)
  IN [i \in DOMAIN shifts |-> After(config, Append(stack, shifts[i]), 1, Shift, 0)]
     \o [i \in DOMAIN errors |-> After(config, Append(stack, errors[i]), 1, ShiftAsError, 1)]
     \o InsertNeighbours(config, stack)
     \o (IF t = Eof THEN <<>> ELSE <<After(config, stack, 1, Delete, 1)>>)

\* is_viable_completion
Viable(tail, config, closed) ==
  /\ config.repairs # <<>>
  /\ \E stack \in ToSet(closed) :
       \/ Accepts(stack, TerminalAt(tail, config.input))
       \/ CanShiftSuffix(tail, config.input, stack, MinRealShifts)

\* The solution kept is the better one; a tie keeps the first.
Solved(s, config) ==
  [s EXCEPT !.cost = IF s.repairs = <<>> THEN config.cost ELSE @,
            !.repairs = IF s.repairs = <<>> \/ RepairsBetter(config.repairs, @) THEN config.repairs ELSE @]

Expand(s, tail, config, closed) ==
  FoldLeft(PushConfig, s, FlattenSeq([i \in DOMAIN closed |-> Neighbours(tail, config, closed[i])]))

\* The next entry of the queue: least cost, and the first of those.
NextEntry(queue) ==
  CHOOSE i \in DOMAIN queue :
    /\ \A k \in DOMAIN queue : queue[i].cost <= queue[k].cost
    /\ \A k \in 1 .. i - 1 : queue[k].cost > queue[i].cost

RECURSIVE SearchRepairs(_, _)
SearchRepairs(s, tail) ==
  IF s.queue = <<>> THEN s
  ELSE LET i == NextEntry(s.queue)
           config == s.queue[i]
           popped == [s EXCEPT !.queue = RemoveAt(@, i)]
           closed == CloseStacks(config.stack, TerminalAt(tail, config.input))
       IN CASE s.repairs # <<>> /\ config.cost > s.cost -> s
            [] ~(s.repairs # <<>> /\ config.cost > s.cost) /\ s.best[KeyOf(config)] # [cost |-> config.cost, repairs |-> config.repairs] ->
                 SearchRepairs(popped, tail)
            [] OTHER -> IF Viable(tail, config, closed) THEN SearchRepairs(Solved(popped, config), tail)
                        ELSE SearchRepairs(Expand(popped, tail, config, closed), tail)

\* find_recovery: the repairs, none when there is no stack to repair
FindRecovery(c, column, tail) ==
  LET stacks == ActiveStackPaths(c, column)
      start == [queue |-> <<>>, best |-> <<>>, cost |-> 0, repairs |-> <<>>]
      seeded == FoldLeft(PushConfig, start,
                         [i \in DOMAIN stacks |-> [stack |-> stacks[i], input |-> 1, repairs |-> <<>>, cost |-> 0]])
  IN SearchRepairs(seeded, tail).repairs

-----------------------------------------------------------------------------
(* Applying repairs.  r is [c, at, witnesses, repairs]: the session, the    *)
(* next token of the tail, what has been witnessed and journalled.         *)

\* The terminal the column is reduced on before the repair, and the shift.
ReducesOn(repair, tok) ==
  CASE repair.op = "insert" -> repair.term [] repair.op = "shift" -> tok.term [] repair.op = "error" -> ErrorTerminal
Entered(d, column, repair, tok) ==
  CASE d.fail # NoFail -> d
    [] d.fail = NoFail /\ repair.op = "insert" -> ShiftSyntheticTerminal(d, column, repair.term, tok)
    [] OTHER -> ShiftParseToken(d, column, IF repair.op = "shift" THEN tok
                                           ELSE [tok EXCEPT !.term = ErrorTerminal, !.source = tok.term])
Repaired(c, column, repair, tok) ==
  IF repair.op = "delete" THEN DeleteParseToken(c, column, tok)
  ELSE Entered(ReduceUntilStable(c, column, ReducesOn(repair, tok), tok.occ), column, repair, tok)

ApplyTo(r, repair, tok) ==
  [c |-> Repaired(r.c, Len(r.c.cols), repair, tok), at |-> IF repair.op = "insert" THEN r.at ELSE r.at + 1,
   witnesses |-> Append(r.witnesses, <<tok.occ, tok.term>>), repairs |-> Append(r.repairs, <<repair, tok.occ>>)]

ApplyRepair(r, tail, repair) == IF r.c.fail # NoFail THEN r ELSE ApplyTo(r, repair, tail[r.at])

ApplyRepairs(c, tail, repairs) ==
  FoldLeft(LAMBDA r, repair : ApplyRepair(r, tail, repair), [c |-> c, at |-> 1, witnesses |-> <<>>, repairs |-> <<>>], repairs)

NotRecovered == -1

\* The plan is journalled at the column it started from, as the repairs left
\* it.  used counts the tokens consumed.
Journalled(r, column, trigger) ==
  IF r.c.fail # NoFail THEN [c |-> r.c, used |-> NotRecovered]
  ELSE [c |-> [r.c EXCEPT !.journal = (r.c.serial :> [anchor |-> trigger, frontier |-> r.c.cols[column],
                                                     witnesses |-> r.witnesses, repairs |-> r.repairs]) @@ @],
        used |-> r.at - 1]

\* recover_tokens: search, and apply what was found
Recovering(c, tail, trigger, repairs) ==
  IF repairs = <<>> THEN [c |-> c, used |-> NotRecovered]
  ELSE Journalled(ApplyRepairs([c EXCEPT !.serial = @ + 1], tail, repairs), Len(c.cols), trigger)

RecoverTokens(c, tail, trigger) == Recovering(c, tail, trigger, FindRecovery(c, Len(c.cols), tail))

-----------------------------------------------------------------------------
(* Reusing a journalled plan *)

\* Every witness is still in the document under its terminal.  The end of
\* input has no rank in the document, a lexical error no terminal of its own.
WitnessesHold(entry, doc) ==
  \A i \in DOMAIN entry.witnesses :
    \E k \in DOMAIN doc : doc[k].occ = entry.witnesses[i][1] /\ doc[k].term = entry.witnesses[i][2]
                            /\ doc[k].term # ErrorTerminal

\* Each repair lands on the token the plan named.
Aligned(entry, tail) ==
  \A i \in DOMAIN entry.repairs :
    LET probe == 1 + Cardinality({k \in 1 .. i - 1 : entry.repairs[k][1].op # "insert"})
    IN probe <= Len(tail) /\ tail[probe].occ = entry.repairs[i][2]

\* The journal without the entries of this trigger a witness has left.
DropDirty(c, doc, trigger) ==
  LET dirty == {s \in DOMAIN c.journal : c.journal[s].anchor = trigger /\ ~WitnessesHold(c.journal[s], doc)}
  IN [c EXCEPT !.journal = Restrict(@, DOMAIN @ \ dirty)]

ReusableEntries(c, doc, trigger, tail) ==
  {s \in DOMAIN c.journal :
     LET entry == c.journal[s] IN
     /\ entry.anchor = trigger /\ WitnessesHold(entry, doc) /\ Aligned(entry, tail)
     /\ ExactMatch(c.edges, Last(c.cols), entry.frontier)}

\* try_reuse_recovery_journal and replay_recovery_journal: a plan that still fits
\* is applied: the oldest here, the first of a hash map in the code (the runs
\* never have two that fit)
Replayed(r) == [c |-> r.c, used |-> IF r.c.fail # NoFail THEN NotRecovered ELSE r.at - 1]
ReplayJournal(kept, tail, plan) == Replayed(ApplyRepairs(kept, tail, [i \in DOMAIN plan |-> plan[i][1]]))
Reusing(kept, tail, usable) ==
  IF usable = {} THEN [c |-> kept, used |-> NotRecovered]
  ELSE ReplayJournal(kept, tail, kept.journal[Min(usable)].repairs)

TryReuseJournal(c, doc, trigger, tail) ==
  Reusing(DropDirty(c, doc, trigger), tail, ReusableEntries(c, doc, trigger, tail))

\* rollback_to the mark taken before the attempt
RollbackTo(c, mark) ==
  [c EXCEPT !.cols = mark.cols, !.diags = mark.diags, !.fail = NoFail,
            !.journal = Restrict(@, {s \in DOMAIN @ : s < mark.serial}),
            !.tokprod = Restrict(@, DOMAIN @ \cap {mark.cols[i].token : i \in DOMAIN mark.cols})]

\* One recovery attempt of the replay loop: the journal, then a search.  A search
\* that runs out of stacks is undone; a journalled plan that does ends the replay.
Settled(result, mark) ==
  IF result.c.fail = "stacks" THEN [c |-> RollbackTo(result.c, mark), used |-> NotRecovered] ELSE result
Search(reused, mark, tail, trigger) ==
  IF reused.used # NotRecovered \/ reused.c.fail # NoFail THEN reused
  ELSE Settled(RecoverTokens(reused.c, tail, trigger), mark)
Recover(c, doc, tail, trigger) == Search(TryReuseJournal(c, doc, trigger, tail), c, tail, trigger)
=============================================================================
