---------------------------- MODULE ParseReplay ----------------------------
(***************************************************************************)
(* Incremental parsing of one document: the replay plan, restart, replay   *)
(* and convergence of parsing/incremental.rs, the column bookkeeping of    *)
(* parsing/state.rs and the commands of parser.rs, under                   *)
(* src/src/framework/parse.                                                *)
(*                                                                         *)
(* doc is the token document: a sequence of [occ, term, source], without   *)
(* its end.  root is what the parser keeps of it: the sealed session c, the *)
(* document it parsed, the accepted roots, the diagnostics and the status. *)
(* A command splices the document and replays it; a replay that fails      *)
(* fails the command, and the document and the root stay as they were.     *)
(***************************************************************************)
EXTENDS Recovery

CONSTANTS Documents,    \* the documents that may be opened, as terminal sequences
          EditTerminals,\* what an edit may insert
          MaxTokens,    \* bound on the length of a document
          MaxEdits      \* bound on the edits of a behaviour

VARIABLES doc, root, nextOcc, edits, outcome

parseVars == <<parser, doc, root, nextOcc, edits, outcome>>

Token(occ, term) == [occ |-> occ, term |-> term, source |-> Eof]
EofToken == Token(EofOcc, Eof)
TokenAt(tokens, rank) == IF rank <= Len(tokens) THEN tokens[rank] ELSE EofToken

EmptySession ==
  [cols |-> <<>>, suffix |-> EmptySegment, gen |-> 0, edges |-> <<>>, tokprod |-> <<>>,
   diags |-> <<>>, journal |-> <<>>, serial |-> 0, fail |-> NoFail]

\* boundary_at_rank, for ranks from 1
BoundaryAt(tokens, rank) == Before(TokenAt(tokens, rank).occ)

-----------------------------------------------------------------------------
(* Session columns: the mutable prefix, then the retained segment *)

ColumnCount(c) == Len(c.cols) + c.suffix.length
HasColumnAt(c, i) == i \in DOMAIN c.cols \/ HasColumn(c.suffix, i - Len(c.cols))
ColumnAt(c, i) == IF i <= Len(c.cols) THEN c.cols[i] ELSE Column(c.suffix, i - Len(c.cols))

\* The mutable columns' own index answers first.
Either(own, kept, offset) ==
  CASE own # NoColumn -> own [] own = NoColumn /\ kept # NoColumn -> offset + kept [] OTHER -> NoColumn
ColumnForBoundary(c, boundary) ==
  Either(LastIndex(c.cols, LAMBDA column : column.boundary = boundary), BoundaryColumn(c.suffix, boundary), Len(c.cols))

\* SessionState::accepted
AcceptedRoots(c) ==
  CASE c.suffix.length > 0 -> c.suffix.accepted
    [] c.suffix.length = 0 /\ c.cols # <<>> -> Last(c.cols).accepted
    [] OTHER -> <<>>

\* Mutant: the restart column itself is not materialised.
EnsurePrefixExclusive(c, needed) ==
  LET take == Min({needed - 1 - Len(c.cols), c.suffix.length})
  IN IF needed - 1 <= Len(c.cols) \/ c.suffix.length = 0 THEN c
     ELSE [c EXCEPT !.cols = @ \o Materialize(Slice(c.suffix, 0, take)),
                    !.suffix = Slice(@, take, @.length)]

\* ensure_prefix: the first columns become mutable, the rest stays shared
EnsurePrefix(c, needed) ==
  LET take == Min({needed - Len(c.cols), c.suffix.length})
  IN IF needed <= Len(c.cols) \/ c.suffix.length = 0 THEN c
     ELSE [c EXCEPT !.cols = @ \o Materialize(Slice(c.suffix, 0, take)),
                    !.suffix = Slice(@, take, @.length)]

\* detach_suffix: the columns after the first `keep`, as a segment
DetachedSuffix(c, keep) ==
  CASE keep < Len(c.cols) -> Concat(FromColumns(SubSeq(c.cols, keep + 1, Len(c.cols))), c.suffix)
    [] keep >= Len(c.cols) /\ c.suffix.length > 0 ->
         Slice(c.suffix, Min({keep, ColumnCount(c)}) - Len(c.cols), c.suffix.length)
    [] OTHER -> EmptySegment

KeepPrefix(c, keep) == [c EXCEPT !.cols = SubSeq(@, 1, Min({keep, Len(@)})), !.suffix = EmptySegment]

\* The token products of the columns a replay keeps.
KeptTokenProducts(columns) ==
  LET holding == {i \in DOMAIN columns : HoldsTokenProduct(columns[i])}
  IN [occ \in {columns[i].token : i \in holding} |->
        Head(columns[CHOOSE i \in holding : columns[i].token = occ].products)]

\* truncate_to_column, with its assertion
TruncateToColumn(c, column) ==
  LET kept == SubSeq(c.cols, 1, column)
  IN IF column > Len(c.cols) THEN Fail(c, "panic")
     ELSE [c EXCEPT !.cols = [kept EXCEPT ![column] = ResetForReplay(@)], !.suffix = EmptySegment, !.gen = @ + 1,
                    !.diags = SelectSeq(@, LAMBDA info : info.location < column),
                    !.tokprod = KeptTokenProducts(kept)]

\* seal: the working columns become a segment before the retained one
Seal(c) ==
  [c EXCEPT !.suffix = Concat(FromColumns(c.cols), c.suffix), !.cols = <<>>, !.tokprod = <<>>]

-----------------------------------------------------------------------------
(* Where a replay starts *)

\* ReplayPlan::from_token_patch for a splice of one range.  old is the
\* document parsed last, start the tokens kept before the splice, reuse the
\* rank of the first token kept after it; an edit at the end keeps nothing.
Plan(known, old, new, start, keptAfter) ==
  [known |-> known, old |-> old, new |-> new, start |-> start,
   suffixLen |-> IF keptAfter = 0 THEN 0 ELSE keptAfter + 1,
   reuse |-> IF keptAfter = 0 THEN Len(new) + 2 ELSE Len(new) - keptAfter + 1]

\* The column of the last boundary at or before the splice.
RestartColumn(c, plan) ==
  LET columns == [k \in 1 .. plan.start + 1 |-> ColumnForBoundary(c, BoundaryAt(plan.old, k))]
      found == {k \in DOMAIN columns : columns[k] # NoColumn}
  IN IF ~plan.known \/ found = {} THEN 1 ELSE columns[Max(found)]

\* Recovery columns are not restarted from.
CleanUpTo(c, column) == {i \in 1 .. column : HasColumnAt(c, i) /\ ~ColumnAt(c, i).err}
RestartBoundary(c, plan) == Max({1} \cup CleanUpTo(c, RestartColumn(c, plan)))

\* Whether recovery made a column the replay would keep or restart from.
RecoveredBefore(c, plan) == CleanUpTo(c, RestartColumn(c, plan)) # 1 .. RestartColumn(c, plan)

\* How many columns stay when the old suffix is detached.
OldColumnBase(c, plan) ==
  LET at == ColumnForBoundary(c, BoundaryAt(plan.new, plan.reuse))
  IN IF plan.suffixLen > 0 /\ at # NoColumn THEN at - 1 ELSE ColumnCount(c)

\* The first command puts the start node into the first column.
Begin(c, plan) ==
  IF ColumnCount(c) > 0 THEN c
  ELSE [c EXCEPT !.cols = <<[NewColumn(NoToken, <<Node(StartState, 1, 0)>>) EXCEPT !.boundary = BoundaryAt(plan.new, 1)]>>]

\* The columns in place for the replay; the overlap of the detached suffix
\* with the restart column is put back.
Restarted(c, restart, base, detached) ==
  LET kept == KeepPrefix(c, base)
      keep == Min({restart - base, detached.length})
      overlap == IF base < restart THEN Materialize(Slice(detached, 0, keep)) ELSE <<>>
  IN TruncateToColumn([kept EXCEPT !.cols = @ \o overlap], restart)

-----------------------------------------------------------------------------
(* Convergence with the retained suffix *)

MapOf(pairs, product) ==
  IF \E q \in pairs : q[1] = product THEN (CHOOSE q \in pairs : q[1] = product)[2] ELSE product

\* bind_product: a retained product in terms of the current replay
RECURSIVE BindProduct(_, _, _, _)
BindProduct(product, pairs, c, old) ==
  CASE MapOf(pairs, product) # product -> MapOf(pairs, product)
    [] MapOf(pairs, product) = product /\ product.kind = "token" ->
         IF IsTokenProduct(old, product) /\ product.occ \in DOMAIN c.tokprod THEN c.tokprod[product.occ] ELSE product
    [] MapOf(pairs, product) = product /\ product.kind = "error" -> product
    [] OTHER -> [product EXCEPT !.children = [i \in DOMAIN @ |-> BindProduct(@[i], pairs, c, old)]]

\* Every reduction on the way can be built again.
RECURSIVE Rebuilds(_, _, _, _)
Rebuilds(product, pairs, c, old) ==
  \/ MapOf(pairs, product) # product \/ product.kind # "node"
  \/ /\ \A i \in DOMAIN product.children : Rebuilds(product.children[i], pairs, c, old)
     /\ BuildOk(product.production, BindProduct(product, pairs, c, old).children)

BindRoots(roots, pairs, c, old) == [i \in DOMAIN roots |-> BindProduct(roots[i], pairs, c, old)]

Attach(c, tail, roots) == [c EXCEPT !.suffix = AttachSeam(tail, roots)]

\* The retained columns the frontiers of which are compared, and what is
\* attached when they match.  maybe_reuse_suffix returns whether it attached.
NotReused(c) == [c |-> c, reused |-> FALSE]
Reused(c) == [c |-> c, reused |-> TRUE]

Rebound(c, old, tail, pairs, otherwise) ==
  IF \A i \in DOMAIN tail.raw : Rebuilds(tail.raw[i], pairs, c, old)
    THEN Reused(Attach(c, tail, BindRoots(tail.raw, pairs, c, old))) ELSE NotReused(otherwise)

\* match_state_frontiers: the LR configurations agree, the products differ
StateLevelReuse(c, old, at, current, oldColumn) ==
  IF SameConfiguration(c.edges, oldColumn.active, current.active)
    THEN Rebound(c, old, Slice(old, at, old.length), ProductPairs(c.edges, oldColumn.active, current.active), c)
    ELSE NotReused(c)

Frontier(edges, column) == Below(edges, ToSet(column.base) \cup ToSet(column.active))

\* The same nodes: the tail stays as it is.  Equal ones: its roots are bound.
ExactReuse(c, old, tail, current, oldColumn) ==
  IF Frontier(c.edges, current) = Frontier(c.edges, oldColumn) THEN Reused(Attach(c, tail, tail.accepted))
  ELSE Rebound(c, old, tail, {}, Fail(c, "build"))

ReuseAt(c, old, at, current, oldColumn, exact, ambiguous) ==
  CASE exact /\ ~ambiguous -> ExactReuse(c, old, Slice(old, at, old.length), current, oldColumn)
    [] ~exact /\ current.err # oldColumn.err -> NotReused(c)
    [] OTHER -> StateLevelReuse(c, old, at, current, oldColumn)

MeetingAt(c, old, at, current, oldColumn) ==
  ReuseAt(c, old, at, current, oldColumn, ExactMatch(c.edges, current, oldColumn),
          Ambiguous(c.edges, current) \/ Ambiguous(c.edges, oldColumn))

Meeting(c, old, at) ==
  IF at = NoColumn \/ at > old.length THEN NotReused(c) ELSE MeetingAt(c, old, at, Last(c.cols), Column(old, at))

MaybeReuseSuffix(c, plan, old, rank) ==
  IF rank < plan.reuse THEN NotReused(c) ELSE Meeting(c, old, BoundaryColumn(old, Last(c.cols).boundary))

-----------------------------------------------------------------------------
(* The replay loop *)

Tokens(plan) == Append(plan.new, EofToken)
Tail_(plan, rank) == SubSeq(Tokens(plan), rank, Len(plan.new) + 1)

\* A shift that fails for any reason but a lack of stacks is taken as done.
Swallow(c) == IF c.fail \in {"build", "goto"} THEN [c EXCEPT !.fail = NoFail] ELSE c

\* After a shift the end of input is reduced on once more.
Shifted(c, tok) ==
  IF tok.term = Eof THEN ReduceUntilStable(c, Len(c.cols), Eof, tok.occ) ELSE c

RECURSIVE ReplayFrom(_, _, _, _)
GoOn(c, plan, old, rank) == IF c.fail # NoFail THEN c ELSE ReplayFrom(c, plan, old, rank)

\* The token cannot be taken as it is: recovery, or the token is deleted.
ReplayRecovered(result, plan, old, rank, tok) ==
  IF result.c.fail = NoFail /\ result.used = NotRecovered
    THEN GoOn(DeleteParseToken(result.c, Len(result.c.cols), tok), plan, old, rank + 1)
    ELSE GoOn(result.c, plan, old, rank + result.used)

ShiftOrRecover(d, plan, old, rank, tok) ==
  IF d.fail = "stacks"
    THEN ReplayRecovered(Recover([d EXCEPT !.fail = NoFail], plan.new, Tail_(plan, rank), tok.occ), plan, old, rank, tok)
    ELSE GoOn(Shifted(d, tok), plan, old, rank + 1)
ReplayShift(c, plan, old, rank, tok) ==
  ShiftOrRecover(Swallow(ShiftParseToken(c, Len(c.cols), tok)), plan, old, rank, tok)

\* A lexical error goes through recovery before it is shifted.
ReplayError(result, plan, old, rank, tok) ==
  IF result.c.fail = NoFail /\ result.used = NotRecovered THEN ReplayShift(result.c, plan, old, rank, tok)
  ELSE GoOn(result.c, plan, old, rank + result.used)
ReplayToken(c, plan, old, rank, tok) ==
  IF tok.term = ErrorTerminal THEN ReplayError(Recover(c, plan.new, Tail_(plan, rank), tok.occ), plan, old, rank, tok)
  ELSE ReplayShift(c, plan, old, rank, tok)

ReplayUnmet(met, plan, old, rank, tok) ==
  IF \/ met.reused \/ met.c.fail # NoFail
     \/ tok.term = Eof /\ AcceptedRoots(met.c) # <<>>
    THEN met.c ELSE ReplayToken(met.c, plan, old, rank, tok)
ReplayReduced(d, plan, old, rank, tok) ==
  IF d.fail # NoFail THEN d ELSE ReplayUnmet(MaybeReuseSuffix(d, plan, old, rank), plan, old, rank, tok)

\* Mutant: a column keeps the first boundary it was given.
AtFirstBoundary(c, boundary) ==
  IF Last(c.cols).boundary # NoBoundary THEN c ELSE [c EXCEPT !.cols[Len(c.cols)].boundary = boundary]

AtBoundary(c, boundary) == [c EXCEPT !.cols[Len(c.cols)].boundary = boundary]
ReplayAt(c, plan, old, rank, tok) ==
  ReplayReduced(ReduceUntilStable(AtBoundary(c, BoundaryAt(plan.new, rank)), Len(c.cols), tok.term, tok.occ),
                plan, old, rank, tok)

ReplayFrom(c, plan, old, rank) ==
  IF rank > Len(plan.new) + 1 THEN c ELSE ReplayAt(c, plan, old, rank, Tokens(plan)[rank])

-----------------------------------------------------------------------------
(* A command *)

RECURSIVE ErrorsBelow(_)
ErrorsBelow(product) ==
  CASE product.kind = "error" -> {product.info}
    [] product.kind = "node" -> UNION {ErrorsBelow(product.children[i]) : i \in DOMAIN product.children}
    [] product.kind = "token" -> {}

\* collect_parse_diagnostics: the session's, and the errors under the roots
CollectDiagnostics(c, roots) == ToSet(c.diags) \cup UNION {ErrorsBelow(roots[i]) : i \in DOMAIN roots}

StatusOf(infos, roots) ==
  CASE infos = {} -> "clean"
    [] infos # {} /\ roots = <<>> -> "unrecovered"
    [] OTHER -> "recovered"

\* What parse_delta_batch makes of the session a replay ended in.
PublishedWith(c, plan, roots, infos) ==
  [c |-> Seal(c), tokens |-> plan.new, roots |-> roots, infos |-> infos, status |-> StatusOf(infos, roots),
   reused |-> c.suffix.length > 0, after |-> FALSE, from |-> "nothing", fail |-> c.fail]
Published(c, plan) ==
  PublishedWith(c, plan, AcceptedRoots(c), CollectDiagnostics(c, AcceptedRoots(c)))

BatchWith(c, plan, restart, base, old) ==
  Published(GoOn(Restarted(c, restart, base, old), plan, old, plan.start + 1), plan)
BatchAt(c, plan, restart, base) == BatchWith(c, plan, restart, base, DetachedSuffix(c, base))
BatchFrom(c, plan, restart) == BatchAt(c, plan, restart, OldColumnBase(c, plan))
BatchRestarting(c, plan, restart) == BatchFrom(EnsurePrefix(c, restart), plan, restart)
BatchBegun(c, plan) == BatchRestarting(c, plan, RestartBoundary(c, plan))
ParseDeltaBatch(session, plan) == BatchBegun(Begin(session, plan), plan)

\* A parse of the document from nothing.
FreshParse(tokens) == ParseDeltaBatch(EmptySession, Plan(FALSE, <<>>, tokens, 0, 0))

\* derive_token_delta: a replay that runs out of stacks is rebuilt from nothing.
\* from remembers what was replayed.
Derived(result, plan) ==
  IF result.fail = "stacks" THEN FreshParse(plan.new)
  ELSE [result EXCEPT !.from = IF root.from = "nothing" THEN root.status ELSE "replayed",
                      !.after = RecoveredBefore(Begin(root.c, plan), plan)]
DeriveTokenDelta(session, plan) == Derived(ParseDeltaBatch(session, plan), plan)

-----------------------------------------------------------------------------
(* The document and its commands *)

DocumentOf(terminals) == [i \in DOMAIN terminals |-> Token(i, terminals[i])]

Closed == [c |-> EmptySession, tokens |-> <<>>, roots |-> <<>>, infos |-> {}, status |-> "closed",
           reused |-> FALSE, after |-> FALSE, from |-> "nothing", fail |-> NoFail]
IsOpen == root.status # "closed"

Init ==
  /\ parser = BuildLR1
  /\ doc = <<>> /\ root = Closed /\ nextOcc = MaxTokens + 1 /\ edits = 0 /\ outcome = NoFail

\* A command that fails is undone: the document and the root stay.
Commit(tokens, result) ==
  /\ outcome' = result.fail
  /\ IF result.fail = NoFail THEN doc' = tokens /\ root' = result ELSE UNCHANGED <<doc, root>>

Open(terminals) ==
  /\ ~IsOpen
  /\ \E result \in {FreshParse(DocumentOf(terminals))} : Commit(DocumentOf(terminals), result)
  /\ UNCHANGED <<parser, nextOcc, edits>>

\* forget_document
Close ==
  /\ IsOpen /\ edits < MaxEdits
  /\ doc' = <<>> /\ root' = Closed /\ edits' = edits + 1 /\ outcome' = NoFail
  /\ UNCHANGED <<parser, nextOcc>>

\* The token document after `removed` tokens from start on gave way to new ones.
Spliced(start, removed, terminals) ==
  SubSeq(doc, 1, start) \o [i \in DOMAIN terminals |-> Token(nextOcc + i - 1, terminals[i])]
    \o SubSeq(doc, start + removed + 1, Len(doc))

Edit(start, removed, terminals) ==
  /\ IsOpen /\ edits < MaxEdits
  /\ start + removed <= Len(doc) /\ Len(doc) - removed + Len(terminals) <= MaxTokens
  /\ removed + Len(terminals) > 0
  /\ removed = 1 /\ Len(terminals) = 1 => terminals[1] # doc[start + 1].term
  /\ \E tokens \in {Spliced(start, removed, terminals)} :
       \E result \in {DeriveTokenDelta(root.c, Plan(TRUE, root.tokens, tokens, start, Len(doc) - start - removed))} :
         Commit(tokens, result)
  /\ edits' = edits + 1 /\ nextOcc' = nextOcc + Len(terminals)
  /\ UNCHANGED parser

EditTexts == {<<>>} \cup {<<t>> : t \in EditTerminals}

Next ==
  \/ \E terminals \in Documents : Open(terminals)
  \/ \E start \in 0 .. MaxTokens, removed \in 0 .. 1, terminals \in EditTexts : Edit(start, removed, terminals)
  \/ Close

Spec == Init /\ [][Next]_parseVars

-----------------------------------------------------------------------------
(* Properties *)

\* A product without the command that made it.
RECURSIVE Shape(_)
Shape(product) ==
  CASE product.kind = "token" -> <<"token", product.term, product.occ>>
    [] product.kind = "error" -> <<"error", product.info, product.occ>>
    [] product.kind = "node" -> <<"node", product.production, product.boundary,
                                  [i \in DOMAIN product.children |-> Shape(product.children[i])]>>

Shapes(roots) == {Shape(roots[i]) : i \in DOMAIN roots}

MatchesFresh(fresh) ==
  /\ Shapes(root.roots) = Shapes(fresh.roots)
  /\ root.status = fresh.status /\ root.infos = fresh.infos

\* A fresh parse, or the first replay of one: of a clean one, or of a recovered
\* one when the splice is before every recovery and the replay ran to the end.
Trusted ==
  /\ IsOpen
  /\ root.from \in {"nothing", "clean"} \/ (root.from = "recovered" /\ ~root.reused /\ ~root.after)

(* The first incremental replay of a cleanly parsed document publishes what *)
(* a parse of the edited document from nothing publishes: the same trees    *)
(* over the same tokens, the same diagnostics, the same status.  It holds   *)
(* whether the replay ran to the end, rebound a retained suffix or went     *)
(* through recovery (parse_delta_batch and maybe_reuse_suffix).             *)
ReplayExact == Trusted => \E fresh \in {FreshParse(doc)} : MatchesFresh(fresh)

(* The same, after any edits of any document: what the tests of the         *)
(* repository ask of every edit.                                            *)
ReplayMatchesFresh == IsOpen => \E fresh \in {FreshParse(doc)} : MatchesFresh(fresh)

\* The trees of a symbol over the tokens i + 1 .. j, by the grammar alone.
RECURSIVE Derivations(_, _, _, _), SequenceDerivations(_, _, _, _)
Derivations(tokens, symbol, i, j) ==
  IF symbol \in Terminals
    THEN IF j = i + 1 /\ tokens[j].term = symbol THEN {<<"token", symbol, tokens[j].occ>>} ELSE {}
    ELSE UNION {{<<"node", p, IF children = <<>> THEN TokenAt(tokens, i + 1).occ ELSE NoAnchor, children>> :
                   children \in SequenceDerivations(tokens, parser.productions[p].rhs, i, j)} :
                p \in ProductionIdsByLhs(parser.productions, symbol)}
SequenceDerivations(tokens, symbols, i, j) ==
  IF symbols = <<>> THEN IF i = j THEN {<<>>} ELSE {}
  ELSE UNION {UNION {{<<first>> \o rest : rest \in SequenceDerivations(tokens, Tail(symbols), k, j)} :
                     first \in Derivations(tokens, Head(symbols), i, k)} :
              k \in {m \in i .. j : /\ m > i \/ Head(symbols) \in parser.nullable
                                    /\ m < j \/ ToSet(Tail(symbols)) \subseteq parser.nullable}}

Parses(tokens) == Derivations(tokens, StartSymbol, 0, Len(tokens))

(* A document without lexical errors is clean exactly when the grammar      *)
(* derives it, and its roots are then all its derivations and no other: the *)
(* tables, the reductions to a fixed point and the suffix reuse lose no     *)
(* ambiguity and invent no tree (build_lr1, reduce_until_stable).           *)
ParsesExactly ==
  Trusted /\ (\A k \in DOMAIN doc : doc[k].term # ErrorTerminal) =>
    \E trees \in {Parses(doc)} :
      /\ (root.status = "clean") = (trees # {})
      /\ root.status = "clean" => Shapes(root.roots) = trees

RECURSIVE Leaves(_)
Leaves(product) ==
  IF product.kind # "node" THEN <<product>>
  ELSE FlattenSeq([i \in DOMAIN product.children |-> Leaves(product.children[i])])

\* The occurrences of the document's tokens under a root, in order.
Occs(s) == [i \in DOMAIN s |-> s[i].occ]
OccsUnder(product) ==
  Occs(SelectSeq(Leaves(product), LAMBDA leaf : leaf.kind = "token" \/ leaf.info.what = "unexpected"))

(* No token is lost silently: under every root the document's tokens stand  *)
(* once each and in order, but for as many as diagnostics report deleted    *)
(* (delete_parse_token, apply_repair, collect_parse_diagnostics).           *)
NothingLost ==
  Trusted => \A i \in DOMAIN root.roots :
    LET under == OccsUnder(root.roots[i])
        deleted == {info \in root.infos : info.what = "unexpected"} \ ErrorsBelow(root.roots[i])
    IN /\ under = SelectSeq(Occs(doc), LAMBDA occ : occ \in ToSet(under))
       /\ Len(doc) = Len(under) + Cardinality(deleted)

(* A boundary leads to the column that has consumed the tokens before it,   *)
(* no more and no fewer, through every cut and join of the retained         *)
(* segments (column_for_boundary): this is where the next replay restarts.  *)
(* A clean document has a column for every boundary.                        *)
BoundariesExact ==
  Trusted => \A k \in 1 .. Len(doc) + 1 :
    LET at == ColumnForBoundary(root.c, Before(TokenAt(doc, k).occ)) IN
    /\ root.status = "clean" => at # NoColumn
    /\ at # NoColumn =>
         {ColumnAt(root.c, i).token : i \in 1 .. at} \ {NoToken, EofOcc} = {doc[i].occ : i \in 1 .. k - 1}

(* Under a grammar with an error rule every command succeeds, without a     *)
(* panic and without an unbuildable reduction, and publishes a root,        *)
(* whatever the document and the edit (find_recovery, truncate_to_column).  *)
AlwaysRecovers == outcome = NoFail /\ (IsOpen => root.roots # <<>>)
=============================================================================
