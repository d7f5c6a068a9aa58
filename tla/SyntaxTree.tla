----------------------------- MODULE SyntaxTree -----------------------------
(***************************************************************************)
(* What a parser command does with the trees it accepted                   *)
(* (parsing/incremental.rs, delta.rs, component.rs): reachability from the *)
(* accepted roots, the settling of identities, the frozen delta and the    *)
(* child orders that publication keeps.                                    *)
(*                                                                         *)
(* How the roots come about is ParseReplay's subject.  Here a replay is    *)
(* its effect on the arenas: left to right, every reduction the grammar    *)
(* allows ending at a column, through the reduction cache, over the token  *)
(* products kept before the splice and, when the suffix was reused, after  *)
(* it.  An unexpected token is skipped; a recovery attempt that failed     *)
(* there built its reductions under a mark and took their identities back. *)
(***************************************************************************)
EXTENDS Lineage, TLC

CONSTANTS
  Rules,        \* sequence of [lhs, rhs, before, after]: the terminals a reduction sits between
  Start,        \* the start symbol
  Unexpected,   \* a terminal no rule mentions
  Documents,    \* the documents a command may produce, as sequences of terminals
  MaxInsert,    \* bound: tokens a splice inserts
  MaxCommands   \* bound: parser commands

VARIABLES
  doc,      \* the token document: sequence of [term, occ]
  nextOcc,  \* the last occurrence id given out
  session,  \* arena, parent, ln, gen, tokprod (token product per occurrence), chart, at
  facts,    \* ParserTreeFacts and the accepted roots
  delta,    \* the ParseDelta of the last command
  commands  \* how many commands ran

vars == <<doc, nextOcc, session, facts, delta, commands>>

Idle == -1   \* session.at between commands; otherwise the column the replay is at
arena == session.arena
ln == session.ln

-----------------------------------------------------------------------------
(* The replay *)

Bof == "bof"
Eof == "eof"

TermBefore(input, lo) == IF lo = 0 THEN Bof ELSE input[lo].term
TermAfter(input, hi) == IF hi = Len(input) THEN Eof ELSE input[hi + 1].term
OccAfter(input, hi) == IF hi = Len(input) THEN 0 ELSE input[hi + 1].occ

Item(symbol, lo, hi, product) == [symbol |-> symbol, lo |-> lo, hi |-> hi, product |-> product]

Include(seq, x) == IF Contains(seq, x) THEN seq ELSE Append(seq, x)

\* The ways to read rhs off the chart up to column hi: the products and where they start.
RECURSIVE Ways(_, _, _)
Ways(chart, rhs, hi) ==
  LET last == SelectSeq(chart, LAMBDA item : item.hi = hi /\ item.symbol = rhs[Len(rhs)])
      through(item) == LET ways == Ways(chart, Front(rhs), item.lo)
                       IN [k \in DOMAIN ways |-> [ways[k] EXCEPT !.products = Append(@, item.product)]]
  IN IF rhs = <<>> THEN <<[lo |-> hi, products |-> <<>>]>>
     ELSE FlattenSeq([i \in DOMAIN last |-> through(last[i])])

\* reduce_cached.  Only an empty reduction is keyed by its boundary.
Cached(c, production, children, boundary) ==
  {p \in DOMAIN c.arena : /\ c.arena[p].kind = "node" /\ c.arena[p].production = production
                          /\ c.arena[p].children = children
                          /\ children = <<>> => c.arena[p].extent = PointSpan(boundary)}

ReduceCached(c, production, children, boundary) ==
  IF Cached(c, production, children, boundary) # {} THEN c
  ELSE AllocNode(c, production, Rules[production].lhs, children, boundary)

Added(before, c, production, way, hi, boundary) ==
  LET product == CHOOSE p \in Cached(c, production, way.products, boundary) : TRUE
  IN [c EXCEPT !.chart = Include(before.chart, Item(Rules[production].lhs, way.lo, hi, product))]

ReduceAlong(c, production, way, hi, boundary) ==
  Added(c, ReduceCached(c, production, way.products, boundary), production, way, hi, boundary)

ReducePass(c, hi, input) ==
  LET rule(d, p) ==
        LET ways == SelectSeq(Ways(d.chart, Rules[p].rhs, hi),
                              LAMBDA way : TermBefore(input, way.lo) \in Rules[p].before)
        IN IF TermAfter(input, hi) \notin Rules[p].after THEN d
           ELSE FoldLeft(LAMBDA e, way : ReduceAlong(e, p, way, hi, OccAfter(input, hi)), d, ways)
  IN FoldLeft(rule, c, [p \in DOMAIN Rules |-> p])

RECURSIVE ReduceUntilStable(_, _, _)
ReduceMore(before, after, hi, input) == IF after = before THEN after ELSE ReduceUntilStable(after, hi, input)
ReduceUntilStable(c, hi, input) == ReduceMore(c, ReducePass(c, hi, input), hi, input)

\* rollback_to: identities and columns go back, the arenas and the cache do not
TakenBack(c, tried) == [tried EXCEPT !.ln = Rollback(@, Mark(c.ln)), !.chart = c.chart]
Attempted(c, hi, input) == TakenBack(c, ReduceUntilStable(c, hi, input))

ShiftToken(c, hi, token) ==
  LET shifted == IF token.occ \in DOMAIN c.tokprod THEN c
                 ELSE [AllocToken(c, token.term, token.occ) EXCEPT !.tokprod = Put(@, token.occ, Len(c.arena) + 1)]
  IN [shifted EXCEPT !.chart = Append(@, Item(token.term, hi - 1, hi, shifted.tokprod[token.occ]))]

AcceptedRoots(c, input) ==
  LET whole == SelectSeq(c.chart, LAMBDA item : item.symbol = Start /\ item.lo = 0 /\ item.hi = Len(input))
  IN [i \in DOMAIN whole |-> whole[i].product]

-----------------------------------------------------------------------------
(* Reachability from the accepted roots *)

Count(counts, product) == IF product \in DOMAIN counts THEN counts[product] ELSE 0
Adjusted(counts, product, by) ==
  LET count == Count(counts, product) + by
  IN IF count = 0 THEN Without(counts, {product}) ELSE Put(counts, product, count)

AddPending(pending, products, by) == FoldLeft(LAMBDA q, p : Adjusted(q, p, by), pending, products)

\* A product is visited after every product that can reach it.
NextPending(pending) == CHOOSE p \in DOMAIN pending : \A q \in DOMAIN pending : q <= p

Journaled(journal, record, before, after) ==
  Put(journal, record, [before |-> IF record \in DOMAIN journal THEN journal[record].before ELSE before,
                        after |-> after])

\* Mutant: children are adopted and never released.
CrossesUp(before, by) == before = 0

\* Children are adopted when a product is first reached and released with its last.
Crosses(before, by) == (before = 0) # (before + by = 0)

Visit(s, tree, product) ==
  LET by == s.pending[product]
      before == Count(s.counts, product)
      taken == [s EXCEPT !.pending = Without(@, {product}), !.counts = Adjusted(@, product, by)]
      sign == IF before = 0 THEN 1 ELSE -1
  IN CASE before + by < 0 -> [s EXCEPT !.valid = FALSE]
       [] before + by >= 0 /\ ~Crosses(before, by) -> taken
       [] OTHER -> [taken EXCEPT !.pending = AddPending(@, tree[product].children, sign),
                                 !.journal = IF tree[product].kind = "token" THEN @
                                             ELSE Journaled(@, product, IF sign = 1 THEN 0 ELSE 1, IF sign = 1 THEN 1 ELSE 0)]

RECURSIVE Propagate(_, _)
Propagate(s, tree) ==
  IF s.pending = <<>> \/ ~s.valid THEN s ELSE Propagate(Visit(s, tree, NextPending(s.pending)), tree)

ApplyAcceptedRootDelta(counts, before, after, tree) ==
  Propagate([pending |-> AddPending(AddPending(<<>>, before, -1), after, 1),
             counts |-> counts, journal |-> <<>>, valid |-> TRUE], tree)

\* slow_accepted_root_reach: the reachable products with their roots and edges
RECURSIVE ReachableFrom(_, _)
ReachableFrom(products, tree) ==
  LET more == products \cup UNION {ToSet(tree[p].children) : p \in products}
  IN IF more = products THEN products ELSE ReachableFrom(more, tree)

Occurrences(seq, x) == Cardinality({i \in DOMAIN seq : seq[i] = x})
SlowReach(roots, tree) ==
  LET reached == ReachableFrom(ToSet(roots), tree)
  IN [p \in reached |-> Occurrences(roots, p) +
        MapThenSumSet(LAMBDA q : Occurrences(tree[q].children, p), reached)]

-----------------------------------------------------------------------------
(* The frozen delta *)

Signature(tree, record) == <<tree[record].green, tree[record].extent>>

\* ordered_splice, common_edges: the changed middle between the retained neighbours
CommonPrefix(old, new) ==
  LET same == {n \in 0 .. Len(old) : n <= Len(new) /\ SubSeq(old, 1, n) = SubSeq(new, 1, n)}
  IN CHOOSE n \in same : \A m \in same : m <= n
CommonSuffix(old, new, prefix) ==
  LET same == {n \in 0 .. Len(old) - prefix : n <= Len(new) - prefix /\
                 SubSeq(old, Len(old) - n + 1, Len(old)) = SubSeq(new, Len(new) - n + 1, Len(new))}
  IN CHOOSE n \in same : \A m \in same : m <= n
SpliceBetween(old, new, prefix, suffix) ==
  [before |-> IF prefix = 0 THEN 0 ELSE new[prefix],
   removed |-> SubSeq(old, prefix + 1, Len(old) - suffix),
   inserted |-> SubSeq(new, prefix + 1, Len(new) - suffix),
   after |-> IF suffix = 0 THEN 0 ELSE new[Len(new) - suffix + 1]]
OrderedSplice(old, new) ==
  SpliceBetween(old, new, CommonPrefix(old, new), CommonSuffix(old, new, CommonPrefix(old, new)))

\* The identities of a record's children, in order, the unknown ones left out.
ChildLineages(l, tree, record) ==
  LET children == DirectChildRecords(tree, record)
  IN SelectSeq([i \in DOMAIN children |-> Resolved(l, children[i])], LAMBDA lineage : lineage # 0)

\* The parents of what was touched, and every newly reached record, with their bearers.
TouchedParents(f) ==
  {f.parent[r] : r \in (f.inserted \cup f.removed) \cap DOMAIN f.parent}

\* Mutant: only parents of inserted and removed records are looked at.
CandidatesNoted(f) ==
  LET noted == {Resolved(f.ln, p) : p \in TouchedParents(f)} \cap DOMAIN f.ln.holders
  IN {<<lineage, f.ln.holders[lineage]>> : lineage \in noted}

CandidateParents(f) ==
  LET noted == {Resolved(f.ln, p) : p \in TouchedParents(f)} \cap DOMAIN f.ln.holders
      seeded == {r \in f.inserted : Resolved(f.ln, r) \in DOMAIN f.ln.holders /\ f.ln.holders[Resolved(f.ln, r)] = r}
  IN {<<lineage, f.ln.holders[lineage]>> : lineage \in noted} \cup {<<Resolved(f.ln, r), r>> : r \in seeded}

\* A record that took over a dead one's identity, and is not just the same again.
UpdatedRecords(f) ==
  {r \in f.inserted \cap DOMAIN f.ln.inherited :
     /\ f.ln.inherited[r] \notin f.live \/ f.ln.inherited[r] = r
     /\ Signature(f.arena, f.ln.inherited[r]) # Signature(f.arena, r)}

\* Mutant: everything newly reached counts as inserted.
ReachedRecords(f) == f.inserted

InsertedRecords(f) == {r \in (f.inserted \ DOMAIN f.ln.inherited) : r \in DOMAIN f.ln.of}
Carriers(f) == {f.ln.of[r] : r \in InsertedRecords(f) \cup (f.inserted \cap DOMAIN f.ln.inherited)}
RemovedKey(f, record) ==
  CASE record \in DOMAIN f.lineages -> f.lineages[record]
    [] record \notin DOMAIN f.lineages /\ record \in DOMAIN f.ln.died -> f.ln.died[record]
    [] OTHER -> 0
RemovedKeys(f) == {RemovedKey(f, r) : r \in f.removed} \ (Carriers(f) \cup {0})

\* One splice per parent: an updated record against its predecessor, any other
\* touched parent against the order last published.
UpdateSplices(f) ==
  {[parent |-> Resolved(f.ln, r), delta |-> OrderedSplice(ChildLineages(f.ln, f.arena, f.ln.inherited[r]),
                                                          ChildLineages(f.ln, f.arena, r))] :
     r \in {u \in UpdatedRecords(f) :
              ChildLineages(f.ln, f.arena, f.ln.inherited[u]) # ChildLineages(f.ln, f.arena, u)}}
RetainedSplices(f, spliced) ==
  {[parent |-> c[1], delta |-> OrderedSplice(f.orders[c[1]], ChildLineages(f.ln, f.arena, c[2]))] :
     c \in {d \in CandidateParents(f) : /\ d[1] \in DOMAIN f.orders /\ d[1] \notin {s.parent : s \in spliced}
                                        /\ f.orders[d[1]] # ChildLineages(f.ln, f.arena, d[2])}}
ChildSplices(f) == LET updates == UpdateSplices(f) IN updates \cup RetainedSplices(f, updates)

OrdersOf(l, tree, bearers) ==
  [lineage \in {b[1] : b \in bearers} |-> ChildLineages(l, tree, (CHOOSE b \in bearers : b[1] = lineage)[2])]
NextChildOrders(f) ==
  LET bearers == IF f.orders = <<>> THEN {<<Resolved(f.ln, r), r>> : r \in f.live} ELSE CandidateParents(f)
  IN Without(OrdersOf(f.ln, f.arena, bearers) @@ f.orders, RemovedKeys(f))

RootDelta(old, new) == IF old = new THEN <<>> ELSE <<old, new>>

ParseDelta(f, root) ==
  [records |-> [inserted |-> f.inserted, removed |-> f.removed],
   inserted |-> {f.ln.of[r] : r \in InsertedRecords(f)},
   updated |-> {f.ln.of[r] : r \in UpdatedRecords(f)},
   removed |-> RemovedKeys(f),
   insertedRecords |-> {<<f.ln.of[r], r>> : r \in InsertedRecords(f)},
   splices |-> ChildSplices(f),
   orders |-> NextChildOrders(f),
   roots |-> RootDelta(IF f.root \in DOMAIN f.lineages THEN f.lineages[f.root] ELSE 0,
                       IF root = 0 THEN 0 ELSE Resolved(f.ln, root))]

-----------------------------------------------------------------------------
(* The child orders publication keeps *)

\* A splice applies between its anchors in the order published last.
Position(order, lineage, default) ==
  IF lineage = 0 THEN default ELSE CHOOSE i \in DOMAIN order : order[i] = lineage
From(order, splice) == Position(order, splice.before, 0)
To(order, splice) == Position(order, splice.after, Len(order) + 1)
Applies(order, splice) ==
  /\ {splice.before, splice.after} \subseteq ToSet(order) \cup {0}
  /\ From(order, splice) < To(order, splice)
Applied(order, splice) ==
  SubSeq(order, 1, From(order, splice)) \o splice.inserted \o SubSeq(order, To(order, splice), Len(order))

BuildPublishedChildOrders(previous, d, l, tree) ==
  LET spliced == {s \in d.splices : s.parent \in DOMAIN previous /\ Applies(previous[s.parent], s.delta)}
      middle == [lineage \in {s.parent : s \in spliced} |->
                   Applied(previous[lineage], (CHOOSE s \in spliced : s.parent = lineage).delta)]
  IN middle @@ OrdersOf(l, tree, d.insertedRecords) @@ Without(previous, d.removed)

-----------------------------------------------------------------------------
(* One parser command *)

NoFacts == [roots |-> <<>>, root |-> 0, counts |-> <<>>, live |-> {}, lineages |-> <<>>,
            orders |-> <<>>, published |-> <<>>, valid |-> TRUE]
NoDelta == [records |-> [inserted |-> {}, removed |-> {}], inserted |-> {}, updated |-> {}, removed |-> {},
            insertedRecords |-> {}, splices |-> {}, orders |-> <<>>, roots |-> <<>>]

NoSession == [arena |-> <<>>, parent |-> <<>>, ln |-> EmptyLineage, gen |-> 0, tokprod |-> <<>>,
              chart |-> <<>>, at |-> Idle]

Init == doc = <<>> /\ nextOcc = 0 /\ session = NoSession /\ facts = NoFacts /\ delta = NoDelta /\ commands = 0

\* The document was closed: forget_document drops all the parser holds of it.
Close ==
  /\ session.at = Idle /\ doc # <<>>
  /\ doc' = <<>> /\ nextOcc' = 0 /\ session' = NoSession /\ facts' = NoFacts /\ delta' = NoDelta
  /\ UNCHANGED commands

\* Tokens lo + 1 .. hi give way to terms, under new occurrence ids.
Spliced(lo, hi, terms) ==
  SubSeq(doc, 1, lo) \o [i \in DOMAIN terms |-> [term |-> terms[i], occ |-> nextOcc + i]]
    \o SubSeq(doc, hi + 1, Len(doc))
Terms(tokens) == [i \in DOMAIN tokens |-> tokens[i].term]
OccsOf(tokens) == {tokens[i].occ : i \in DOMAIN tokens}

\* The command begins: token products before the splice stay, and after it when
\* the suffix will be reused.
BeginReplay(lo, hi, terms, reuse) ==
  /\ session.at = Idle /\ commands < MaxCommands
  /\ Terms(Spliced(lo, hi, terms)) \in Documents
  /\ doc' = Spliced(lo, hi, terms)
  /\ nextOcc' = nextOcc + Len(terms)
  /\ LET kept == OccsOf(SubSeq(doc, 1, lo)) \cup (IF reuse THEN OccsOf(SubSeq(doc, hi + 1, Len(doc))) ELSE {})
     IN session' = [session EXCEPT !.ln = BeginCommand(@), !.gen = @ + 1, !.at = 0,
                                   !.tokprod = [occ \in DOMAIN @ \cap kept |-> @[occ]]]
  /\ UNCHANGED <<facts, delta, commands>>

Open == \E document \in Documents : doc = <<>> /\ BeginReplay(0, 0, document, FALSE)

Terminals == UNION {ToSet(document) : document \in Documents}
Insertions == UNION {[1 .. n -> Terminals] : n \in 0 .. MaxInsert}

Edit ==
  \E lo \in 0 .. Len(doc) : \E hi \in lo .. Len(doc) : \E terms \in Insertions, reuse \in BOOLEAN :
    /\ doc # <<>>
    /\ lo < hi \/ terms # <<>>
    /\ hi = Len(doc) => ~reuse
    /\ BeginReplay(lo, hi, terms, reuse)

\* The tokens the replay shifts: recovery deletes the unexpected ones.
Input == SelectSeq(doc, LAMBDA token : token.term # Unexpected)
ErrorColumns ==
  {Cardinality({k \in 1 .. i : doc[k].term # Unexpected}) : i \in {k \in DOMAIN doc : doc[k].term = Unexpected}}

Shifted(c, hi, input) == IF hi = 0 THEN c ELSE ShiftToken(c, hi, input[hi])

ReplayColumn ==
  /\ session.at \in 0 .. Len(Input)
  /\ \E input \in {Input} : \E c \in {Shifted(session, session.at, input)} :
     \E start \in {c} \cup (IF c.at \in ErrorColumns THEN {Attempted(c, c.at, input)} ELSE {}) :
       session' = [ReduceUntilStable(start, c.at, input) EXCEPT !.at = @ + 1]
  /\ UNCHANGED <<doc, nextOcc, facts, delta, commands>>

CommitTree(d, l, roots, reach, live, inserted, removed) ==
  /\ session' = [session EXCEPT !.ln = l, !.at = Idle, !.chart = <<>>]
  /\ delta' = d
  /\ facts' = [roots |-> roots, root |-> IF roots = <<>> THEN 0 ELSE roots[1], counts |-> reach.counts,
               live |-> live, valid |-> reach.valid, orders |-> d.orders,
               lineages |-> [r \in inserted \cap DOMAIN l.of |-> l.of[r]] @@ Without(facts.lineages, removed),
               published |-> BuildPublishedChildOrders(facts.published, d, l, arena)]

\* freeze_parse_delta and what follows it in the command, publication included
Freeze ==
  /\ session.at = Len(Input) + 1
  /\ \E roots \in {AcceptedRoots(session, Input)} :
     \E reach \in {ApplyAcceptedRootDelta(facts.counts, facts.roots, roots, arena)} :
     \E inserted \in {{r \in DOMAIN reach.journal : reach.journal[r].before = 0 /\ reach.journal[r].after > 0}},
        removed \in {{r \in DOMAIN reach.journal : reach.journal[r].before > 0 /\ reach.journal[r].after = 0}} :
     \E live \in {(facts.live \cup inserted) \ removed} :
     \E l \in {Settle(ln, arena, session.parent, live, inserted, removed)} :
     \E f \in {[arena |-> arena, parent |-> session.parent, ln |-> l, live |-> live, inserted |-> inserted,
                removed |-> removed, lineages |-> facts.lineages, orders |-> facts.orders, root |-> facts.root]} :
     \E d \in {ParseDelta(f, IF roots = <<>> THEN 0 ELSE roots[1])} :
       CommitTree(d, l, roots, reach, live, inserted, removed)
  /\ commands' = commands + 1
  /\ UNCHANGED <<doc, nextOcc>>

Next == Open \/ Edit \/ ReplayColumn \/ Freeze \/ Close

Spec == Init /\ [][Next]_vars

-----------------------------------------------------------------------------
(* Resolving a node against the current document *)

\* Tokens are one unit long and adjacent, so the token of rank k is k - 1 .. k.
RankOf(occ) == CHOOSE k \in DOMAIN doc : doc[k].occ = occ
CoordinateAt(occ) == IF occ \in OccsOf(doc) THEN RankOf(occ) - 1 ELSE Len(doc)
SpanForExtent(extent) ==
  LET start == CoordinateAt(extent.start)
      end == CoordinateAt(extent.end) + (IF extent.closed /\ extent.end \in OccsOf(doc) THEN 1 ELSE 0)
  IN IF start <= end THEN <<start, end>> ELSE <<end, start>>

RECURSIVE Yield(_, _)
Yield(tree, p) ==
  IF tree[p].kind = "token" THEN <<tree[p].extent.start>>
  ELSE FlattenSeq([i \in DOMAIN tree[p].children |-> Yield(tree, tree[p].children[i])])

-----------------------------------------------------------------------------
(* Properties *)

\* The counts a command carries over by the difference of its roots are those a
\* walk from the accepted roots finds, so a record is live exactly while some
\* accepted tree holds it (apply_accepted_root_delta against its slow oracle).
ReachExact ==
  /\ facts.valid
  /\ facts.counts = SlowReach(facts.roots, arena)
  /\ facts.live = {p \in DOMAIN facts.counts : arena[p].kind = "node"}

\* Between commands every live record carries an identity no other live record
\* carries, the holder table names exactly the live bearers, and the facts
\* publication reads agree with it (validate_settled).
LineageSettled ==
  session.at = Idle =>
    /\ facts.live \subseteq DOMAIN ln.of
    /\ \A r, s \in facts.live : ln.of[r] = ln.of[s] => r = s
    /\ ln.holders = [lineage \in {ln.of[r] : r \in facts.live} |-> CHOOSE r \in facts.live : ln.of[r] = lineage]
    /\ facts.lineages = [r \in facts.live |-> ln.of[r]]

\* The child order kept for every live identity, in the parser's facts and in
\* publication, is the order of the children in the accepted tree.
OrdersExact ==
  session.at = Idle =>
    \A r \in facts.live :
      /\ ln.of[r] \in DOMAIN facts.orders \cap DOMAIN facts.published
      /\ facts.orders[ln.of[r]] = ChildLineages(ln, arena, r)
      /\ facts.published[ln.of[r]] = ChildLineages(ln, arena, r)

Keys(tree) == {tree.lineages[r] : r \in DOMAIN tree.lineages}

\* The delta is exact: the identities published before, less the removed ones,
\* with the inserted ones, are those published after; updated ones are among
\* both; no key is in two domains and no parent has two splices (assert_valid).
DeltaExact ==
  [][commands' # commands =>
     LET d == delta' IN
     /\ Keys(facts') = (Keys(facts) \ d.removed) \cup d.inserted
     /\ d.removed \subseteq Keys(facts) /\ d.inserted \cap Keys(facts) = {}
     /\ d.updated \subseteq Keys(facts) \cap Keys(facts')
     /\ \A s, t \in d.splices : s.parent = t.parent => s = t]_vars

\* A node that stays keeps its identity; and when one node of a role and extent
\* leaves and one new node of that role and extent enters, the new one takes the
\* identity over, whatever else the command built, dropped or took back (proof 2
\* of assign_new, rollback, settle).  A node first built by a failed attempt is
\* found in the cache without a role, and starts afresh.
SameRole(r, s) == arena[r].production = arena[s].production /\ arena[r].extent = arena[s].extent
Built(gen, record) == arena[record].green.gen = gen
Roleless(l, record) == l.anchorOf[record][1] = Dormant
IdentityKept ==
  [][commands' # commands =>
     /\ \A r \in facts.live \cap facts'.live : facts'.lineages[r] = facts.lineages[r]
     /\ \A old \in facts.live \ facts'.live, new \in {r \in facts'.live : Built(session.gen, r)} :
          /\ SameRole(old, new) /\ ~Roleless(ln, old) /\ ~Roleless(ln', new)
          /\ \A r \in (facts.live \cup facts'.live) \ {old, new} : ~SameRole(r, old)
          => facts'.lineages[new] = facts.lineages[old]]_vars

\* The span an editor is given for a live node runs from the start of its first
\* token to the end of its last ("the exact source extent", types.rs:67).
SpanExact ==
  session.at = Idle => \A r \in facts.live :
    LET tokens == Yield(arena, r)
    IN tokens # <<>> => SpanForExtent(arena[r].extent) = <<RankOf(tokens[1]) - 1, RankOf(tokens[Len(tokens)])>>
=============================================================================
