-------------------------------- MODULE Glr --------------------------------
(***************************************************************************)
(* The generalised LR session: the graph-structured stack (data/gss.rs),   *)
(* the products (data/product.rs) and the steps of parsing/session.rs that *)
(* reduce, shift, insert and delete.                                       *)
(*                                                                         *)
(* A product is a value here.  Token products are [kind, term, occ, gen]:  *)
(* one per occurrence and command (gen).  Node products are                *)
(* [kind, production, children, boundary]: the reduction cache gives one   *)
(* product to one (production, children, anchor of an empty reduction), so *)
(* that triple stands for the cached id, and is the origin a product is    *)
(* rebound through.  Error products carry what recovery did.  A green tree *)
(* is interned within its command only (TreeArena's directory is not       *)
(* published), so equal canonical keys are equal products.                 *)
(*                                                                         *)
(* The session c is a record: cols the mutable columns, suffix the         *)
(* retained segment, gen the command's generation, edges the GSS edges in  *)
(* creation order, tokprod the token products by occurrence, diags the     *)
(* diagnostics, journal and serial the recovery journal, fail the error    *)
(* that ended the last step.                                               *)
(***************************************************************************)
EXTENDS Tables, ParseSegment

VARIABLE parser     \* the tables the grammar was built into

ActionSet(state, t) == parser.rows[state].actions[t]
GotoState(state, lhs) == parser.rows[state].gotos[lhs]
ShiftTargets(state, t) ==
  LET shifts == SelectSeq(ActionSet(state, t), LAMBDA action : action.op = "shift")
  IN [i \in DOMAIN shifts |-> shifts[i].arg]

StartState == 1
NoFail == "none"

-----------------------------------------------------------------------------
(* Products *)

TokenProduct(term, occ, gen) == [kind |-> "token", term |-> term, occ |-> occ, gen |-> gen]
NodeProduct(p, children, boundary) ==
  [kind |-> "node", production |-> p, children |-> children, boundary |-> boundary]
ErrorProduct(info, occ, gen) == [kind |-> "error", info |-> info, occ |-> occ, gen |-> gen]

\* ParseErrorInfo: what happened, the token met, the terminal wanted, the column
ErrorInfo(what, unexpected, expected, location) ==
  [what |-> what, unexpected |-> unexpected, expected |-> expected, location |-> location]

NoAnchor == -1

\* What the generated build function of a production asks of its children.
BuildOk(p, children) ==
  \A i \in DOMAIN children : parser.productions[p].fields[i] \in {"any", children[i].kind}

\* reduce_cached and augmented_build.  Only an empty reduction is keyed by its anchor.
ReduceCached(p, children, boundary) ==
  IF p = 0 THEN children[1]
  ELSE NodeProduct(p, children, IF children = <<>> THEN boundary ELSE NoAnchor)

-----------------------------------------------------------------------------
(* The graph-structured stack *)

Node(state, column, gen) == [state |-> state, column |-> column, gen |-> gen]
Edge(from, to, product) == [from |-> from, to |-> to, product |-> product]

OutgoingEdges(edges, node) == SelectSeq(edges, LAMBDA edge : edge.from = node)

\* reduce_paths: the ways down of the given depth, products left to right
RECURSIVE ReducePaths(_, _, _)
ReducePaths(edges, node, depth) ==
  IF depth = 0 THEN <<[predecessor |-> node, products |-> <<>>]>>
  ELSE FlattenSeq([i \in DOMAIN OutgoingEdges(edges, node) |->
         LET edge == OutgoingEdges(edges, node)[i]
             paths == ReducePaths(edges, edge.to, depth - 1)
         IN [k \in DOMAIN paths |-> [paths[k] EXCEPT !.products = Append(@, edge.product)]]])

-----------------------------------------------------------------------------
(* Reducing a column until nothing is added *)

Fail(c, why) == [c EXCEPT !.fail = why]

\* One reduction along one path: the product, the goto node, the edge.
ReduceAlong(c, column, p, path, boundary) ==
  LET to == GotoState(path.predecessor.state, parser.productions[p].lhs)
      product == ReduceCached(p, path.products, boundary)
      node == Node(to, column, c.gen)
  IN CASE to = NoState -> Fail(c, "goto")
       [] to # NoState /\ ~BuildOk(p, path.products) -> Fail(c, "build")
       [] OTHER -> [c EXCEPT !.cols[column].products = Include(@, product),
                             !.cols[column].active = Include(@, node),
                             !.edges = Include(@, Edge(node, path.predecessor, product))]

AcceptAlong(c, column, path) ==
  LET product == ReduceCached(0, path.products, NoAnchor)
  IN [c EXCEPT !.cols[column].products = Include(@, product), !.cols[column].accepted = Include(@, product)]

PerformAction(c, column, node, action, boundary) ==
  LET depth == IF action.op = "shift" THEN 0 ELSE Len(parser.productions[action.arg].rhs)
      step(d, path) == CASE d.fail # NoFail -> d
                         [] d.fail = NoFail /\ action.op = "reduce" -> ReduceAlong(d, column, action.arg, path, boundary)
                         [] OTHER -> AcceptAlong(d, column, path)
  IN IF action.op = "shift" \/ c.fail # NoFail THEN c
     ELSE FoldLeft(step, c, ReducePaths(c.edges, node, depth))

ReducePass(c, column, t, boundary) ==
  LET visit(d, node) == FoldLeft(LAMBDA e, action : PerformAction(e, column, node, action, boundary),
                                 d, ActionSet(node.state, t))
  IN FoldLeft(visit, c, c.cols[column].active)

RECURSIVE ReducePasses(_, _, _, _)
PassAgain(before, after, column, t, boundary) ==
  IF after = before \/ after.fail # NoFail THEN after ELSE ReducePasses(after, column, t, boundary)
ReducePasses(c, column, t, boundary) == PassAgain(c, ReducePass(c, column, t, boundary), column, t, boundary)

\* Mutant: one pass, whatever it added.
ReduceOnce(c, column, t, boundary) == ReducePass(c, column, t, boundary)

ReduceUntilStable(c, column, t, boundary) == IF c.fail # NoFail THEN c ELSE ReducePasses(c, column, t, boundary)

-----------------------------------------------------------------------------
(* Entering the next column *)

\* The edges a shift of t adds from the frontier, one per active node and target.
ShiftEdges(c, column, t, product) ==
  FlattenSeq([i \in DOMAIN c.cols[column].active |->
    LET node == c.cols[column].active[i]
        targets == ShiftTargets(node.state, t)
    IN [k \in DOMAIN targets |-> Edge(Node(targets[k], column + 1, c.gen), node, product)]])

FrontierOf(edges) == FoldLeft(LAMBDA nodes, edge : Include(nodes, edge.from), <<>>, edges)

\* Mutant: a repair goes unreported.
RecordNothing(c, info) == c

RecordDiagnostic(c, info) == [c EXCEPT !.diags = Include(@, info)]

\* A column recovery entered: its error product, diagnostic and reductions on t.
PushErrorColumn(c, token, active, product, t, boundary) ==
  LET column == Len(c.cols) + 1
      entered == [NewColumn(token, active) EXCEPT !.products = <<product>>, !.err = TRUE]
  IN ReduceUntilStable(RecordDiagnostic([c EXCEPT !.cols = Append(@, entered)], product.info),
                       column, t, boundary)

\* shift_parse_token.  tok.source is the terminal an error token stands for.
ProductOf(c, column, tok) ==
  CASE tok.term = ErrorTerminal ->
         ErrorProduct(ErrorInfo("unexpected", tok.source, ErrorTerminal, column + 1), tok.occ, c.gen)
    [] tok.term # ErrorTerminal /\ tok.occ \in DOMAIN c.tokprod -> c.tokprod[tok.occ]
    [] OTHER -> TokenProduct(tok.term, tok.occ, c.gen)
PushTokenColumn(c, tok, active, product) ==
  [c EXCEPT !.tokprod = (tok.occ :> product) @@ @,
            !.cols = Append(@, [NewColumn(tok.occ, active) EXCEPT !.products = <<product>>])]
ShiftAlong(c, tok, product, edges) ==
  CASE edges = <<>> -> Fail(c, "stacks")
    [] edges # <<>> /\ tok.term = ErrorTerminal ->
         PushErrorColumn([c EXCEPT !.edges = @ \o edges], tok.occ, FrontierOf(edges), product, ErrorTerminal, tok.occ)
    [] OTHER -> PushTokenColumn([c EXCEPT !.edges = @ \o edges], tok, FrontierOf(edges), product)
ShiftProduct(c, column, tok, product) == ShiftAlong(c, tok, product, ShiftEdges(c, column, tok.term, product))
ShiftParseToken(c, column, tok) == ShiftProduct(c, column, tok, ProductOf(c, column, tok))

\* shift_synthetic_terminal: a terminal the input lacks
SyntheticAlong(c, t, next, product, edges) ==
  IF edges = <<>> THEN Fail(c, "stacks")
  ELSE PushErrorColumn([c EXCEPT !.edges = @ \o edges], NoToken, FrontierOf(edges), product, t, next.occ)
ShiftSynthetic(c, column, t, next, product) == SyntheticAlong(c, t, next, product, ShiftEdges(c, column, t, product))
ShiftSyntheticTerminal(c, column, t, next) ==
  ShiftSynthetic(c, column, t, next, ErrorProduct(ErrorInfo("missing", next.term, t, column + 1), next.occ, c.gen))

\* delete_parse_token: the frontier is carried over the token
DeleteParseToken(c, column, tok) ==
  PushErrorColumn(c, tok.occ, c.cols[column].active,
                  ErrorProduct(ErrorInfo("unexpected", tok.term, ErrorTerminal, column + 1), tok.occ, c.gen),
                  ErrorTerminal, tok.occ)

-----------------------------------------------------------------------------
(* Comparing frontiers *)

\* canonical_key of a node: its state and the keys and products of its edges.
\* A cycle has no key.
NoKey == [state |-> 0, edges |-> {}]

RECURSIVE NodeKey(_, _)
NodeKey(edges, node) ==
  [state |-> node.state,
   edges |-> {<<NodeKey(edges, edge.to), edge.product>> : edge \in ToSet(OutgoingEdges(edges, node))}]

\* canonical_frontier: the keys of the base and of the active nodes
FrontierKey(edges, column) ==
  <<{NodeKey(edges, n) : n \in ToSet(column.base)}, {NodeKey(edges, n) : n \in ToSet(column.active)}>>

RECURSIVE Below(_, _)
Below(edges, nodes) ==
  LET next == nodes \cup {edge.to : edge \in {e \in ToSet(edges) : e.from \in nodes}}
  IN IF next = nodes THEN nodes ELSE Below(edges, next)

\* Two nodes of one frontier that share a key make it ambiguous.
Ambiguous(edges, column) ==
  LET nodes == Below(edges, ToSet(column.base) \cup ToSet(column.active))
  IN \E m, n \in nodes : m # n /\ NodeKey(edges, m) = NodeKey(edges, n)

\* frontier_checkpoint_for_column and exact_match
ExactMatch(edges, left, right) ==
  /\ left.boundary = right.boundary /\ left.err = right.err
  /\ FrontierKey(edges, left) = FrontierKey(edges, right)

\* structural_key: a token matches any token, an error only itself
RECURSIVE StateProductKey(_)
StateProductKey(product) ==
  CASE product.kind = "token" -> <<"token">>
    [] product.kind = "error" -> <<"error", product.info, product.gen>>
    [] product.kind = "node" -> <<"node", parser.productions[product.production].lhs,
                                  [i \in DOMAIN product.children |-> StateProductKey(product.children[i])]>>

\* state_node_key: the LR configuration below a node; a self-edge ends in a sentinel
RECURSIVE StateNodeKey(_, _)
StateNodeKey(edges, node) ==
  LET out == OutgoingEdges(edges, node)
      key(edge) == <<IF edge.to = node THEN NoKey ELSE StateNodeKey(edges, edge.to), StateProductKey(edge.product)>>
  IN [state |-> node.state, edges |-> {<<k, Cardinality({i \in DOMAIN out : key(out[i]) = k})>> : k \in {key(out[i]) : i \in DOMAIN out}}]

StateEdgeKey(edges, edge) == <<StateNodeKey(edges, edge.to), StateProductKey(edge.product)>>

\* The edges of two nodes pair by key, equal keys in creation order.
RankAmong(edges, out, i) == Cardinality({k \in 1 .. i : StateEdgeKey(edges, out[k]) = StateEdgeKey(edges, out[i])})
PairedEdges(edges, old, new) ==
  LET from == OutgoingEdges(edges, old)
      to == OutgoingEdges(edges, new)
  IN {<<from[i], to[k]>> : <<i, k>> \in {<<x, y>> \in (DOMAIN from) \X (DOMAIN to) :
        /\ StateEdgeKey(edges, from[x]) = StateEdgeKey(edges, to[y])
        /\ RankAmong(edges, from, x) = RankAmong(edges, to, y)}}

RECURSIVE PairsBelow(_, _)
PairsBelow(edges, pairs) ==
  LET below == {<<pair[1].to, pair[2].to>> : pair \in UNION {PairedEdges(edges, p[1], p[2]) : p \in pairs}}
  IN IF below \subseteq pairs THEN pairs ELSE PairsBelow(edges, pairs \cup below)

\* match_state_frontiers: the frontiers pair key by key, equal keys in order
SameConfiguration(edges, old, new) ==
  /\ Len(old) = Len(new)
  /\ \A n \in ToSet(old) \cup ToSet(new) :
       Cardinality({i \in DOMAIN old : StateNodeKey(edges, old[i]) = StateNodeKey(edges, n)})
         = Cardinality({i \in DOMAIN new : StateNodeKey(edges, new[i]) = StateNodeKey(edges, n)})

NodeRank(edges, nodes, i) == Cardinality({k \in 1 .. i : StateNodeKey(edges, nodes[k]) = StateNodeKey(edges, nodes[i])})
PairedNodes(edges, old, new) ==
  {<<old[i], new[k]>> : <<i, k>> \in {<<x, y>> \in (DOMAIN old) \X (DOMAIN new) :
     /\ StateNodeKey(edges, old[x]) = StateNodeKey(edges, new[y])
     /\ NodeRank(edges, old, x) = NodeRank(edges, new, y)}}

\* The products of paired edges that differ, old to new.
ProductPairs(edges, old, new) ==
  {<<pair[1].product, pair[2].product>> :
     pair \in {q \in UNION {PairedEdges(edges, p[1], p[2]) : p \in PairsBelow(edges, PairedNodes(edges, old, new))} :
                 q[1].product # q[2].product}}
=============================================================================
