------------------------------- MODULE Tables -------------------------------
(***************************************************************************)
(* The grammar and its canonical LR(1) tables, of grammar.rs, analyze.rs   *)
(* and build.rs under src/src/framework/parse.  A rule is a record         *)
(* [lhs, rhs, fields]: fields says what the generated build function takes *)
(* out of each child ("token", "node", "error", or "any" for a child it    *)
(* does not look at).                                                      *)
(***************************************************************************)
EXTENDS Integers, Sequences, FiniteSets, SequencesExt, FiniteSetsExt

CONSTANTS Rules,          \* the rules in the order they are registered
          StartSymbol,    \* the nonterminal the grammar is built for
          TerminalSeq,    \* the terminals as registered: "eof", "error", then the lexer's
          NonTerminalSeq  \* the nonterminals as registered, after S' and Err

Eof == "eof"
ErrorTerminal == "error"

ASSUME GrammarWellFormed ==
  /\ Len(TerminalSeq) >= 2 /\ TerminalSeq[1] = Eof /\ TerminalSeq[2] = ErrorTerminal
  /\ \A i \in DOMAIN Rules :
       /\ \E k \in DOMAIN NonTerminalSeq : NonTerminalSeq[k] = Rules[i].lhs
       /\ Len(Rules[i].fields) = Len(Rules[i].rhs)

Terminals == ToSet(TerminalSeq)
NonTerminals == ToSet(NonTerminalSeq)

(* Registration puts the augmented production first; sorting by left side   *)
(* is stable, and production ids are the sorted positions, from 0.         *)
Augmented == [lhs |-> "S'", rhs |-> <<StartSymbol, Eof>>, fields |-> <<"any", "any">>]
SortedByLhs == FlattenSeq([k \in DOMAIN NonTerminalSeq |->
                             SelectSeq(Rules, LAMBDA r : r.lhs = NonTerminalSeq[k])])
Numbered(sorted) == [p \in 0 .. Len(sorted) |-> IF p = 0 THEN Augmented ELSE sorted[p]]
Productions == Numbered(SortedByLhs)

ProductionIdsByLhs(productions, n) == {p \in DOMAIN productions : productions[p].lhs = n}

-----------------------------------------------------------------------------
(* Nullable and FIRST sets, each the least fixed point of one round *)

NullableRound(productions, known) ==
  {productions[p].lhs : p \in {q \in DOMAIN productions \ {0} : ToSet(productions[q].rhs) \subseteq known}}
RECURSIVE NullableFrom(_, _)
NullableFrom(productions, known) ==
  LET next == NullableRound(productions, known)
  IN IF next \subseteq known THEN known ELSE NullableFrom(productions, known \cup next)

\* extend_first_from_sequence: the terminals that can start the sequence, up to
\* and including its first symbol that cannot vanish.
FirstPrefix(nullable, first, sequence) ==
  LET stops == {i \in DOMAIN sequence : sequence[i] \notin nullable}
      reach == IF stops = {} THEN Len(sequence) ELSE Min(stops)
  IN UNION {IF sequence[i] \in Terminals THEN {sequence[i]} ELSE first[sequence[i]] : i \in 1 .. reach}

FirstRound(productions, nullable, first) ==
  [n \in NonTerminals |->
     UNION {FirstPrefix(nullable, first, productions[p].rhs) : p \in ProductionIdsByLhs(productions, n)}]
RECURSIVE FirstFrom(_, _, _)
FirstFrom(productions, nullable, first) ==
  LET next == FirstRound(productions, nullable, first)
  IN IF next = first THEN first ELSE FirstFrom(productions, nullable, next)

\* A grammar with its analysis.
WithFirst(productions, nullable) ==
  [productions |-> productions, nullable |-> nullable,
   first |-> FirstFrom(productions, nullable, [n \in NonTerminals |-> {}])]
Analyze(productions) == WithFirst(productions, NullableFrom(productions, {}))

FirstOfSequence(g, sequence, lookahead) ==
  FirstPrefix(g.nullable, g.first, sequence) \cup (IF ToSet(sequence) \subseteq g.nullable THEN {lookahead} ELSE {})

-----------------------------------------------------------------------------
(* Items are [production, dot, lookahead]; dot counts the symbols passed. *)

Item(p, dot, lookahead) == [production |-> p, dot |-> dot, lookahead |-> lookahead]
Rhs(g, item) == g.productions[item.production].rhs
Completed(g, item) == item.dot = Len(Rhs(g, item))
SymbolAfterDot(g, item) == Rhs(g, item)[item.dot + 1]

Predicted(g, item) ==
  IF Completed(g, item) \/ SymbolAfterDot(g, item) \in Terminals THEN {}
  ELSE {Item(p, 0, t) :
          p \in ProductionIdsByLhs(g.productions, SymbolAfterDot(g, item)),
          t \in FirstOfSequence(g, SubSeq(Rhs(g, item), item.dot + 2, Len(Rhs(g, item))), item.lookahead)}

RECURSIVE Closure(_, _)
Closure(g, items) ==
  LET next == UNION {Predicted(g, item) : item \in items}
  IN IF next \subseteq items THEN items ELSE Closure(g, items \cup next)

Goto(g, items, symbol) ==
  Closure(g, {Item(item.production, item.dot + 1, item.lookahead) :
                item \in {i \in items : ~Completed(g, i) /\ SymbolAfterDot(g, i) = symbol}})

TransitionSymbols(g, items) == {SymbolAfterDot(g, item) : item \in {i \in items : ~Completed(g, i)}}

\* BTreeSet order of the symbols: terminals before nonterminals.
SymbolOrder == TerminalSeq \o NonTerminalSeq

\* The set of items a symbol leads to, {} for none.
Targets(g, items) ==
  LET symbols == TransitionSymbols(g, items)
  IN [i \in DOMAIN SymbolOrder |-> IF SymbolOrder[i] \in symbols THEN Goto(g, items, SymbolOrder[i]) ELSE {}]

Intern(states, items) == IF items = {} \/ items \in ToSet(states) THEN states ELSE Append(states, items)

(* build_lr1: states are numbered in the order a breadth-first walk meets   *)
(* them; state 1 is the start state.                                       *)
RECURSIVE Explore(_, _, _)
Explore(g, states, at) ==
  IF at > Len(states) THEN states ELSE Explore(g, FoldLeft(Intern, states, Targets(g, states[at])), at + 1)

NoState == 0
StateOf(states, items) == IF items = {} THEN NoState ELSE CHOOSE s \in DOMAIN states : states[s] = items

ShiftAction(to) == [op |-> "shift", arg |-> to]
ReduceAction(p) == [op |-> "reduce", arg |-> p]
AcceptAction == [op |-> "accept", arg |-> 0]

(* fill_tables: the shift of a cell comes first, then its completed items   *)
(* in production order; production 0 accepts, on the end of input only.    *)
CompletedActions(g, items, t) ==
  LET done == {item \in items : Completed(g, item)}
      accepts == t = Eof /\ \E item \in done : item.production = 0
      reduces == {item.production : item \in {i \in done : i.production # 0 /\ i.lookahead = t}}
      ordered == SetToSortSeq(reduces, <)
  IN (IF accepts THEN <<AcceptAction>> ELSE <<>>) \o [i \in DOMAIN ordered |-> ReduceAction(ordered[i])]

ShiftCell(to) == IF to = NoState THEN <<>> ELSE <<ShiftAction(to)>>
ActionCell(g, items, t, to) == ShiftCell(to) \o CompletedActions(g, items, t)

\* The row of a state, with the states its symbols lead to in symbol order.
OrderOf(symbol) == CHOOSE i \in DOMAIN SymbolOrder : SymbolOrder[i] = symbol
Row(g, items, to) ==
  [actions |-> [t \in Terminals |-> ActionCell(g, items, t, to[OrderOf(t)])],
   gotos |-> [n \in NonTerminals |-> to[OrderOf(n)]]]
StatesOf(states, targets) == [i \in DOMAIN targets |-> StateOf(states, targets[i])]

FillTables(g, states) ==
  [productions |-> g.productions, nullable |-> g.nullable,
   rows |-> [s \in DOMAIN states |-> Row(g, states[s], StatesOf(states, Targets(g, states[s])))]]

BuildTables(g) == FillTables(g, Explore(g, <<Closure(g, {Item(0, 0, Eof)})>>, 1))
BuildLR1 == BuildTables(Analyze(Productions))

ActionArgs(cell, op) == {cell[i].arg : i \in {j \in DOMAIN cell : cell[j].op = op}}

\* collect_conflicts: the cells with several actions, which the parser forks on.
CollectConflicts(tables) ==
  {<<s, t>> \in (DOMAIN tables.rows) \X Terminals :
     LET cell == tables.rows[s].actions[t] IN
     \/ ActionArgs(cell, "shift") # {} /\ ActionArgs(cell, "reduce") # {}
     \/ Cardinality(ActionArgs(cell, "reduce")) > 1}
=============================================================================
