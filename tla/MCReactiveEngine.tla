--------------------------- MODULE MCReactiveEngine ---------------------------
(***************************************************************************)
(* Component programs for the model checking of ReactiveEngine.            *)
(***************************************************************************)
EXTENDS ReactiveEngine

MCWriter == 0 .. MaxToken

MCObserve(f) == [op |-> "observe", fact |-> f]
MCPrevious(f) == [op |-> "previous", fact |-> f]
MCGet == [op |-> "get"]
MCSet(v) == [op |-> "set", val |-> v]
MCKeyset(v) == [op |-> "keyset", view |-> v]
MCInputs(v) == [op |-> "inputs", view |-> v]
MCEmit(f, v) == [op |-> "emit", fact |-> f, val |-> v]
MCRun(fn, input, site, stable) ==
  [op |-> "run", fn |-> fn, input |-> input, site |-> site, stable |-> stable]
MCReturn(v) == [op |-> "return", val |-> v]
MCFail == [op |-> "fail"]

\* A body that performs the given effects and then returns v.
Script(effects, trace, v) ==
  IF Len(trace) < Len(effects) THEN effects[Len(trace) + 1] ELSE MCReturn(v)

-----------------------------------------------------------------------------
(* Roots: P reads the external input, calls C and publishes x; Q copies x to
   y.  C (while k is absent) and Q publish the shared fact s; C counts its
   evaluations in its state cell, from nothing to two and over again, and
   marks the cell with 3 meanwhile.
   Input 2 makes P fail, or call itself.  Input 3 closes a cycle x, y: it
   settles while k is present and oscillates otherwise.  Q fails on x = 2 once
   the input was 1 at the last commit.  Input 4 makes P fail in its second
   evaluation, after Q copied what the first one published. *)

RootFact == {"in", "k", "x", "y", "s"}
RootViewOf == [f \in RootFact |-> f]

Counted(v) == CASE v = NoValue -> 1 [] v = 1 -> 2 [] OTHER -> NoValue

RootsOp(fn, input, trace) ==
  LET n == Len(trace) IN
  CASE fn = "P" ->
         IF n = 0 THEN MCObserve("in")
         ELSE CASE trace[1] = 1 ->
                     IF n = 1 THEN MCRun("C", 1, 1, FALSE)
                     ELSE Script(<<MCEmit("x", trace[2])>>, SubSeq(trace, 3, n), trace[2])
                [] trace[1] = 2 ->
                     IF n = 1 THEN MCKeyset("k")
                     ELSE IF trace[2] = {} THEN MCFail ELSE MCRun("P", NoValue, 2, FALSE)
                [] trace[1] = 3 ->
                     IF n < 3 THEN <<MCKeyset("k"), MCObserve("y")>>[n]
                     ELSE Script(<<MCEmit("x", IF trace[2] = {} /\ trace[3] = 1 THEN 2 ELSE 1)>>,
                                 SubSeq(trace, 4, n), 1)
                [] trace[1] = 4 ->
                     IF n = 1 THEN MCObserve("y")
                     ELSE IF trace[2] = 4 THEN MCFail
                     ELSE Script(<<MCKeyset("k"), MCEmit("x", 4)>>, SubSeq(trace, 3, n), 1)
                [] OTHER -> Script(<<MCEmit("x", NoValue)>>, Tail(trace), NoValue)
    [] fn = "C" ->
         CASE n = 0 -> MCGet
           [] n = 1 -> MCSet(3)
           [] n = 2 -> MCKeyset("k")
           [] n = 3 -> MCSet(Counted(trace[1]))
           [] OTHER -> IF trace[3] = {} THEN Script(<<MCEmit("s", 1)>>, SubSeq(trace, 5, n), 1)
                       ELSE MCReturn(2)
    [] fn = "Q" ->
         CASE n = 0 -> MCObserve("x")
           [] n = 1 -> MCPrevious("in")
           [] trace[1] = 2 /\ trace[2] = 1 -> MCFail
           [] OTHER -> Script(<<MCEmit("y", IF trace[1] = NoValue THEN 3 ELSE trace[1]),
                                MCInputs("k"), MCEmit("s", 1)>>, SubSeq(trace, 3, n), trace[1])

RootCommands ==
  {[f \in {"in"} |-> v] : v \in {1, 2, 3, 4, NoValue}}
    \cup {[f \in {"k"} |-> v] : v \in {1, NoValue}}
    \cup {[f \in {"x"} |-> v] : v \in {1, NoValue}}
    \cup {[f \in {"k", "x"} |-> 1]}

NoFamilyView == <<>>

-----------------------------------------------------------------------------
(* An oscillating root: P rewrites the fact it reads while the input is set. *)

OscFact == {"in", "x"}
OscViewOf == [f \in OscFact |-> f]

OscOp(fn, input, trace) ==
  LET n == Len(trace) IN
  IF n = 0 THEN MCObserve("in")
  ELSE IF trace[1] = NoValue THEN MCReturn(NoValue)
  ELSE IF n = 1 THEN MCObserve("x")
  ELSE Script(<<MCEmit("x", IF trace[2] = 1 THEN 2 ELSE 1)>>, SubSeq(trace, 3, n), 1)

OscCommands == {[f \in {"in"} |-> v] : v \in {1, NoValue}}

-----------------------------------------------------------------------------
(* A guard G that fails on x = 1, and P that publishes it. *)

GuardOp(fn, input, trace) ==
  IF fn = "P" THEN Script(<<MCEmit("x", 1)>>, trace, 1)
  ELSE IF trace = <<>> THEN MCObserve("x")
  ELSE IF trace[1] = 1 THEN MCFail ELSE MCReturn(NoValue)

-----------------------------------------------------------------------------
(* P counts k twice if the input is set: x wakes it after its first
   evaluation, and fails its second one before it reads k. *)

TwiceFact == {"in", "k", "x"}
TwiceViewOf == [f \in TwiceFact |-> f]

TwiceOp(fn, input, trace) ==
  LET n == Len(trace) IN
  CASE n = 0 -> MCObserve("in")
    [] trace[1] = NoValue -> MCReturn(NoValue)
    [] n = 1 -> MCObserve("x")
    [] trace[2] = 1 -> MCFail
    [] OTHER -> Script(<<MCObserve("k"), MCEmit("x", 1)>>, SubSeq(trace, 3, n), 1)

-----------------------------------------------------------------------------
(* Families: F has a member for every key of view k, which publishes a fact
   of view e picked by its payload; H has a member for every key of e; the
   root R counts what H's members publish. *)

FamilyFact == {"k1", "k2", "e1", "e2", "s", "y"}
FamilyViewOf ==
  [f \in FamilyFact |-> CASE f \in {"k1", "k2"} -> "k" [] f \in {"e1", "e2"} -> "e" [] OTHER -> f]
ChainView == [F \in {"F", "H"} |-> IF F = "F" THEN "k" ELSE "e"]
KView == [F \in {"F"} |-> "k"]

EdgeOf(v) == IF v = 1 THEN "e1" ELSE "e2"

FamilyOp(fn, input, trace) ==
  LET n == Len(trace) IN
  CASE fn = "F" ->
         CASE n = 0 -> MCObserve(input)
           [] n = 1 -> MCRun("D", input, 1, TRUE)
           [] OTHER -> Script(<<MCEmit(EdgeOf(trace[1]), trace[2])>>, SubSeq(trace, 3, n), NoValue)
    [] fn = "D" ->
         IF n = 0 THEN MCKeyset("k") ELSE MCReturn(Cardinality(trace[1]))
    [] fn = "H" -> Script(<<MCObserve(input), MCEmit("s", 1)>>, trace, NoValue)
    [] fn = "R" ->
         CASE n = 0 -> MCObserve("s")
           [] n = 1 -> MCInputs("e")
           [] OTHER -> Script(<<MCEmit("y", Cardinality(trace[2]) + 1)>>, SubSeq(trace, 3, n), trace[2])

Payloads(a, b) == [f \in {"k1", "k2"} |-> IF f = "k1" THEN a ELSE b]
FamilyCommands ==
  {Payloads(1, NoValue), Payloads(2, NoValue), Payloads(NoValue, 1), Payloads(NoValue, 2),
   Payloads(1, 2), Payloads(NoValue, NoValue)}

-----------------------------------------------------------------------------
(* A family whose members fail on payload 2, and a root that publishes keys
   of the family's view. *)

FailingOp(fn, input, trace) ==
  LET n == Len(trace) IN
  IF n = 0 THEN MCObserve(input)
  ELSE IF trace[1] = 2 THEN MCFail
  ELSE Script(<<MCEmit("e1", 1)>>, Tail(trace), NoValue)

FailingCommands == {Payloads(1, NoValue), Payloads(2, NoValue), Payloads(NoValue, NoValue)}

PublisherOp(fn, input, trace) ==
  IF fn = "R" THEN Script(<<MCEmit("k1", 1)>>, trace, 1)
  ELSE Script(<<MCObserve(input), MCEmit("e1", 1)>>, trace, NoValue)
=============================================================================
