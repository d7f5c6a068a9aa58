--------------------------- MODULE MCParseReplay ---------------------------
(* The parser over an ambiguous grammar of bracketed lists with an error    *)
(* rule:  L -> E | L L   E -> a | b | ( O ) | error   O -> (empty) | L      *)
EXTENDS ParseReplay

Rule(lhs, rhs, fields) == [lhs |-> lhs, rhs |-> rhs, fields |-> fields]

ListRules ==
  << Rule("L", <<"E">>, <<"node">>), Rule("L", <<"L", "L">>, <<"node", "node">>),
     Rule("E", <<"a">>, <<"token">>), Rule("E", <<"b">>, <<"token">>),
     Rule("E", <<"(", "O", ")">>, <<"any", "node", "any">>), Rule("E", <<"error">>, <<"error">>),
     Rule("O", <<>>, <<>>), Rule("O", <<"L">>, <<"node">>) >>
ListTerminals == <<"eof", "error", "a", "b", "(", ")">>
ListNonTerminals == <<"L", "E", "O">>
ListStart == "L"

\* The parser forks: some cells hold several actions.
ASSUME CollectConflicts(BuildLR1) # {}

\* Every document of up to two tokens, and longer ones, clean and broken.
ShortDocuments == UNION {[1 .. n -> {"a", "(", ")"}] : n \in 0 .. 2}
LongDocuments ==
  {<<"a", "a", "a">>, <<"(", "a", ")">>, <<"a", "(", ")">>, <<")", "a", "a">>,
   <<"a", "error", "b">>, <<"(", ")", ")", "a">>, <<"(", "(", ")", ")">>}
SomeDocuments == ShortDocuments \cup LongDocuments

\* The documents of the runs that show where a second replay goes wrong.
CleanDocument == {<<"a", "a", "a">>}
BrokenDocument == {<<")", "a", "a">>}
=============================================================================
