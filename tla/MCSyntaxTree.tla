---------------------------- MODULE MCSyntaxTree ----------------------------
(* Trees of an ambiguous grammar of lists with brackets:                    *)
(*   S -> L     L -> a | b | ( O ) | L L     O -> (empty) | L               *)
EXTENDS SyntaxTree

Around == {"bof", "eof", "a", "b", "(", ")"}
Rule(lhs, rhs) == [lhs |-> lhs, rhs |-> rhs, before |-> Around, after |-> Around]
Inner(lhs, rhs) == [lhs |-> lhs, rhs |-> rhs, before |-> {"("}, after |-> {")"}]
Outer(lhs, rhs) == [lhs |-> lhs, rhs |-> rhs, before |-> {"bof"}, after |-> {"eof"}]

ListRules ==
  << Inner("O", <<>>), Rule("L", <<"a">>), Rule("L", <<"b">>), Rule("L", <<"(", "O", ")">>),
     Rule("L", <<"L", "L">>), Inner("O", <<"L">>), Outer("S", <<"L">>) >>

SomeDocuments ==
  {<<"a">>, <<"a", "a">>, <<"a", "b">>, <<"a", "a", "a">>, <<"(", ")">>, <<"(", "a", ")">>,
   <<"(", "a", "a", ")">>, <<"a", "x">>, <<"a", "x", "a">>, <<"a", "a", "x">>}
=============================================================================
