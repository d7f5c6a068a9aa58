---------------------------- MODULE MCLexPipeline ----------------------------
(***************************************************************************)
(* A lexer definition for the model checking of LexPipeline: words, spaces  *)
(* (skipped) and groups in parentheses, which a hook and an empty rule also *)
(* close after a word that starts with b, or at the end of the text after   *)
(* one that starts with a.  The word "bb" cannot be built; "@" is unknown;  *)
(* w and W are the two bytes of one letter.                                 *)
(***************************************************************************)
EXTENDS LexPipeline, TLC

Rule(terminal, action, skip, empty) ==
  [terminal |-> terminal, action |-> action, next |-> "group", skip |-> skip, empty |-> empty]

Word    == Rule("word", "none", FALSE, FALSE)
Space   == Rule("space", "none", TRUE, FALSE)
Left    == Rule("left", "enter", FALSE, FALSE)
Right   == Rule("right", "exit", FALSE, FALSE)
Implied == Rule("implied", "exit", FALSE, TRUE)

MCRules(mode) ==
  IF mode = "root" THEN <<Word, Space, Left, Right>> ELSE <<Word, Right, Implied, Left>>

MCByte == {"=", "a", "b", "w", "W", "(", ")", "@", " "}
MCContinuation == {"W"}
Letters == {"a", "b", "w", "W"}
Boundary(text, at) == at = Len(text) \/ (at < Len(text) /\ text[at + 1] \notin MCContinuation)

MCMatchLengths(rule, stack, rest) ==
  CASE rule.terminal = "word" ->
         {n \in 1..Len(rest) : Boundary(rest, n) /\ \A k \in 1..n : rest[k] \in Letters}
    [] OTHER ->
         {n \in {1} : /\ n <= Len(rest)
                      /\ rest[n] = CASE rule.terminal = "space" -> " "
                                     [] rule.terminal = "left" -> "("
                                     [] rule.terminal = "right" -> ")"}

MCEmptyWhen(rule, stack, moment) ==
  \/ Top(stack).slots = "b"
  \/ Top(stack).slots = "a" /\ moment = "eof"

MCHook(rule, lexeme, new, old) ==
  IF rule.terminal = "word" /\ Top(new).mode = "group" THEN lexeme[1] ELSE Top(new).slots

\* A recoverable rule ends later: a right parenthesis takes a following "@)".
MCRecover(rule, rest, slots) ==
  IF rule.terminal = "right" /\ rest # <<>> /\ rest[1] = "@" THEN 1 ELSE 0

MCBuilds(rule, lexeme) == lexeme # <<"b", "b">>
MCErrorValue(info) == info.kind
\* A builder that keeps what it is given.
PlacedErrorValue(info) == info

\* A root mode that marks the end of a text that holds no word.
End == Rule("end", "none", FALSE, TRUE)
EndRules(mode) == <<Word, Space, End>>
EndWhen(rule, stack, moment) == moment = "eof" /\ Top(stack).slots = NoSlots
EndHook(rule, lexeme, new, old) ==
  IF rule.terminal = "space" THEN Top(new).slots ELSE rule.terminal

-----------------------------------------------------------------------------
Places(text) == {p \in 0..Len(text) : Boundary(text, p)}
Edits(text, inserts, longest) ==
  {[kind |-> "insert", start |-> p, end |-> p, text |-> s] : p \in Places(text), s \in inserts}
    \union {[kind |-> "delete", start |-> p, end |-> p + n, text |-> <<>>] :
             <<p, n>> \in {<<q, m>> \in Places(text) \X (1..longest) :
                            q < Len(text) /\ (q + m > Len(text) \/ Boundary(text, q + m))}}

\* One document: single edits, and pairs of edits that may overlap or touch.
MCTexts ==
  {<<"a", "b">>, <<"w", "W", "b">>, <<"(", "a", ")">>, <<"(", ")", "@", ")">>, <<"a", "@", " ", "a">>}

MCBatches(current) ==
  UNION {IF current[u] = Absent THEN {u :> <<e>> : e \in Edits(<<>>, {<<"a">>}, 0)}
         ELSE IF Len(current[u]) >= 5 THEN {}
         ELSE {u :> <<e>> : e \in Edits(current[u], {<<"a">>, <<"b">>, <<" ">>, <<"(">>, <<"@">>}, 2)}
           \union {u :> <<e, f>> : e \in Edits(current[u], {<<" ">>}, 2),
                                   f \in {x \in Edits(current[u], {<<"b">>}, 1) : x.start >= 2}}
          : u \in Uris}

\* Operators: "==" and "=", as texts of "=" are split from the left.
Equals  == Rule("==", "none", FALSE, FALSE)
Assigns == Rule("=", "none", FALSE, FALSE)
OperatorRules(mode) == <<Equals, Assigns, Word>>
OperatorLengths(rule, stack, rest) ==
  CASE rule.terminal = "==" -> {n \in {2} : n <= Len(rest) /\ SubSeq(rest, 1, 2) = <<"=", "=">>}
    [] rule.terminal = "=" -> {n \in {1} : n <= Len(rest) /\ rest[1] = "="}
    [] OTHER -> MCMatchLengths(rule, stack, rest)
OperatorTexts == {<<"=", "=", "=", "=">>}

\* A letter of two bytes, and replacements behind it.
WideTexts == {<<"w", "W", "a", "b">>, <<"w", "W", "a">>}

-----------------------------------------------------------------------------
\* Two documents edited in one batch, of which one may become the word "bb".
PairTexts == {<<"a">>, <<"b">>}

PairBatches(current) ==
  IF Absent \in Range(current) THEN {}
  ELSE {[u \in Uris |-> IF u = "u" THEN <<e>> ELSE <<f>>] :
         e \in Edits(current["u"], {<<"a">>}, 0), f \in Edits(current["v"], {<<"b">>}, 0)}
=============================================================================
