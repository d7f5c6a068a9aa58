------------------------------ MODULE MCFactTxn ------------------------------
(* FactTxn on an exclusive and a shared fact, two values, two invocations *)
(* and the external writer.                                                  *)
EXTENDS FactTxn, TLC

CONSTANTS a, s, v1, v2, i1, i2, ext, none

MCFact == {a, s}
MCValue == {v1, v2}
MCWriter == {i1, i2, ext}
MCSharedFact == {s}
MCCaptures == {a :> v1, s :> v2, (a :> v2) @@ (s :> v1)}
=============================================================================
