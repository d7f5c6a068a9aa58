----------------------------- MODULE MCFactArena -----------------------------
(* FactArena on two facts of one view that invocations may share and commands *)
(* own exclusively.                                                          *)
EXTENDS FactArena

CONSTANTS a, b, v1, v2, i1, i2, ext, none, map

MCFact == {a, b}
MCValue == {v1, v2}
MCWriter == {i1, i2, ext}
MCView == {map}
MCViewOf == (a :> map) @@ (b :> map)
MCCaptures == {a :> v1, (a :> v2) @@ (b :> v1)}
=============================================================================
