---------------------------- MODULE MCStructures ----------------------------
(***************************************************************************)
(* The persistent structures under the store and the documents, each on    *)
(* its own: the first state chooses one and the others stay as they are.   *)
(***************************************************************************)
EXTENDS SnapshotIndex, Tape

CONSTANTS k1, k2, k3, k4

VARIABLE focus

\* k1 and k2 collide, k3 differs from them in the last fragment, k4 in the first.
MCHash == (k1 :> 0) @@ (k2 :> 0) @@ (k3 :> 4) @@ (k4 :> 1)
MCKey == {k1, k2, k3, k4}
\* Ordinals that share no byte, one, or all but the last.
MCOrdinal == {0, 1, 4, 6, 7}

Init ==
  \/ focus = "index" /\ IndexInit /\ TapeInit /\ entries = <<>>
  \/ focus = "tape" /\ IndexInit /\ TapeInit

Next ==
  \/ focus = "index" /\ IndexNext /\ UNCHANGED <<focus, tapeVars>>
  \/ focus = "tape" /\ TapeNext /\ UNCHANGED <<focus, indexVars>>

Spec == Init /\ [][Next]_<<focus, indexVars, tapeVars>>
=============================================================================
