----------------------------- MODULE MC_TwoNodes -----------------------------
(* Two nodes, each other's peer, for model checking PlannedHandoff.          *)
EXTENDS PlannedHandoff, TLC

CONSTANTS n1, n2

TwoNodes == {n1, n2}

PeerOf == (n1 :> n2) @@ (n2 :> n1)

=============================================================================
