-------------------------- MODULE MC_BundleAcceptance --------------------------
(* Selections for model checking BundleAcceptance in two situations, of which *)
(* the initial state chooses one: "behind", the constants of the              *)
(* configuration file, where reads may return an earlier bundle; and          *)
(* "direct", where the peer always answers and the loop goes on importing.    *)
EXTENDS BundleAcceptance

Selections == {{"channels"}, {"channels", "epg"}}
Everything == {"channels", "epg"}

VARIABLE situation

Direct == INSTANCE BundleAcceptance WITH Behind <- FALSE, MaxEdits <- 2

MCInit == Init /\ situation \in {"behind", "direct"}

MCNext ==
    /\ \/ situation = "behind" /\ Next
       \/ situation = "direct" /\ Direct!Next
    /\ UNCHANGED situation

MCSpec ==
    /\ MCInit /\ [][MCNext]_<<vars, situation>>
    /\ WF_vars(situation = "direct" /\ Direct!Import)

\* When Main and the operator leave it alone, a Follower whose key matches and
\* whose selection is in the bundle ends with the newest bundle and its
\* selection (engine.py, apply_latest in the background loop).
DirectConverges ==
    <>[](situation = "direct" /\ Complete(Newest) /\ ~Mismatch(Newest) /\ exported < Newest =>
            applied = Newest /\ SameScope)

=============================================================================
