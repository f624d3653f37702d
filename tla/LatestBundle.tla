------------------------------ MODULE LatestBundle ------------------------------
(***************************************************************************)
(* What the two nodes may rely on in a shared store: it names one latest   *)
(* bundle. A new bundle is first offered (it can be found by a reader that *)
(* lists the store) and then named; a read takes a bundle that is named or *)
(* offered at one moment while it runs. BundleStore implements it.         *)
(***************************************************************************)
CONSTANTS Bundle, Reader, None, Before(_, _)

VARIABLES latest, offered, held

Init == latest = None /\ offered = None /\ held = [r \in Reader |-> None]

Offer == \E b \in Bundle :
    /\ latest = None \/ Before(latest, b)
    /\ offered = None \/ Before(offered, b)
    /\ offered' = b
    /\ UNCHANGED <<latest, held>>

Name ==
    /\ offered # None
    /\ latest' = offered
    /\ offered' = None
    /\ UNCHANGED held

Take(r) == \E b \in {latest, offered} \ {None} :
    /\ held' = [held EXCEPT ![r] = b]
    /\ UNCHANGED <<latest, offered>>

Release(r) ==
    /\ held' = [held EXCEPT ![r] = None]
    /\ UNCHANGED <<latest, offered>>

Next == Offer \/ Name \/ \E r \in Reader : Take(r) \/ Release(r)

Spec == Init /\ [][Next]_<<latest, offered, held>>

=============================================================================
