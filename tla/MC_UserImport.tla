---------------------------- MODULE MC_UserImport ----------------------------
(* Two accounts for model checking UserImport in two situations, of which    *)
(* the initial state chooses one: "everything", the constants of the         *)
(* configuration file, where the rules select all accounts, the channel      *)
(* profiles are mirrored and the administrator deletes things; and           *)
(* "excluded", where one account is excluded and the profiles stay local.    *)
EXTENDS UserImport

CONSTANTS u, v

Policies == [n \in Name |-> IF n = u THEN "follow" ELSE "inactive"]

VARIABLE situation

Excluded == INSTANCE UserImport WITH
    Selected <- {u}, ImportProfiles <- FALSE

MCInit == Init /\ situation \in {"everything", "excluded"}

MCNext ==
    /\ \/ situation = "everything" /\ Next
       \/ situation = "excluded" /\ Excluded!Next
    /\ UNCHANGED situation

MCSpec == MCInit /\ [][MCNext]_<<vars, situation>>

\* An account that the rules exclude, or that only this node has, does not
\* change where the channel profiles stay local (user_accounts.py,
\* apply_user_import); mirrored profiles take their memberships with them.
ExcludedUnchanged ==
    [][situation = "excluded" /\ outcome' = "applied" /\ outcome # "applied" =>
        \A n \in DOMAIN db.users \ ({u} \cap DOMAIN snapshot) : db'.users[n] = db.users[n]]_vars

=============================================================================
