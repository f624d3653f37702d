-------------------------- MODULE MC_FollowerImport --------------------------
(* Small tables for model checking FollowerImport in five situations, of     *)
(* which the initial state chooses one: "policy", the constants of the       *)
(* configuration file, where new records stay disabled over several bundles; *)
(* "plan", single imports of locked, overridden and protected rows that may  *)
(* be interrupted; "concurrent", rows edited while an import runs; "links",  *)
(* a table whose ids are surrogates; "history", recordings of the rows.      *)
EXTENDS MC_ImportTables

VARIABLE situation

Plan == INSTANCE FollowerImport WITH
    Rows <- PlanRows, Tables <- PlanTables,
    MaxBundles <- 1, MaxEdits <- 0, MaxFaults <- 1

Concurrently == INSTANCE FollowerImport WITH
    Policy <- "source", Rows <- LockRows, Tables <- LockTables,
    Fresh <- FALSE, Concurrent <- TRUE, MaxBundles <- 1

Links == INSTANCE FollowerImport WITH
    Surrogate <- TRUE, Policy <- "none", Overrides <- NoOverrides, Rows <- LinkRows, Tables <- LinkTables,
    Kinds <- {"apply"}, MaxBundles <- 1, MaxEdits <- 0

History == INSTANCE FollowerImport WITH
    Policy <- "none", Rows <- LinkRows, Tables <- LinkTables,
    Recordings <- {1, 2}, MaxBundles <- 1, MaxEdits <- 0

MCInit ==
    \/ situation = "policy" /\ Init
    \/ situation = "plan" /\ Plan!Init
    \/ situation = "concurrent" /\ Concurrently!Init
    \/ situation = "links" /\ Links!Init
    \/ situation = "history" /\ History!Init

MCNext ==
    /\ \/ situation = "policy" /\ Next
       \/ situation = "plan" /\ Plan!Next
       \/ situation = "concurrent" /\ Concurrently!Next
       \/ situation = "links" /\ Links!Next
       \/ situation = "history" /\ History!Next
    /\ UNCHANGED situation

MCSpec == MCInit /\ [][MCNext]_<<vars, situation>>

=============================================================================
