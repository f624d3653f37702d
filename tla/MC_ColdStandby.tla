----------------------------- MODULE MC_ColdStandby -----------------------------
(* Two nodes for model checking ColdStandby in three situations, of which    *)
(* the initial state chooses one: "kills", the constants of the              *)
(* configuration file, with kills and failing publications; "unreadable",    *)
(* where a start may also fail to read the store; and "orderly", where the   *)
(* loop is idle when the service stops and starts go on.                     *)
EXTENDS ColdStandby

CONSTANTS a, b

VARIABLE situation

Unreadable == INSTANCE ColdStandby WITH MaxExports <- 5, MaxKills <- 1, MaxReadErrors <- 1, MaxWriteErrors <- 0

Orderly == INSTANCE ColdStandby WITH
    LoopStopsFirst <- TRUE, MaxExports <- 5, MaxKills <- 0, MaxWriteErrors <- 1

MCInit == Init /\ situation \in {"kills", "unreadable", "orderly"}

MCNext ==
    /\ \/ situation = "kills" /\ Next
       \/ situation = "unreadable" /\ Unreadable!Next
       \/ situation = "orderly" /\ Orderly!Next
    /\ UNCHANGED situation

MCSpec ==
    /\ MCInit /\ [][MCNext]_<<vars, situation>>
    /\ \A n \in Node : WF_vars(situation = "orderly" /\ Orderly!Starting(n))

\* A node that starts on its peer's final bundle becomes the authority, unless it
\* is stopped during the start (engine.py, recover_cold_standby and
\* _accept_cold_shutdown).
OrderlyTakeoverCompletes ==
    \A n \in Node :
        (situation = "orderly" /\ pc[n] = "recovering" /\ store.final /\ Newer(n))
            ~> (auth[n] \/ pc[n] = "down" \/ faults.early)

=============================================================================
