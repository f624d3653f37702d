---------------------------- MODULE MC_ServiceLease ----------------------------
(* Two workers for model checking ServiceLease in four situations, of which  *)
(* the initial state chooses one: "reload", the constants of the             *)
(* configuration file, with starts, stops, reloads and a crash; "shutdown",  *)
(* where every worker is told to stop and a final export may fail; "elect",  *)
(* where signals of an earlier life are in Redis; and "lapse", where the     *)
(* lease lapses under a running service.                                     *)
EXTENDS ServiceLease

CONSTANTS a, b

VARIABLE situation

Shutdown == INSTANCE ServiceLease WITH
    Requests <- {"shutdown"}, MaxCrashes <- 0, MaxFaults <- 1

Elect == INSTANCE ServiceLease WITH
    Requests <- {"start"}, Stale <- TRUE, MaxCrashes <- 0

Lapse == INSTANCE ServiceLease WITH
    Requests <- {"start"}, MaxCrashes <- 0, MaxStalls <- 2

MCInit ==
    \/ situation \in {"reload", "shutdown", "lapse"} /\ Init
    \/ situation = "elect" /\ Elect!Init

MCNext ==
    /\ \/ situation = "reload" /\ Next
       \/ situation = "shutdown" /\ Shutdown!Next
       \/ situation = "elect" /\ Elect!Next
       \/ situation = "lapse" /\ Lapse!Next
    /\ UNCHANGED situation

\* The fairness of ServiceLease. Only the shutdown lets an export fail.
MCFairness ==
    /\ \A p \in Worker :
        WF_vars(IF situation = "shutdown" THEN Shutdown!Worked(p) ELSE Worked(p))
    /\ \A s \in Service :
        /\ WF_vars(IF situation = "shutdown" THEN Shutdown!LeaseThread(s) ELSE LeaseThread(s))
        /\ WF_vars(EndCycle(s)) /\ WF_vars(EndLoop(s))
    /\ WF_vars(ExpireLease)

MCSpec == MCInit /\ [][MCNext]_<<vars, situation>> /\ MCFairness

\* Without stops and crashes one service is elected and stays, although
\* signals of an earlier life are in Redis (autostart.py, acquire_service_lease).
UnstoppedStays ==
    <>[](situation = "elect" => \E s \in Service : Active(s) /\ LoopRuns(s))

=============================================================================
