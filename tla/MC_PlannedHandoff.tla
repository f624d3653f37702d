--------------------------- MODULE MC_PlannedHandoff ---------------------------
(* Two nodes, each other's peer, for model checking PlannedHandoff. The     *)
(* initial state chooses one of five situations: "direct", the constants of *)
(* the configuration file, where the operator does what a pair without a    *)
(* VIP allows; "hybrid", a pair with a shared store and a client VIP;       *)
(* "faulty", a serving pair whose VIP commands fail; "conflicts", a pair    *)
(* whose imports meet conflicts and that never hands over; and "calm", a    *)
(* serving pair that hands over undisturbed.                                *)
EXTENDS MC_TwoNodes

VARIABLE situation

Hybrid == INSTANCE PlannedHandoff WITH
    Mode <- "hybrid", ClientAccess <- "plugin_vip",
    Operations <- {"request_handoff", "acquire_vip"},
    Faults <- {"direct_pull", "shared_write"}

Faulty == INSTANCE PlannedHandoff WITH
    ClientAccess <- "plugin_vip",
    Operations <- {"request_handoff", "import_latest", "release_vip"},
    Faults <- {"direct_pull", "vip_command"}

Conflicts == INSTANCE PlannedHandoff WITH
    Operations <- {"import_latest", "initialize", "export_now"},
    ApplyOutcomes <- {"applied", "conflict"}, Faults <- {}

Calm == INSTANCE PlannedHandoff WITH
    Mode <- "hybrid", ClientAccess <- "plugin_vip", PlainLimit <- 3, MaxSequence <- 6,
    Operations <- {"request_handoff"}, ApplyOutcomes <- {"applied"}, Faults <- {}, Crashes <- 0

\* As Init, but the operator of the Main has already brought its clients online.
ServingInit ==
    /\ authoritative = [n \in Node |-> n = Main]
    /\ exported = [n \in Node |-> 0]
    /\ applied = [n \in Node |-> None]
    /\ serving = [n \in Node |-> n = Main]
    /\ handoff = [n \in Node |-> HandoffAt("none", None)]
    /\ outbound = [n \in Node |-> None]
    /\ shared = None
    /\ vip = {Main}
    /\ lock = [n \in Node |-> None]
    /\ pc = [n \in Node |-> [w \in Worker |-> "idle"]]
    /\ work = [n \in Node |-> [w \in Worker |-> None]]
    /\ crashes = 0
    /\ disturbed = {}

MCInit ==
    \/ situation \in {"direct", "hybrid", "conflicts"} /\ Init
    \/ situation \in {"calm", "faulty"} /\ ServingInit

MCNext ==
    /\ \/ situation = "direct" /\ Next
       \/ situation = "hybrid" /\ Hybrid!Next
       \/ situation = "faulty" /\ Faulty!Next
       \/ situation = "conflicts" /\ Conflicts!Next
       \/ situation = "calm" /\ Calm!Next
    /\ UNCHANGED situation

\* Fairness is assumed of the calm situation alone.
MCFairness ==
    \A n \in Node :
        /\ WF_vars(situation = "calm" /\ Calm!LoopCycle(n))
        /\ \A w \in Worker : WF_vars(situation = "calm" /\ Calm!Continue(n, w))

MCSpec == MCInit /\ [][MCNext]_<<vars, disturbed, situation>> /\ MCFairness

\* A handoff requested of an undisturbed pair completes (engine.py, from
\* request_planned_handoff to _accept_handoff).
CalmHandoffCompletes ==
    \A n \in Node : situation = "calm" /\ Calm!HandoffRequested(n) ~> Calm!HandedOver(n)

=============================================================================
