---------------------------- MODULE PlannedHandoff ----------------------------
(***************************************************************************)
(* The planned online handoff of authority between a Main and its peer:    *)
(* ReplicationEngine of failovarr/engine.py as its two callers run it, the *)
(* background loop of BackgroundService._run and the operator's actions    *)
(* (Plugin.run and the setup assistant), each in a process of its own.     *)
(*                                                                         *)
(* Covered:                                                                *)
(*   - the two halves of every locked operation: the authority check made  *)
(*     before the per-node file lock and the work done under it            *)
(*   - export, with the sequence reserved on disk before publication       *)
(*   - the handoff phases: request, prepare, poll, fence, surrender, grant *)
(*   - import and initialisation, and what they do with a grant            *)
(*   - the client endpoint: plugin-managed VIP or proxy readiness          *)
(*                                                                         *)
(* Failures covered: a crash of a node at any step (its state file and     *)
(* outbound bundle survive, its lock is dropped by the kernel), failing    *)
(* pulls, status polls, store writes and VIP commands, imports that end in *)
(* a conflict or an exception.                                             *)
(*                                                                         *)
(* Abstractions: a bundle is its signed metadata; payload_sha256 is the    *)
(* pair <<source, sequence>>, which the reservation keeps unique. A step   *)
(* holds at most one read of another process's data.                       *)
(***************************************************************************)
EXTENDS Naturals

CONSTANTS
    Node,            \* the nodes of the cluster
    Peer,            \* Peer[n]: the node behind peer_url and peer_node_id of n
    Main,            \* the node configured with role "leader"
    Mode,            \* transport: "direct" or "hybrid"
    ClientAccess,    \* client_access_mode: "plugin_vip", "external_proxy", "none"
    AutomaticApply,  \* the nodes with automatic_apply on
    Operator,        \* the web workers of a node that run operator actions
    Operations,      \* the operator actions that may be invoked
    ApplyOutcomes,   \* how an import of a verified bundle may end
    Faults,          \* the calls that may fail
    Crashes,         \* bound: how many crashes may happen
    PlainLimit,      \* bound: an ordinary export needs a lower sequence than this
    MaxSequence,     \* bound: the largest sequence a node may reserve
    None             \* no bundle, no hash, no lock owner

Worker == {"loop"} \cup Operator

OperatorActions == {"export_now", "request_handoff", "import_latest", "initialize",
                    "acquire_vip", "release_vip", "proxy_ready", "proxy_not_ready"}

FaultKinds == {"direct_pull", "outbound_write", "shared_write", "vip_command"}

BundleId == [source : Node, sequence : Nat]

Bundle == [source : Node, sequence : Nat,
           phase : {"plain", "prepare", "grant"}, prepare : BundleId \cup {None}]

HandoffPhase == {"none", "requested", "waiting_for_apply", "granting", "complete"}

Handoff == [phase : HandoffPhase, prepare : BundleId \cup {None}]

ASSUME PeerAssumption == /\ Main \in Node
                         /\ Peer \in [Node -> Node]
                         /\ \A n \in Node : Peer[n] # n

ASSUME ConfigAssumption == /\ Mode \in {"direct", "hybrid"}
                           /\ ClientAccess \in {"plugin_vip", "external_proxy", "none"}
                           /\ AutomaticApply \subseteq Node
                           /\ Operator \cap {"loop", "authority", "granting"} = {}
                           /\ Operations \subseteq OperatorActions
                           /\ ApplyOutcomes \subseteq {"applied", "conflict", "error"}
                           /\ Faults \subseteq FaultKinds

ASSUME BoundAssumption == Crashes \in Nat /\ PlainLimit \in Nat /\ MaxSequence \in Nat

ASSUME NoneAssumption == None \notin Bundle \cup BundleId \cup Worker

VARIABLES
    authoritative,   \* state.json "authoritative", or the configured role
    exported,        \* state.json "exported_sequence"
    applied,         \* state.json "applied_hash", "applied_sequence", "source_node"
    serving,         \* state.json "client_serving"
    handoff,         \* state.json "handoff"
    outbound,        \* the node-local outbound bundle its HTTP server answers with
    shared,          \* the latest bundle of the shared store (hybrid)
    vip,             \* the nodes whose interface carries the client VIP
    lock,            \* which worker holds the node's .replication.lock
    pc,              \* where each worker stands
    work,            \* the envelope (or its metadata) a worker carries
    crashes,         \* crashes so far
    disturbed        \* history: what happened so far that the loops alone never do

stateFile == <<authoritative, exported, applied, serving, handoff>>
vars == <<authoritative, exported, applied, serving, handoff, outbound, shared,
          vip, lock, pc, work, crashes>>

\* What an operator does in the middle of a handoff, or an import that ends in a
\* conflict and accepts the grant all the same.
Disturbance == {"export_now", "import_latest", "acquire_vip", "conflict"}

\* Steps at which a worker waits for the lock or runs between two lock sections.
Waiting == {"idle", "export", "record", "fence", "surrender", "export_grant", "apply",
            "initialize", "accept", "enable", "acquire_vip", "request_handoff",
            "release_vip", "proxy_ready", "proxy_not_ready"}

\* Steps at which the worker is inside exclusive_lock().
Locked == {"publish", "share", "published", "import", "replace", "add_vip"}

-----------------------------------------------------------------------------
(* Helpers *)

Id(b) == [source |-> b.source, sequence |-> b.sequence]

AppliedSequence(n) == IF applied[n] = None THEN 0 ELSE applied[n].sequence

\* Mutant: the sequence taken over with an import is forgotten.
MutantKnownSequence(n) == exported[n]

\* max(exported_sequence, applied_sequence)
KnownSequence(n) ==
    IF exported[n] >= AppliedSequence(n) THEN exported[n] ELSE AppliedSequence(n)

\* The metadata an export starts from; the sequence is filled in under the lock.
Draft(n, phase, prepare) ==
    [source |-> n, sequence |-> 0, phase |-> phase, prepare |-> prepare]

Numbered(draft, sequence) ==
    [source |-> draft.source, sequence |-> sequence,
     phase |-> draft.phase, prepare |-> draft.prepare]

HandoffAt(phase, prepare) == [phase |-> phase, prepare |-> prepare]

ClientReady(n) == authoritative[n] /\ serving[n]

\* What _load_candidate may return: the peer's answer, and in hybrid mode the
\* shared latest when the direct pull fails.
Candidates(n) ==
    LET direct == {outbound[Peer[n]]} \ {None}
        fallback == IF Mode = "hybrid" /\ (direct = {} \/ "direct_pull" \in Faults)
                      THEN {shared} \ {None} ELSE {}
    IN  direct \cup fallback

\* verified_candidate(require_new=True)
Newer(n, b) == b.source # n /\ b.sequence > KnownSequence(n)

\* The handoff metadata apply_latest accepts.
HandoffMatches(n, b) ==
    /\ b.phase # "plain" => Peer[b.source] = n
    /\ b.phase = "grant" => applied[n] # None /\ applied[n] = b.prepare
                                              /\ applied[n].source = b.source

Goto(n, w, step) == pc' = [pc EXCEPT ![n][w] = step]

Unlocked(n) == lock[n] = None

-----------------------------------------------------------------------------
Init ==
    /\ authoritative = [n \in Node |-> n = Main]
    /\ exported = [n \in Node |-> 0]
    /\ applied = [n \in Node |-> None]
    /\ serving = [n \in Node |-> FALSE]
    /\ handoff = [n \in Node |-> HandoffAt("none", None)]
    /\ outbound = [n \in Node |-> None]
    /\ shared = None
    /\ vip = {}
    /\ lock = [n \in Node |-> None]
    /\ pc = [n \in Node |-> [w \in Worker |-> "idle"]]
    /\ work = [n \in Node |-> [w \in Worker |-> None]]
    /\ crashes = 0
    /\ disturbed = {}

-----------------------------------------------------------------------------
(* The background loop: one cycle of BackgroundService._run from its idle    *)
(* wait up to the first lock it needs.                                       *)

BeginExport(n, w, draft) ==
    /\ Goto(n, w, "export")
    /\ work' = [work EXCEPT ![n][w] = draft]
    /\ UNCHANGED <<stateFile, outbound, shared, vip, lock, crashes>>

\* process_handoff with phase "requested": export the preparation bundle.
LoopPrepare(n) ==
    /\ pc[n]["loop"] = "idle"
    /\ authoritative[n]
    /\ handoff[n].phase = "requested"
    /\ BeginExport(n, "loop", Draft(n, "prepare", None))

\* process_handoff with phase "waiting_for_apply": ask the peer what it has
\* applied and go on only when it is exactly the preparation bundle.
LoopPollPeer(n) ==
    /\ pc[n]["loop"] = "idle"
    /\ authoritative[n]
    /\ handoff[n].phase = "waiting_for_apply"
    /\ applied[Peer[n]] = handoff[n].prepare
    /\ Goto(n, "loop", "fence")
    /\ work' = [work EXCEPT ![n]["loop"] = Draft(n, "grant", handoff[n].prepare)]
    /\ UNCHANGED <<stateFile, outbound, shared, vip, lock, crashes>>

\* No handoff under way: the periodic export.
LoopExport(n) ==
    /\ pc[n]["loop"] = "idle"
    /\ authoritative[n]
    /\ handoff[n].phase \notin {"requested", "waiting_for_apply"}
    /\ KnownSequence(n) + 1 < PlainLimit
    /\ BeginExport(n, "loop", Draft(n, "plain", None))

\* A passive node with automatic_apply: apply_latest, past its authority check.
LoopImport(n) ==
    /\ pc[n]["loop"] = "idle"
    /\ ~authoritative[n]
    /\ n \in AutomaticApply
    /\ Goto(n, "loop", "apply")
    /\ UNCHANGED <<stateFile, outbound, shared, vip, lock, work, crashes>>

-----------------------------------------------------------------------------
(* The operator's actions: each reads the authority before it waits for the  *)
(* lock.                                                                     *)

OperatorExport(n, w) ==
    /\ "export_now" \in Operations
    /\ pc[n][w] = "idle"
    /\ authoritative[n]
    /\ KnownSequence(n) + 1 < PlainLimit
    /\ BeginExport(n, w, Draft(n, "plain", None))

\* The steps an operator action waits at, and what its unlocked check requires.
OperatorMayStart(n, step) ==
    \/ step = "request_handoff" /\ authoritative[n]
    \/ step \in {"apply", "initialize"} /\ ~authoritative[n]
    \/ step = "acquire_vip" /\ ClientAccess = "plugin_vip" /\ authoritative[n]
    \/ step = "release_vip"
    \/ step = "proxy_ready" /\ ClientAccess = "external_proxy" /\ authoritative[n]
    \/ step = "proxy_not_ready" /\ ClientAccess = "external_proxy"

OperationOf(step) == IF step = "apply" THEN "import_latest" ELSE step

OperatorStart(n, w) ==
    /\ pc[n][w] = "idle"
    /\ \E step \in {"request_handoff", "apply", "initialize", "acquire_vip", "release_vip",
                    "proxy_ready", "proxy_not_ready"} :
          /\ OperationOf(step) \in Operations
          /\ OperatorMayStart(n, step)
          /\ Goto(n, w, step)
    /\ UNCHANGED <<stateFile, outbound, shared, vip, lock, work, crashes>>

-----------------------------------------------------------------------------
(* export_now and _export_after_surrender: reserve the sequence on disk,     *)
(* then publish, all under the lock.                                         *)

\* Mutant: the sequence is published without having been written to disk.
MutantReserveSequence(n, w) ==
    LET sequence == KnownSequence(n) + 1
    IN  /\ Unlocked(n)
        /\ sequence <= MaxSequence
        /\ work' = [work EXCEPT ![n][w] = Numbered(@, sequence)]
        /\ lock' = [lock EXCEPT ![n] = w]
        /\ Goto(n, w, "publish")
        /\ UNCHANGED <<stateFile, outbound, shared, vip, crashes>>

ReserveSequence(n, w) ==
    LET sequence == KnownSequence(n) + 1
    IN  /\ Unlocked(n)
        /\ sequence <= MaxSequence
        /\ exported' = [exported EXCEPT ![n] = sequence]
        /\ work' = [work EXCEPT ![n][w] = Numbered(@, sequence)]
        /\ lock' = [lock EXCEPT ![n] = w]
        /\ Goto(n, w, "publish")
        /\ UNCHANGED <<authoritative, applied, serving, handoff, outbound, shared,
                       vip, crashes>>

ExportReserve(n, w) == pc[n][w] = "export" /\ ReserveSequence(n, w)

\* The grant repeats the prepared envelope, which must still be the outbound one.
PreparedIsOutbound(n, w) ==
    outbound[n] # None /\ Id(outbound[n]) = work[n][w].prepare

GrantReserve(n, w) ==
    /\ pc[n][w] = "export_grant"
    /\ PreparedIsOutbound(n, w)
    /\ ReserveSequence(n, w)

Abandon(n, w) ==
    /\ Goto(n, w, "idle")
    /\ work' = [work EXCEPT ![n][w] = None]

\* "Prepared handoff bundle is no longer available": the node stays passive.
GrantLost(n, w) ==
    /\ pc[n][w] = "export_grant"
    /\ Unlocked(n)
    /\ ~PreparedIsOutbound(n, w)
    /\ Abandon(n, w)
    /\ UNCHANGED <<stateFile, outbound, shared, vip, lock, crashes>>

PublishOutbound(n, w) ==
    /\ pc[n][w] = "publish"
    /\ outbound' = [outbound EXCEPT ![n] = work[n][w]]
    /\ Goto(n, w, IF Mode = "hybrid" THEN "share" ELSE "published")
    /\ UNCHANGED <<stateFile, shared, vip, lock, work, crashes>>

PublishShared(n, w) ==
    /\ pc[n][w] = "share"
    /\ shared' = work[n][w]
    /\ Goto(n, w, "published")
    /\ UNCHANGED <<stateFile, outbound, vip, lock, work, crashes>>

\* The outbound write raises: the lock is released and the sequence stays skipped.
PublishFails(n, w) ==
    /\ pc[n][w] = "publish" /\ "outbound_write" \in Faults
    /\ Abandon(n, w)
    /\ lock' = [lock EXCEPT ![n] = None]
    /\ UNCHANGED <<stateFile, outbound, shared, vip, crashes>>

\* The shared store raises, before or after it has replaced its latest bundle.
ShareFails(n, w) ==
    /\ pc[n][w] = "share" /\ "shared_write" \in Faults
    /\ shared' \in {shared, work[n][w]}
    /\ Abandon(n, w)
    /\ lock' = [lock EXCEPT ![n] = None]
    /\ UNCHANGED <<stateFile, outbound, vip, crashes>>

\* The lock is released; a bundle of a handoff still has to be recorded.
FinishExport(n, w) ==
    LET isPlain == work[n][w].phase = "plain"
    IN  /\ pc[n][w] = "published"
        /\ Goto(n, w, IF isPlain THEN "idle" ELSE "record")
        /\ work' = [work EXCEPT ![n][w] = IF isPlain THEN None ELSE @]
        /\ lock' = [lock EXCEPT ![n] = None]
        /\ UNCHANGED <<stateFile, outbound, shared, vip, crashes>>

-----------------------------------------------------------------------------
(* The handoff phases of the giving node.                                    *)

\* request_handoff, under the lock.
RecordRequest(n, w) ==
    /\ pc[n][w] = "request_handoff"
    /\ Unlocked(n)
    /\ Goto(n, w, "idle")
    /\ handoff' = IF handoff[n].phase \in {"none", "complete"}
                    THEN [handoff EXCEPT ![n] = HandoffAt("requested", None)]
                    ELSE handoff
    /\ UNCHANGED <<authoritative, exported, applied, serving, outbound, shared, vip,
                   lock, work, crashes>>

\* Mutant: the phase is recorded without the hash the poll compares with.
MutantRecordPhaseOnly(n, w) ==
    /\ pc[n][w] = "record" /\ work[n][w].phase = "prepare"
    /\ Unlocked(n)
    /\ handoff' = [handoff EXCEPT ![n] = HandoffAt("waiting_for_apply", None)]
    /\ Abandon(n, w)
    /\ UNCHANGED <<authoritative, exported, applied, serving, outbound, shared, vip,
                   lock, crashes>>

RecordPrepare(n, w) ==
    /\ pc[n][w] = "record" /\ work[n][w].phase = "prepare"
    /\ Unlocked(n)
    /\ handoff' = [handoff EXCEPT ![n] = HandoffAt("waiting_for_apply", Id(work[n][w]))]
    /\ Abandon(n, w)
    /\ UNCHANGED <<authoritative, exported, applied, serving, outbound, shared, vip,
                   lock, crashes>>

\* Mutant: the fence clears the flag and leaves the address on the interface.
MutantFence(n, w) ==
    /\ pc[n][w] = "fence"
    /\ Unlocked(n)
    /\ serving' = [serving EXCEPT ![n] = FALSE]
    /\ Goto(n, w, "surrender")
    /\ UNCHANGED <<authoritative, exported, applied, handoff, outbound, shared, vip, lock,
                   work, crashes>>

\* _disable_client_serving: the flag is cleared, then the VIP removed (vip is
\* empty when the plugin does not manage one).
Fence(n, w) ==
    /\ pc[n][w] = "fence"
    /\ Unlocked(n)
    /\ serving' = [serving EXCEPT ![n] = FALSE]
    /\ vip' = vip \ {n}
    /\ Goto(n, w, "surrender")
    /\ UNCHANGED <<authoritative, exported, applied, handoff, outbound, shared, lock,
                   work, crashes>>

\* A failing command ends the cycle with the flag cleared and authority kept.
FenceFails(n, w) ==
    /\ pc[n][w] = "fence"
    /\ Unlocked(n)
    /\ ClientAccess = "plugin_vip" /\ "vip_command" \in Faults
    /\ serving' = [serving EXCEPT ![n] = FALSE]
    /\ Abandon(n, w)
    /\ UNCHANGED <<authoritative, exported, applied, handoff, outbound, shared, vip,
                   lock, crashes>>

Surrender(n, w) ==
    /\ pc[n][w] = "surrender"
    /\ Unlocked(n)
    /\ authoritative' = [authoritative EXCEPT ![n] = FALSE]
    /\ handoff' = [handoff EXCEPT ![n] = HandoffAt("granting", work[n][w].prepare)]
    /\ Goto(n, w, "export_grant")
    /\ UNCHANGED <<exported, applied, serving, outbound, shared, vip, lock, work, crashes>>

RecordGrant(n, w) ==
    /\ pc[n][w] = "record" /\ work[n][w].phase = "grant"
    /\ Unlocked(n)
    /\ handoff' = [handoff EXCEPT ![n] = HandoffAt("complete", work[n][w].prepare)]
    /\ Abandon(n, w)
    /\ UNCHANGED <<authoritative, exported, applied, serving, outbound, shared, vip,
                   lock, crashes>>

-----------------------------------------------------------------------------
(* The importing node: apply_latest and initialize_follower.                 *)

\* verified_candidate, and for apply_latest the check of the handoff metadata;
\* initialize_follower takes any newer bundle.
Acceptable(n, w, b) == Newer(n, b) /\ (pc[n][w] = "apply" => HandoffMatches(n, b))

FetchBundle(n, w) ==
    /\ pc[n][w] \in {"apply", "initialize"}
    /\ Unlocked(n)
    /\ \E b \in Candidates(n) :
          /\ Acceptable(n, w, b)
          /\ work' = [work EXCEPT ![n][w] = b]
    /\ lock' = [lock EXCEPT ![n] = w]
    /\ Goto(n, w, IF pc[n][w] = "apply" THEN "import" ELSE "replace")
    /\ UNCHANGED <<stateFile, outbound, shared, vip, crashes>>

\* No bundle can be loaded, or the one loaded is refused.
FetchNothing(n, w) ==
    /\ pc[n][w] \in {"apply", "initialize"}
    /\ Unlocked(n)
    /\ "direct_pull" \in Faults \/ ~\E b \in Candidates(n) : Acceptable(n, w, b)
    /\ Goto(n, w, "idle")
    /\ UNCHANGED <<stateFile, outbound, shared, vip, lock, work, crashes>>

\* Mutant: the preparation bundle already counts as the grant.
MutantEndImport(n, w) ==
    LET accepts == pc[n][w] = "import" /\ work[n][w].phase # "plain"
    IN  /\ Goto(n, w, IF accepts THEN "accept" ELSE "idle")
        /\ work' = [work EXCEPT ![n][w] = IF accepts THEN @ ELSE None]
        /\ lock' = [lock EXCEPT ![n] = None]

\* The end of the locked part: apply_latest goes on to accept a grant.
EndImport(n, w) ==
    LET accepts == pc[n][w] = "import" /\ work[n][w].phase = "grant"
    IN  /\ Goto(n, w, IF accepts THEN "accept" ELSE "idle")
        /\ work' = [work EXCEPT ![n][w] = IF accepts THEN @ ELSE None]
        /\ lock' = [lock EXCEPT ![n] = None]

ImportApplied(n, w) ==
    /\ pc[n][w] \in {"import", "replace"}
    /\ "applied" \in ApplyOutcomes
    /\ applied' = [applied EXCEPT ![n] = Id(work[n][w])]
    /\ EndImport(n, w)
    /\ UNCHANGED <<authoritative, exported, serving, handoff, outbound, shared, vip,
                   crashes>>

\* Conflicting identities: nothing is imported or recorded, the grant still is
\* accepted.
ImportConflict(n, w) ==
    /\ pc[n][w] \in {"import", "replace"}
    /\ "conflict" \in ApplyOutcomes
    /\ EndImport(n, w)
    /\ UNCHANGED <<stateFile, outbound, shared, vip, crashes>>

ImportFails(n, w) ==
    /\ pc[n][w] \in {"import", "replace"}
    /\ "error" \in ApplyOutcomes
    /\ Abandon(n, w)
    /\ lock' = [lock EXCEPT ![n] = None]
    /\ UNCHANGED <<stateFile, outbound, shared, vip, crashes>>

\* _accept_handoff_grant, up to the release of the lock.
AcceptGrant(n, w) ==
    /\ pc[n][w] = "accept"
    /\ Unlocked(n)
    /\ authoritative' = [authoritative EXCEPT ![n] = TRUE]
    /\ handoff' = [handoff EXCEPT ![n] = HandoffAt("complete", None)]
    /\ Goto(n, w, "enable")
    /\ work' = [work EXCEPT ![n][w] = None]
    /\ UNCHANGED <<exported, applied, serving, outbound, shared, vip, lock, crashes>>

-----------------------------------------------------------------------------
(* The client endpoint.                                                      *)

\* _enable_client_serving without the VIP.
EnableServing(n, w) ==
    /\ pc[n][w] = "enable"
    /\ ClientAccess # "plugin_vip"
    /\ Unlocked(n)
    /\ serving' = [serving EXCEPT ![n] = (ClientAccess = "external_proxy")]
    /\ Goto(n, w, "idle")
    /\ UNCHANGED <<authoritative, exported, applied, handoff, outbound, shared, vip,
                   lock, work, crashes>>

\* With the VIP it is acquire_client_vip, whose authority check is unlocked.
EnableVip(n, w) ==
    /\ pc[n][w] = "enable"
    /\ ClientAccess = "plugin_vip"
    /\ Goto(n, w, IF authoritative[n] THEN "acquire_vip" ELSE "idle")
    /\ UNCHANGED <<stateFile, outbound, shared, vip, lock, work, crashes>>

\* VipManager.acquire under the lock: an address already carried is kept, one
\* that answers on the network is refused (as when a command fails), otherwise it
\* is added.
KeepVip(n, w) ==
    /\ pc[n][w] = "acquire_vip"
    /\ Unlocked(n)
    /\ n \in vip
    /\ serving' = [serving EXCEPT ![n] = TRUE]
    /\ Goto(n, w, "idle")
    /\ UNCHANGED <<authoritative, exported, applied, handoff, outbound, shared, vip,
                   lock, work, crashes>>

AcquireRefused(n, w) ==
    /\ pc[n][w] = "acquire_vip"
    /\ Unlocked(n)
    /\ (n \notin vip /\ vip # {}) \/ "vip_command" \in Faults
    /\ Goto(n, w, "idle")
    /\ UNCHANGED <<stateFile, outbound, shared, vip, lock, work, crashes>>

ProbeVip(n, w) ==
    /\ pc[n][w] = "acquire_vip"
    /\ Unlocked(n)
    /\ vip = {}
    /\ Goto(n, w, "add_vip")
    /\ lock' = [lock EXCEPT ![n] = w]
    /\ UNCHANGED <<stateFile, outbound, shared, vip, work, crashes>>

AddVip(n, w) ==
    /\ pc[n][w] = "add_vip"
    /\ vip' = vip \cup {n}
    /\ serving' = [serving EXCEPT ![n] = TRUE]
    /\ lock' = [lock EXCEPT ![n] = None]
    /\ Goto(n, w, "idle")
    /\ UNCHANGED <<authoritative, exported, applied, handoff, outbound, shared, work,
                   crashes>>

AddVipFails(n, w) ==
    /\ pc[n][w] = "add_vip"
    /\ "vip_command" \in Faults
    /\ lock' = [lock EXCEPT ![n] = None]
    /\ Goto(n, w, "idle")
    /\ UNCHANGED <<stateFile, outbound, shared, vip, work, crashes>>

\* release_client_vip from the operator: the flag is cleared first, and stays
\* cleared when the removal of the address fails.
ReleaseVip(n, w) ==
    /\ pc[n][w] = "release_vip"
    /\ Unlocked(n)
    /\ serving' = [serving EXCEPT ![n] = FALSE]
    /\ vip' = vip \ {n} \/ (vip' = vip /\ "vip_command" \in Faults)
    /\ Goto(n, w, "idle")
    /\ UNCHANGED <<authoritative, exported, applied, handoff, outbound, shared, lock,
                   work, crashes>>

\* set_proxy_readiness, under the lock.
SetProxyReadiness(n, w) ==
    /\ pc[n][w] \in {"proxy_ready", "proxy_not_ready"}
    /\ Unlocked(n)
    /\ serving' = [serving EXCEPT ![n] = (pc[n][w] = "proxy_ready")]
    /\ Goto(n, w, "idle")
    /\ UNCHANGED <<authoritative, exported, applied, handoff, outbound, shared, vip,
                   lock, work, crashes>>

-----------------------------------------------------------------------------
(* A node dies: its workers and its lock are gone, its files stay. The       *)
(* address survives a restart of the process, not of the container.          *)
Crash(n) ==
    /\ crashes < Crashes
    /\ crashes' = crashes + 1
    /\ pc' = [pc EXCEPT ![n] = [w \in Worker |-> "idle"]]
    /\ work' = [work EXCEPT ![n] = [w \in Worker |-> None]]
    /\ lock' = [lock EXCEPT ![n] = None]
    /\ vip' \in {vip, vip \ {n}}
    /\ UNCHANGED <<stateFile, outbound, shared>>

LoopCycle(n) == LoopPrepare(n) \/ LoopPollPeer(n) \/ LoopExport(n) \/ LoopImport(n)

\* The steps either kind of worker may be at.
Proceed(n, w) ==
    \/ ExportReserve(n, w) \/ PublishOutbound(n, w) \/ PublishShared(n, w)
    \/ PublishFails(n, w) \/ ShareFails(n, w) \/ FinishExport(n, w)
    \/ RecordRequest(n, w) \/ RecordPrepare(n, w)
    \/ Fence(n, w) \/ FenceFails(n, w) \/ Surrender(n, w)
    \/ GrantReserve(n, w) \/ GrantLost(n, w) \/ RecordGrant(n, w)
    \/ FetchBundle(n, w) \/ FetchNothing(n, w)
    \/ ImportApplied(n, w) \/ ImportFails(n, w)
    \/ AcceptGrant(n, w) \/ EnableServing(n, w) \/ EnableVip(n, w)
    \/ KeepVip(n, w) \/ AcquireRefused(n, w) \/ ProbeVip(n, w) \/ AddVip(n, w)
    \/ AddVipFails(n, w) \/ ReleaseVip(n, w) \/ SetProxyReadiness(n, w)

Continue(n, w) == Proceed(n, w) \/ ImportConflict(n, w)

Note(d) == disturbed' = disturbed \cup ({d} \cap Disturbance)

Next == \E n \in Node :
           \/ LoopCycle(n) /\ UNCHANGED disturbed
           \/ \E w \in Operator :
                 \/ OperatorExport(n, w) /\ Note("export_now")
                 \/ OperatorStart(n, w) /\ Note(OperationOf(pc'[n][w]))
           \/ \E w \in Worker :
                 \/ Proceed(n, w) /\ UNCHANGED disturbed
                 \/ ImportConflict(n, w) /\ Note("conflict")
           \/ Crash(n) /\ UNCHANGED disturbed

Spec == Init /\ [][Next]_<<vars, disturbed>>

\* The loop wakes every interval_seconds and never skips a cycle; a worker that
\* entered an operation is a running thread. Operators owe nothing.
Fairness ==
    \A n \in Node : /\ WF_vars(LoopCycle(n))
                    /\ \A w \in Worker : WF_vars(Continue(n, w))

FairSpec == Spec /\ Fairness

-----------------------------------------------------------------------------
(* Properties *)

TypeOK ==
    /\ authoritative \in [Node -> BOOLEAN]
    /\ exported \in [Node -> Nat]
    /\ applied \in [Node -> BundleId \cup {None}]
    /\ serving \in [Node -> BOOLEAN]
    /\ handoff \in [Node -> Handoff]
    /\ outbound \in [Node -> Bundle \cup {None}]
    /\ shared \in Bundle \cup {None}
    /\ vip \in SUBSET Node
    /\ lock \in [Node -> Worker \cup {None}]
    /\ pc \in [Node -> [Worker -> Waiting \cup Locked]]
    /\ work \in [Node -> [Worker -> Bundle \cup {None}]]
    /\ crashes \in 0..Crashes
    /\ disturbed \in SUBSET Disturbance

\* "Never allow two nodes to become authoritative writers at once": the state
\* files of two nodes never both say authoritative, whatever the interleaving of
\* loops, operators and crashes around a handoff.
AtMostOneAuthority ==
    \A m, n \in Node : authoritative[m] /\ authoritative[n] => m = n

\* A node between surrendering its authority and publishing the grant for it.
Granting(n) ==
    \/ pc[n]["loop"] = "export_grant"
    \/ pc[n]["loop"] = "publish" /\ work[n]["loop"].phase = "grant"

\* The ways a node holds authority or is committed to pass it or take it up.
ClaimKind == {"authority", "granting"} \cup Worker

Claim(n, kind) ==
    \/ kind = "authority" /\ authoritative[n]
    \/ kind = "granting" /\ Granting(n)
    \/ kind \in Worker /\ pc[n][kind] = "accept"

\* The bundles a reader can still be handed or already is importing.
VisibleBundles ==
    ({outbound[n] : n \in Node} \cup {shared}
       \cup UNION {{work[n][w] : w \in {v \in Worker : pc[n][v] \in {"share", "import"}}} :
                      n \in Node}) \ {None}

\* The grants their target would still accept.
GrantsInFlight ==
    {b \in VisibleBundles : b.phase = "grant" /\ applied[Peer[b.source]] = b.prepare}

\* Authority is a token: it is one node's state file, or one worker's pending
\* grant or acceptance, or the acceptable grants of one source, and never two
\* of these. It may be lost (a crash), it is never duplicated.
AuthorityIsOneToken ==
    /\ \A m, n \in Node : \A j, k \in ClaimKind :
          Claim(m, j) /\ Claim(n, k) => m = n /\ j = k
    /\ \A n \in Node : \A k \in ClaimKind : Claim(n, k) => GrantsInFlight = {}
    /\ \A b, c \in GrantsInFlight : b.source = c.source

\* Node n is about to publish a grant, or a grant of its is in flight.
GivesAuthority(n) == Granting(n) \/ \E b \in GrantsInFlight : b.source = n

TakesAuthority(n) == \E w \in Worker : pc[n][w] = "accept"

\* Where the token of authority is.
TokenPlaces ==
    {<<"held", n>> : n \in {m \in Node : authoritative[m]}}
      \cup {<<"given", n>> : n \in {m \in Node : GivesAuthority(m)}}
      \cup {<<"taken", n>> : n \in {m \in Node : TakesAuthority(m)}}

Token == INSTANCE AuthorityToken WITH token <- TokenPlaces

\* The handoff implements the token: authority passes from a node to its peer in
\* the three steps of AuthorityToken, and what crashes and overtaken grants lose is
\* never found again (engine.py, process_handoff and _accept_handoff_grant).
AuthorityPassesOn == Token!Spec

\* The sequence an authoritative node will use next is above every bundle any
\* node serves or stores, so no Follower can mistake a new bundle for an old one.
AuthorityKnowsNewest ==
    \A n \in Node : authoritative[n] =>
        \A b \in ({outbound[m] : m \in Node} \cup {shared}) \ {None} :
            b.sequence <= KnownSequence(n)

\* It does so until an operator exports by hand, while the loop hands over, or an
\* import ends in a conflict (engine.py, export_now, apply_latest).
KnowsNewestUnlessExported ==
    disturbed \cap {"export_now", "conflict"} = {} => AuthorityKnowsNewest

\* "A failed publish may skip a sequence but can never reuse one": what a node
\* serves is only ever replaced by a bundle of a higher sequence, although two
\* workers export, either may crash and any store write may fail.
OwnSequenceAdvances ==
    [][\A n \in Node : outbound'[n] # outbound[n] /\ outbound[n] # None =>
           outbound'[n].sequence > outbound[n].sequence]_vars

\* The lock is held by exactly the worker that stands inside a locked step.
LockInv == \A n \in Node, w \in Worker : pc[n][w] \in Locked <=> lock[n] = w

\* What a worker carries at each step, and that only the loop drives a handoff.
StepInv ==
    \A n \in Node : \A w \in Worker :
      /\ pc[n][w] \in {"export", "publish", "share", "published", "record", "fence",
                       "surrender", "export_grant", "import", "replace"} => work[n][w] # None
      /\ pc[n][w] \in {"fence", "surrender", "export_grant", "export", "publish"} =>
            work[n][w].source = n
      /\ pc[n][w] = "export" => work[n][w].phase # "grant"
      /\ pc[n][w] \in {"fence", "surrender", "export_grant"} =>
            w = "loop" /\ work[n][w].phase = "grant"
      /\ pc[n][w] \in {"fence", "surrender"} => authoritative[n]
      /\ w # "loop" /\ pc[n][w] \in {"export", "publish", "share", "published"} =>
            work[n][w].phase = "plain"
      /\ pc[n][w] = "record" => w = "loop"

\* The target of a grant has applied its preparation bundle, or something newer.
PreparedAtTarget(b) ==
    LET target == Peer[b.source]
    IN  /\ b.prepare # None
        /\ applied[target] # None
        /\ applied[target].sequence >= b.prepare.sequence

GrantInv ==
    /\ \A b \in VisibleBundles : b.phase = "grant" => PreparedAtTarget(b)
    /\ \A n \in Node :
          pc[n]["loop"] \in {"fence", "surrender", "export_grant", "publish"} =>
              (work[n]["loop"].phase = "grant" => PreparedAtTarget(work[n]["loop"]))
    /\ \A n \in Node : handoff[n].phase = "waiting_for_apply" => handoff[n].prepare # None

\* An import under the lock advances the applied sequence, and a grant being
\* imported is one this node may accept.
ImportInv ==
    \A n \in Node, w \in Worker :
      /\ pc[n][w] \in {"import", "replace"} => work[n][w].sequence > AppliedSequence(n)
      /\ pc[n][w] = "import" /\ work[n][w].phase = "grant" =>
            Peer[work[n][w].source] = n /\ applied[n] = work[n][w].prepare

\* The outbound bundle is one that was reserved, and a reserved sequence is above it.
SequenceInv ==
    \A n \in Node :
      /\ outbound[n] # None => outbound[n].sequence <= exported[n]
      /\ \A w \in Worker : pc[n][w] = "publish" =>
            /\ work[n][w].sequence = exported[n]
            /\ outbound[n] # None => outbound[n].sequence < exported[n]

\* The inductive invariant behind the theorems of PlannedHandoffProofs.
HandoffInv ==
    /\ TypeOK /\ LockInv /\ StepInv /\ SequenceInv
    /\ GrantInv /\ ImportInv /\ AuthorityIsOneToken

\* What a reader finds, or a worker is about to put into the shared store.
ServedBundles ==
    ({outbound[n] : n \in Node} \cup {shared}
       \cup UNION {{work[n][w] : w \in {v \in Worker : pc[n][v] = "share"}} : n \in Node})
      \ {None}

\* Where no operator exports: the loop alone does, it keeps its authority while it
\* does, and what it has reserved is above what it has applied.
ExporterInv ==
    \A n \in Node : \A w \in Worker :
      /\ pc[n][w] \in {"export", "publish"} =>
            w = "loop" /\ (work[n][w].phase # "grant" => authoritative[n])
      /\ pc[n][w] = "publish" => AppliedSequence(n) < exported[n]

\* Whoever has a claim on authority knows a sequence as high as any that is
\* served, and a grant that would still be accepted is the newest bundle itself.
NewestInv ==
    /\ \A n \in Node : \A k \in ClaimKind : Claim(n, k) =>
          \A b \in ServedBundles : b.sequence <= KnownSequence(n)
    /\ \A g \in GrantsInFlight : \A b \in ServedBundles : b.sequence <= g.sequence

\* "Only the authoritative node may export": apart from the grant that hands the
\* authority over, a bundle appears only while its node is authoritative.
OnlyAuthorityExports ==
    [][\A n \in Node : outbound'[n] # outbound[n] /\ outbound'[n].phase # "grant" =>
        authoritative[n]]_vars

\* "The old client endpoint is fenced before this signed grant becomes visible":
\* a node that gave its authority away and serves the grant has no client VIP.
FencedBeforeGrant ==
    \A n \in Node :
        ~authoritative[n] /\ outbound[n] # None /\ outbound[n].phase = "grant" => n \notin vip

\* It is until an operator acquires the VIP by hand or, where a node has several,
\* imports by hand, since another may request the next handoff before the VIP
\* is added (engine.py, acquire_client_vip).
FencedUnlessAcquired ==
    /\ "acquire_vip" \notin disturbed
    /\ \/ "import_latest" \notin disturbed
       \/ "conflict" \notin disturbed /\ \A v, w \in Operator : v = w
    => FencedBeforeGrant

\* "Duplicate detection": two nodes never carry the client VIP at a time. The
\* probe and the addition are two commands of a node, the lock is its own.
VipOnOneNode == \A m, n \in vip : m = n

\* A requested handoff ends with the peer authoritative and its clients served
\* (as long as MaxSequence leaves the two sequences it needs).
HandoffRequested(n) ==
    /\ authoritative[n] /\ handoff[n].phase = "requested"
    /\ KnownSequence(n) + 2 <= MaxSequence

HandedOver(n) ==
    /\ ClientReady(Peer[n])
    /\ ClientAccess = "plugin_vip" => vip = {Peer[n]}

HandoffCompletes == \A n \in Node : HandoffRequested(n) ~> HandedOver(n)

=============================================================================
