------------------------------ MODULE ColdStandby ------------------------------
(***************************************************************************)
(* Cold standby: two nodes share a bundle store, and the operator runs one *)
(* at a time. A node that stops gracefully publishes a final bundle that   *)
(* grants the authority to its peer; a node that starts first looks for a  *)
(* newer bundle of the peer. The start, the loop and the final export of   *)
(* BackgroundService with recover_cold_standby, export_on_shutdown,        *)
(* _accept_cold_shutdown and request_handoff of failovarr/engine.py.       *)
(*                                                                         *)
(* An import and an export are single steps under the node's lock (their   *)
(* parts are in PlannedHandoff and FollowerImport); what the code does     *)
(* outside that lock is a step of its own: looking for a newer bundle,     *)
(* accepting the authority, and the check of the authority with which an   *)
(* export begins. The lease thread runs from the beginning of a start, so  *)
(* that a stop may export at any step of it, and so may the page.          *)
(***************************************************************************)
EXTENDS Naturals

CONSTANTS
    Node, NoBundle,
    Main,               \* the node with role leader
    OneAtATime,         \* the operator starts a node only when the other one is down
    LoopStopsFirst,     \* the loop is idle when the service is told to stop
    ManualExports,      \* the operator exports from the page
    MaxExports, MaxKills, MaxReadErrors, MaxWriteErrors   \* bounds

ASSUME ColdAssumption ==
    /\ Main \in Node /\ NoBundle \notin Node
    /\ {OneAtATime, LoopStopsFirst, ManualExports} \subseteq BOOLEAN
    /\ {MaxExports, MaxKills, MaxReadErrors, MaxWriteErrors} \subseteq Nat

VARIABLES
    store,     \* the newest bundle in the shared store: [seq, source, final]
    auth,      \* node: authoritative in its state file
    exported, applied,   \* node: sequences in its state file
    phase,     \* node: phase of the handoff in its state file
    pc,        \* node: where the start of its service is
    exporting, \* node: an export of the page or of the lease thread
    online,    \* the operator has saved an online mode on both nodes
    answer,    \* node: what the last request for a planned handoff was answered
    faults     \* what has gone wrong, counted for the bounds: [kills, reads, writes];
               \* and for the properties: early, an export began before the start of
               \* its node was over; crossed, it met the demotion of its node

vars == <<store, auth, exported, applied, phase, pc, exporting, online, answer, faults>>

Init ==
    /\ store = [seq |-> 0, source |-> NoBundle, final |-> FALSE]
    /\ auth = [n \in Node |-> n = Main]
    /\ exported = [n \in Node |-> 0] /\ applied = exported
    /\ phase = [n \in Node |-> "none"]
    /\ pc = [n \in Node |-> "down"]
    /\ exporting = [n \in Node |-> "idle"]
    /\ online = FALSE
    /\ answer = [n \in Node |-> "none"]
    /\ faults = [kills |-> 0, reads |-> 0, writes |-> 0, early |-> FALSE, crossed |-> FALSE]

Known(n) == IF exported[n] > applied[n] THEN exported[n] ELSE applied[n]

Goto(n, label) == pc' = [pc EXCEPT ![n] = label]

\* Mutant: the source of the bundle is not looked at, and the sequence may be the same.
MutantNewer(n) == store.source # NoBundle /\ store.seq >= Known(n)

\* verified_candidate(require_new=True)
Newer(n) == store.source \notin {n, NoBundle} /\ store.seq > Known(n)

\* An online node refuses a final bundle.
Importable(n) == Newer(n) /\ ~(store.final /\ online)

-----------------------------------------------------------------------------
(* BackgroundService.start *)

Start(n) ==
    /\ pc[n] = "down"
    /\ OneAtATime => \A m \in Node : pc[m] = "down"
    /\ Goto(n, IF online THEN "importing" ELSE "recovering")
    /\ UNCHANGED <<store, auth, exported, applied, phase, exporting, online, answer, faults>>

\* Mutant: an authoritative node does not look for a newer writer.
MutantRecover(n) ==
    /\ pc[n] = "recovering"
    /\ Goto(n, IF Newer(n) /\ ~auth[n] THEN "demoting" ELSE "importing")
    /\ UNCHANGED <<store, auth, exported, applied, phase, exporting, online, answer, faults>>

\* recover_cold_standby looks for a newer writer, without the lock.
Recover(n) ==
    /\ pc[n] = "recovering"
    /\ Goto(n, IF Newer(n) THEN "demoting" ELSE "importing")
    /\ UNCHANGED <<store, auth, exported, applied, phase, exporting, online, answer, faults>>

\* A newer writer makes this node passive, under the lock.
Demote(n) ==
    /\ pc[n] = "demoting"
    /\ auth' = [auth EXCEPT ![n] = FALSE]
    /\ Goto(n, "following")
    /\ UNCHANGED <<store, exported, applied, phase, exporting, online, answer, faults>>

\* The store cannot be read or the bundle cannot be verified: "could not inspect".
RecoverFails(n) ==
    /\ pc[n] = "recovering" /\ faults.reads < MaxReadErrors
    /\ faults' = [faults EXCEPT !.reads = @ + 1]
    /\ Goto(n, "importing")
    /\ UNCHANGED <<store, auth, exported, applied, phase, exporting, online, answer>>

\* apply_latest, of the recovery or of the start, records what it has imported.
Import(n) ==
    /\ pc[n] \in {"following", "importing"}
    /\ ~auth[n] /\ Importable(n)
    /\ applied' = [applied EXCEPT ![n] = store.seq]
    /\ Goto(n, IF store.final THEN "accepting" ELSE "running")
    /\ UNCHANGED <<store, auth, exported, phase, exporting, online, answer, faults>>

\* Nothing to import, or the import fails.
NoImport(n) ==
    /\ pc[n] \in {"following", "importing"}
    /\ \/ /\ auth[n] \/ ~Importable(n)
          /\ UNCHANGED faults
       \/ /\ faults.reads < MaxReadErrors
          /\ faults' = [faults EXCEPT !.reads = @ + 1]
    /\ Goto(n, "running")
    /\ UNCHANGED <<store, auth, exported, applied, phase, exporting, online, answer>>

\* Mutant: the authority is noted in the phase only.
MutantAccept(n) ==
    /\ pc[n] = "accepting"
    /\ phase' = [phase EXCEPT ![n] = "cold_takeover_complete"]
    /\ Goto(n, "running")
    /\ UNCHANGED <<store, auth, exported, applied, exporting, online, answer, faults>>

\* _accept_cold_shutdown
Accept(n) ==
    /\ pc[n] = "accepting"
    /\ auth' = [auth EXCEPT ![n] = TRUE]
    /\ phase' = [phase EXCEPT ![n] = "cold_takeover_complete"]
    /\ Goto(n, "running")
    /\ UNCHANGED <<store, exported, applied, exporting, online, answer, faults>>

-----------------------------------------------------------------------------
(* The running service and its stop. *)

\* Mutant: what was applied does not count.
MutantNextSequence(n) == exported[n] + 1

NextSequence(n) == Known(n) + 1

Reserve(n) == exported' = [exported EXCEPT ![n] = NextSequence(n)]

\* export_now under the lock: the sequence is reserved, the publication may fail.
Export(n, final) ==
    LET met == [faults EXCEPT !.crossed = @ \/ ~auth[n] \/ pc[n] = "demoting"] IN
    /\ Known(n) < MaxExports
    /\ Reserve(n)
    /\ \/ /\ store' = [seq |-> NextSequence(n), source |-> n, final |-> final]
          /\ faults' = met
       \/ /\ faults.writes < MaxWriteErrors
          /\ faults' = [met EXCEPT !.writes = @ + 1]
          /\ UNCHANGED store
    /\ UNCHANGED <<auth, applied, phase, pc, online, answer>>

\* A cycle of _run. The final export of the lease thread, or of Plugin.stop,
\* is made before the loop is told to stop.
Cycle(n) ==
    /\ pc[n] = "running" /\ auth[n]
    /\ exporting[n] \in {"final", "flushed"} => ~LoopStopsFirst
    /\ Export(n, FALSE)
    /\ UNCHANGED exporting

\* The check of the authority with which export_now, called for the page or by
\* export_on_shutdown, begins: without the lock, and at any step of a start.
BeginExport(n, kind) ==
    /\ auth[n]
    /\ exporting' = [exporting EXCEPT ![n] = kind]
    /\ faults' = [faults EXCEPT !.early = @ \/ pc[n] # "running"]
    /\ UNCHANGED <<store, auth, exported, applied, phase, pc, online, answer>>

\* "Export now" on the page of a node.
ManualExport(n) ==
    /\ ManualExports /\ pc[n] # "down" /\ exporting[n] = "idle"
    /\ BeginExport(n, "manual")

\* flush_on_shutdown: of the lease thread that finds the stop signal, or of
\* Plugin.stop. A follower has no final bundle.
Flush(n) ==
    /\ pc[n] # "down" /\ exporting[n] = "idle"
    /\ \/ BeginExport(n, "final")
       \/ /\ ~auth[n]
          /\ exporting' = [exporting EXCEPT ![n] = "flushed"]
          /\ UNCHANGED <<store, auth, exported, applied, phase, pc, online, answer, faults>>

\* The export proper: the authority is not looked at again.
EndExport(n) ==
    /\ exporting[n] \in {"manual", "final"}
    /\ Export(n, exporting[n] = "final" /\ ~online)
    /\ exporting' = [exporting EXCEPT ![n] = IF @ = "final" THEN "flushed" ELSE "idle"]

Down(n) == Goto(n, "down") /\ exporting' = [exporting EXCEPT ![n] = "idle"]

\* The process ends; its start may not be over.
Stop(n) ==
    /\ pc[n] # "down" /\ exporting[n] = "flushed"
    /\ Down(n)
    /\ UNCHANGED <<store, auth, exported, applied, phase, online, answer, faults>>

\* SIGKILL, power: no final bundle.
Kill(n) ==
    /\ pc[n] # "down" /\ faults.kills < MaxKills
    /\ faults' = [faults EXCEPT !.kills = @ + 1]
    /\ Down(n)
    /\ UNCHANGED <<store, auth, exported, applied, phase, online, answer>>

\* Guided setup saves an online mode with a direct transport.
SwitchOnline ==
    /\ ~online /\ \A n \in Node : pc[n] = "down"
    /\ online' = TRUE
    /\ UNCHANGED <<store, auth, exported, applied, phase, pc, exporting, answer, faults>>

RequestHandoff(n) ==
    /\ pc[n] = "running" /\ online /\ auth[n]
    /\ IF phase[n] = "none"
       THEN /\ phase' = [phase EXCEPT ![n] = "requested"]
            /\ answer' = [answer EXCEPT ![n] = "queued"]
       ELSE /\ answer' = [answer EXCEPT ![n] = "already in progress"]
            /\ UNCHANGED phase
    /\ UNCHANGED <<store, auth, exported, applied, pc, exporting, online, faults>>

Starting(n) ==
    Recover(n) \/ RecoverFails(n) \/ Demote(n) \/ Import(n) \/ NoImport(n) \/ Accept(n)

Next ==
    \/ \E n \in Node :
        \/ Start(n) \/ Starting(n) \/ Cycle(n)
        \/ ManualExport(n) \/ Flush(n) \/ EndExport(n)
        \/ Stop(n) \/ Kill(n) \/ RequestHandoff(n)
    \/ SwitchOnline

Spec == Init /\ [][Next]_vars

\* A start goes on: its reads have timeouts.
FairSpec == Spec /\ \A n \in Node : WF_vars(Starting(n))

-----------------------------------------------------------------------------
(* Properties. *)

\* Types, the bound, and that a published sequence was reserved before.
TypeOK ==
    /\ store \in [seq : Nat, source : Node \cup {NoBundle}, final : BOOLEAN]
    /\ auth \in [Node -> BOOLEAN]
    /\ exported \in [Node -> Nat] /\ applied \in [Node -> Nat]
    /\ phase \in [Node -> {"none", "requested", "cold_takeover_complete"}]
    /\ pc \in [Node -> {"down", "recovering", "demoting", "following", "importing", "accepting", "running"}]
    /\ exporting \in [Node -> {"idle", "manual", "final", "flushed"}]
    /\ online \in BOOLEAN
    /\ answer \in [Node -> {"none", "queued", "already in progress"}]
    /\ faults \in [kills : Nat, reads : Nat, writes : Nat, early : BOOLEAN, crossed : BOOLEAN]
    /\ \A n \in Node : exported[n] <= MaxExports /\ applied[n] <= MaxExports
    /\ \A n \in Node : store.source = n => store.seq <= exported[n]

\* A node that runs with authority has seen everything in the shared store: a
\* returning node begins as a follower of the newer authority.
ReturningFollows ==
    \A n \in Node : pc[n] = "running" /\ auth[n] => store.seq <= Known(n)

\* The same, as long as both nodes stay in cold standby, every start could read
\* the store, and no export began before a start was over (recover_cold_standby:
\* "Follow a newer signed writer before this node starts serving").
ColdAndRead == ~online /\ faults.reads = 0 /\ ~faults.early

WriterKnowsStore == ColdAndRead => ReturningFollows

\* Then a bundle in the shared store is only replaced by one of a higher
\* sequence, through kills and failing publications.
StoreAdvances == [][ColdAndRead /\ store' # store => store'.seq > store.seq]_vars

\* No node runs as the writer that has not seen what another one has published:
\* "Returning nodes always begin as Followers of the newer authority"
\* (docs/wiki/Operations-and-Planned-Handoff.md:24). An export during a start
\* hides the newer bundle from it.
ReturningNodesFollow ==
    ~online =>
        \A m, n \in Node : pc[n] = "running" /\ exporting[n] = "idle" /\ auth[n] => exported[m] <= Known(n)

\* The authority is never lost: a start that is killed, or that cannot read the
\* store, leaves one node that may write (the takeover is accepted after the
\* import is recorded, and the former writer keeps its own mark), unless an
\* export met the demotion of its node.
AuthorityNotLost == faults.crossed \/ \E n \in Node : auth[n]

\* A node that starts on its peer's final bundle becomes the authority, unless
\* it is stopped during the start.
TakeoverCompletes ==
    \A n \in Node :
        (pc[n] = "recovering" /\ store.final /\ Newer(n)) ~> (auth[n] \/ pc[n] = "down" \/ faults.early)

\* After its final bundle a node publishes nothing more.
FinalBundleIsLast ==
    [][\A n \in Node : exporting[n] = "flushed" => store' = store \/ store'.source # n]_vars

\* A planned handoff is refused as in progress only when one is.
RefusedOnlyInProgress ==
    \A n \in Node : answer[n] = "already in progress" => phase[n] = "requested"

=============================================================================
