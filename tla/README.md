# Formal models of failovarr

failovarr is a Dispatcharr plugin that keeps two Dispatcharr nodes in step: an
authoritative **Main** exports signed configuration bundles, a **Follower**
imports them, and authority can be handed over on purpose, online (planned
handoff) or by stopping the Main (cold standby). This directory holds TLA+
specifications of it, the TLC configurations that check them and TLAPS proofs.
All line numbers refer to `src/failovarr/`.

## 1. The system

| Component | State it keeps | Operations | Hard behaviour |
|---|---|---|---|
| `engine.py` `ReplicationEngine` | `state-<node>.json`: `authoritative`, `exported_sequence`, `applied_sequence/hash`, `source_node`, `client_serving`, `handoff` | `export_now`, `apply_latest`, `initialize_follower`, `request_handoff`, `process_handoff`, VIP and proxy readiness, cold standby | authority checks made outside the lock, several lock sections per operation, two workers with the same grant, crashes between them |
| `engine.py` `BackgroundService` | stop event, `_flushed`, the loop, lease and HTTP threads | `start`, `_run`, `_lease_loop`, `stop`, `flush_on_shutdown` | threads that outlive the lease, flush racing the loop and the start |
| `autostart.py`, `__init__.py` | Redis keys: owner (30 s TTL), stop and flush requests | acquire, refresh, release, request stop, wait, auto-start | expiry under a live owner, requests lost to a new owner |
| `storage.py` | the state file, the outbound bundle, `.replication.lock` | atomic writes, `flock` | the lock dies with its process, the files do not |
| `remote_storage.py`, `sftp_worker.py` | immutable objects `bundles/<sequence>-<hash>.json` and the pointer `latest.json` on a filesystem, WebDAV, S3, SFTP or SMB | `write_latest` (object, pointer, prune), `read_latest` | no transaction around the steps; readers in between; two writers |
| `transport.py`, `bundle.py` | none | signed HTTP pull and status poll, signed envelopes | a peer that does not answer |
| `vip.py` | the interface's addresses | `acquire` (probe, then add), `release` | probe and add are not atomic between two nodes |
| `domains.py`, `planner.py`, `user_accounts.py` | the Dispatcharr database; the table of adapters | plan and apply an import in one transaction, domain by domain | identity conflicts, deletions, protected records, administrators who change what was planned for |
| `config.py`, `node_config.py`, `native_settings_sync.py` | `node-config.json` | validation, load, save | read-modify-write without a lock |
| `setup_process.py`, `setup_assistant.py` | a helper process and its HTTP form | start, stop, apply | single instance, time-out |
| `cluster_profile.py`, `client_identity.py`, `logging_utils.py`, `vendor_loader.py` | none of the protocol | encryption, derivation, redaction, unpacking | – |

The components meet in the state directory of a node (several processes share
it, serialised by the file lock), in the peer's HTTP server (it answers with the
outbound bundle and the status), in the shared store, in Redis, and on the
network where the VIP lives.

What makes the parts correct: one authority at a time; a sequence is never
reused; a Follower applies only newer bundles and only its own grant; the old
client endpoint is gone before the new one may appear; a store's pointer always
names a complete object; one replication loop per container; an import is all or
nothing. The list `hazards` of `PROJECT.json` says where each of these can go
wrong.

## 2. How the modules fit together

| Module | Component | Works with |
|---|---|---|
| `PlannedHandoff` | the handoff and everything that runs beside it: exports, imports, VIP | takes one latest bundle per store for granted, which `BundleStore` shows |
| `AuthorityToken` | what a cluster may rely on in a handoff: one token of authority, passed on or lost | `PlannedHandoff` implements it |
| `BundleStore`, `LatestBundle` | the shared stores, and the one bundle they stand for | `BundleStore` implements `LatestBundle` |
| `ColdStandby` | start, final export, takeover, return of the former Main | what an export or an import does under its lock is one step here |
| `BundleAcceptance` | which bundle a Follower imports, and what its status page says | decides the guard of `FetchBundle` of `PlannedHandoff` |
| `RecordPlanner`, `FollowerImport` | what an import does to the rows of a table | `FollowerImport` EXTENDS `RecordPlanner` |
| `UserImport` | accounts, in the transaction of the domains | the domains appear by what they do to profiles |
| `DomainScope` | which domains a selection stands for, and in which order they are applied | `Scope` of `BundleAcceptance`; one run with `NodeConfig` (`MC_Configuration`) |
| `ServiceLease` | which process runs the loop, and how it stops | a cycle only takes time; what it does is in the modules above |
| `SetupHelper`, `NodeConfig` | the helper process; the configuration and its copies | a save in the helper makes it the owner of a service |

Each `MC_` module gives the constants small values. Several constants of a module
are choices of the operator or of the environment (transport, faults, policies), and
one run should see several of them. Such an `MC_` module has one more variable, which
the initial state chooses and no step changes (`situation`, `share`): for each value it
takes an `INSTANCE` of the module with other constants, and a step is a step of the
instance that was chosen. A property that holds in some of the situations says in
which ones.

## 3. Modules

### PlannedHandoff

Two or more nodes, each with a background loop and any number of web workers
that run operator actions. A worker is a program counter `pc[n][w]` and the
bundle it carries, `work[n][w]`; the variables of a node are the fields of its
state file (`authoritative`, `exported`, `applied`, `serving`, `handoff`) and its
outbound bundle. A step is what the code does in one lock section or between two
of its effects that others can see:

| Code | Actions |
|---|---|
| `BackgroundService._run`, one cycle | `LoopPrepare`, `LoopPollPeer`, `LoopExport`, `LoopImport` |
| `Plugin.run` up to the lock | `OperatorExport`, `OperatorStart` |
| `export_now` | `BeginExport` (unlocked check), `ExportReserve`, `PublishOutbound`, `PublishShared`, `PublishFails`, `ShareFails`, `FinishExport` |
| `process_handoff` | `LoopPrepare`, `RecordPrepare`, `LoopPollPeer`, `Fence`/`FenceFails`, `Surrender`, `GrantReserve`/`GrantLost`, `RecordGrant` |
| `apply_latest`, `initialize_follower` | `FetchBundle`/`FetchNothing`, `ImportApplied`, `ImportConflict`, `ImportFails`, `AcceptGrant` |
| `acquire_client_vip`, `release_client_vip`, `set_proxy_readiness` | `EnableVip`, `KeepVip`, `AcquireRefused`, `ProbeVip`, `AddVip`, `AddVipFails`, `ReleaseVip`, `EnableServing`, `SetProxyReadiness` |
| a process dies | `Crash` |

The check of the authority that the code makes before it waits for the lock is
the guard of the step that brings a worker to its waiting place; the step under
the lock does not repeat it, as the code does not.

`disturbed` is a history variable: which kinds of steps there have been that the loops
alone never take (an export, an import or an acquisition of the VIP by hand, an import
that ends in a conflict). Nothing reads it but properties. So a property that such a step
breaks is stated, checked and proved up to that step, and one run can allow all of them.

`AuthorityToken` is the abstract handoff. The token is a pair of a place and a node:
`held` (the state file says authoritative), `given` (surrendered, or in a grant the peer
still accepts), `taken` (a worker has imported the grant and is about to accept it); the
set is empty once the token is lost. `Give`, `Take`, `Accept` and `Lose` are its only steps.
The mapping `TokenPlaces` reads these places off the state files, workers and bundles.

Abstractions. A bundle is its signed metadata (source, sequence, handoff phase,
prepare hash); `payload_sha256` is the pair of source and sequence, which
`OwnSequenceAdvances` shows to be sound. An M3U hash-key mismatch and a missing
account are refused imports. Re-imports of the bundle already applied (force
reapply, a changed local scope) change nothing of this state. The phase "failed"
is tested by the code and assigned nowhere. The preview changes nothing.

### BundleStore

The shared store as the nodes use it: the completed objects under `bundles/`, the
pointer `latest.json`, and for each writing node and each reading process the step
it is at. `Backend` chooses among the five stores; what differs between them is a
guard:

| Code | Actions |
|---|---|
| `write_latest` up to the rename (or PUT) of the object | `BeginWrite`, `PutObject` |
| the replacement of `latest.json` | `PutPointer`; for SMB also `TearPointer`, `RewritePointer` |
| the read-back of `sftp_worker._write` | `Verify` |
| `_prune` | `ListForPrune`, `DeleteObject` (SFTP, SMB and WebDAV raise on a name that is gone) |
| the end of `write_latest` | `EndWrite`, `Return` |
| an exception or a dead process, anywhere | `Interrupt` |
| `read_latest` | `ReadPointer`, `SkipPointer`, `NoPointer`, `OpenObject`, `ObjectGone`, `ObjectLost`, `ListForRead`, `NothingListed`, `OpenFallback` |

Only SFTP (for a missing file) and SMB (for any error) fall back to the last name of
a listing; for the others a read that misses its object fails. A bundle is its
source and sequence; the hash in its name orders bundles of one sequence. Temporary
objects, the layout before 0.5 and reads that fail for lack of a network are left
out; a read that fails here is one whose object is not there.

Who may write is a pair of constants. `OneAtATime` and `KnowsNewest` together are
what one authority gives: it writes under its lock, and the handoff makes it number
above everything before (`KnowsNewestUnlessExported` of `PlannedHandoff`). They do not
hold while an old Main finishes an export that a handoff overtook
(section 7) or after a cold start that could not read the store; section 7
shows what is left then. A node always numbers above its own
earlier bundles, because `export_now` stores the sequence before it publishes.

`LatestBundle` is the abstract store: one `latest` bundle, perhaps a newer one
`offered` but not yet named, and what each reader holds. In the refinement `latest`
is the last bundle whose pointer was written whole, `offered` the newest object if
it is newer than that.

### ColdStandby

`store` is the newest bundle of the shared store; a node has its authority, its two
sequences, the phase of the handoff and the place of its service.

| Code | Actions |
|---|---|
| `BackgroundService.start` | `Start`, then `Import`/`NoImport` |
| `recover_cold_standby`: looks for a newer bundle without the lock (any exception counts as nothing found), then demotes the node under it | `Recover`, `RecoverFails`; `Demote` |
| `_accept_cold_shutdown` | `Accept` |
| the loop's export | `Cycle`; `Export` with `Reserve` (the sequence is on disk before the publication, which may fail) |
| `flush_on_shutdown` of the lease thread, "Export now" on the page | `Flush`, `ManualExport` (the check of the authority, without the lock), `EndExport` (the export, which does not look again) |
| the end of the lease thread and of the process | `Stop` |
| `request_handoff` | `RequestHandoff` |
| the operator, the environment | `SwitchOnline`, `Kill` |

The lease thread runs before the recovery (engine.py:1120-1126), and the page needs no service, so
`Flush` and `ManualExport` are possible at every step of a start. (`Plugin.stop` of the starting worker is
not: it waits for `_service_lock`. The stop key reaches the lease thread all the same.) What an import or an export does
under the state lock is one step; their inside is in `PlannedHandoff` and `FollowerImport`. Demoting, importing and
accepting are lock sections of their own, hence steps of their own. `LoopStopsFirst` is what the code does
not ensure: that the loop is idle when the final export runs.

Two history fields of `faults` say what the properties except: `early`, that an export began before
the start of its node was over, and `crossed`, that an export met the demotion of its node (it ran between the
look and the demotion, or published without the authority it had checked). Imports from the page
are not modelled here.

### BundleAcceptance

Bundles are numbers, published by a Main whose selection and M3U hash key change. A
read returns the newest or, with `Behind`, an earlier one (the code falls back to the
shared store when the peer does not answer). `Accepted` is `verified_candidate`,
`Complete` is `config_for_payload`, `Mismatch` the comparison of hash keys, `Info` the
conditions `bundle_info` evaluates for the page. The import of the loop is `Import`, a
forced one `ForceReapply`. The adoption of a key is a request in three lock sections:
`Confirm` (preview), `Adopt` (save the key), `ApplyAdopted` or `RequestFails`.

### RecordPlanner and FollowerImport

A table is a function from ids to rows; a row has an identity (`key`), a second unique
column that may be empty (`uniq`), whether it is active, whether it is locked, and the
rest (`body`). `RecordPlanner` holds the pure part: `Prepare` (protection, policy for
new rows), `Reconciled` (surrogate ids), `Clash`, `Conflicts`, `Created`, `Updated`,
`Deleted`, `Preserved`, `ReplaceConflicts`, `Remap`. `Taken` says which unique values
are in use at one place of the order of statements. `FollowerImport` runs them: `Begin`
plans from the table (`PlanApply` or `PlanInitialize`), `CommitApply`/`CommitInitialize` execute the
statements in order, each against the table as it is then, or `RollBack`; `Remember` writes the
protection of new rows to the configuration file, `RecordState` the applied sequence.
Between any two of them an import can die (`Interrupt`) and, with `Concurrent`, rows
change. `Fresh` says that an engine reads its configuration anew for each import;
the running service does not.

### UserImport

`Prepare` plans the chosen accounts and `Refuse`s when a dependency is unknown; then the transaction
opens, `ApplyDomains`/`InitializeDomains` change the profiles (deleting those that
Main no longer has, with their memberships), `ApplyUser` writes one account after
another, and the end is `Commit`, `DomainsFail` or `ApplyUserFails`: a dependency is gone, or somebody has taken the
name of a planned account under another key (`Collides`, an `IntegrityError` of `user.save()`). The administrator creates and
deletes accounts and deletes groups and profiles at any time (`CreateUser`, `DeleteUser`, `DeleteGroup`,
`DeleteProfile`). The open transaction sees that as READ COMMITTED does, and what it has written makes
the administrator wait: the guards `NotWritten` and `NotTouched`. `late` is a history variable: what an
account lost after the import had written it. Renaming an account and giving one a membership by hand are not modelled.

### DomainScope

`Pass` is one pass of `expand_domain_dependencies`, `Resolve` ends the passes with the check of
`ReplicationConfig.validate`. `Applied` is `_selected_specs`: it takes the set of the selected domains and
picks them from the table of adapters (`Adapters`, `_specs` of `domains.py`), whatever order `config.py` gave them.
`References` is what the rows of a domain refer to by the relation fields that its adapter names. `TablesAgree` says how the
three tables must fit; `MC_Configuration` holds them as the code has them, for all nineteen domains.

### ServiceLease

Redis (`leader`, `stopKey`, `flushKey`), the workers, and one record per service that
was ever created. A worker executes `_start_service` (`Acquire`, `Refused`, `Begin`,
`StartLoop`), `_stop_service` and `Plugin.stop` (`FlushOwn`, `FlushOwnFails`,
`StopOwn`, `ReleaseOwn`, `AskLeader`, `Signal`, `AskAgain`), `reconcile_service`
(`Stopped`, `WaitEnds`, `WaitTimesOut`). The lease thread is `CheckLease`,
`FlushOnSignal`, `EndLease`; the loop `BeginCycle`, `EndCycle`, `EndLoop`. Looking at
the lease and setting the stop key are two calls of the code, so `AskLeader` and
`Signal` are two steps. `ExpireLease` is the 30 seconds of a lease whose owner is
gone; `Stall` that of one whose owner is held up; `ExpireSignals` the 60 seconds of a
request; `Crash` a worker that dies and is respawned.

### NodeConfig

The configuration is a set of flags that are on and a secret; there are the file, the
mirror in the Plugin Settings, the copy of the running service, and the page of the
assistant. `Overlay` is `_native_overlay`, `Snapshot` is `native_settings_snapshot`,
`Normal` and `Settled` are the forced settings. Writers: `EditNative`, `OpenSetup`,
`Save` then `Write`, `Sync`/`SyncFails`, `Reload`; `ImportKey`, `ImportProfile`;
`Remember` and `Remembered` of an import; `Restart`. `want` is what the operator and
the imports have asked for. `mishaps` is a history variable (`Happens`): a "mirror" was
not written, a "page" was saved that a start would not use, writers did "overlap".

### SetupHelper

Helper processes with the lock file and the PID file: `TakeLock`, `Serve`, `DieEarly`,
`OwnService` (a save made it the owner of the service), `Leave`, `StopService`/
`StopServiceFails`, `Unlink`, `Exit`. Workers: `Start`, `Poll`, `Replace`, `Spawn`,
`Started`, `TimeOut`, `StartFails`; `Stop`, `Ended`, `Kill`. A worker knows its own
child; it reaches another one's through the PID file.

### Proof modules

`PlannedHandoffProofs`, `BundleStoreProofs`, `ColdStandbyProofs`, `ServiceLeaseProofs`,
`BundleAcceptanceProofs`, `FollowerImportProofs` and `UserImportProofs` each EXTEND the module
they are named after. `ConfigurationProofs` EXTENDS `NodeConfig`, `DomainScope` and `SetupHelper`, whose
definitions have names of their own for that (`ScopeSpec`, `HelperSpec`). Section 6 has the arguments.

## 4. Runs

`MaxX` constants are the bounds; the situations override the constants of the `.cfg` as
written in the `MC_` module.

| Run | Situations | Asks | Bounds |
|---|---|---|---|
| `handoff` | direct, hybrid, faulty, conflicts, calm | authority is one token and the handoff implements `AuthorityToken` (`AuthorityPassesOn`); a sequence is never served twice (`OwnSequenceAdvances`); the authority knows the newest sequence, until an operator exports or an import conflicts; a grant is served by a fenced node, until an operator acquires the VIP; a calm handoff completes | two nodes, one operator each, one crash, sequences to 4 (calm: 6) |
| `handoff_conflict` (violation) | – | one authority, with imports that may end in a conflict before a handoff | two operators per node, sequences to 6 |
| `store` | sftp, smb | what is reported as published resolves, reads are fresh and fail only when overtaken, pruned objects are superseded, the refinement of `LatestBundle` | one authority on two nodes, one reader, sequences to 5 |
| `import` | policy, plan, concurrent, links, history | Main's rows arrive, what is kept local stays, plans do not collide, protected rows stay, surrogate ids, recordings | tables of 2 or 3 rows, 1 or 2 bundles, 1 edit, 1 crash |
| `import_service` (violation) | – | rows imported as disabled stay disabled, in a service that keeps its configuration | two bundles |
| `users` | everything, excluded | accounts resolve, all or nothing, local keys, excluded accounts | two names, one profile, one group, 2 edits |
| `lease` | reload, shutdown, elect, lapse | one owner, one final export, a shutdown ends, a lapsed lease leaves one loop | 2 workers, 3 services, 2 requests, 1 crash or fault, 2 stalls |
| `cold` | kills, unreadable, orderly | authority is not lost unless an export meets a demotion; a writer knows the store and the store advances, until a read fails or an export begins during a start; a takeover completes | 2 nodes, 5 exports, 1 or 2 kills, 1 failing write, 1 failing read, manual exports |
| `cold_early_stop` (violation) | – | a node that returns follows the newer authority, also when it is stopped during its start | 2 nodes, 5 exports, no kills, failures or manual exports |
| `bundles` | behind, direct | `AcceptanceInv` (the status page agrees with the import, what is applied covers its selection), never back, only what was confirmed, convergence | 3 bundles, 3 edits |
| `config` | writers, scope | a written mirror hides nothing; what was asked for is in effect, until a mirror fails, an old page is saved or writers overlap. `ScopeInv` (least closed selection, refused only for legacy names); everything selected is applied, once and after what it refers to | writers: 2 domains, 2 protections, 4 edits; scope: all 19 domains, requests of up to 3 of them and all presets |
| `helper` | – | one server, its PID file, the final export of a stopped owner | 2 workers, 3 helpers, 5 operations, symmetric processes |

Why these bounds. Sequences up to 4 are enough for the whole handoff and a second
export beside it; `PlainLimit` keeps ordinary exports from using up the numbers a
handoff needs. One crash reaches every pair of steps it can fall between. A store has to
overtake a reader by three publications before its properties say anything, which takes
five sequences. Two bundles show what the second import does with what the
first one protected. Three services are a first one, its successor and a third
that finds what both have left. Five exports let the authority change hands and
return. Two edits delete an account and create it again. Of the nineteen domains any three are requested together, so every
prerequisite is reached alone and beside others. Tables of three rows have a swap with a row beside it.

Deadlock is checked in `handoff` (a loop always polls); everywhere else the bounds
let the system stop, and the configuration says so.

Proved, and left out of the runs because the theorem says more than a run: the type invariants of
`PlannedHandoff`, `BundleStore`, `ServiceLease`, `ColdStandby`, `SetupHelper` and `NodeConfig`,
`HandoffInv`, `StoreInv`, `PointerResolves`, `ForceRepeats`, `PlansFollowMain`, `LockedRowsUntouched`
(without concurrent writers), `ServiceGetsSave` and `OthersLoseOnlyProfiles`. Of the other modules the
types are conjuncts of `RecordingsResolve`, `AccountsResolve`, `AcceptanceInv`, `CarefulIsIntended` and
`ScopeInv`. `OthersUnchanged` holds where the profiles stay local; the run checks it in the situation that has this
(`ExcludedUnchanged`), and the theorem (`ExcludedStay`) has it as its assumption. `OwnerHonoursStop` is stated in its module
and holds on the same instance; no run of its own asks for it.

## 5. Fairness

Every liveness property is of one situation, and fairness is assumed of its steps.

- `CalmHandoffCompletes`: weak fairness of each loop's cycle (the loop wakes every
  `interval_seconds` and cannot be disabled while it runs) and of each worker's next
  step. Nothing is assumed of operators. The situation has no faults: with a pull that
  may always fail the code promises nothing.
- `ServiceLease`: worker threads, lease threads and the ends of a cycle are weakly
  fair (each call in a cycle has a timeout), and so is the expiry of a lease, which
  Redis does. Requests, crashes, stalls and the beginning of a cycle are not.
- `OrderlyTakeoverCompletes`: a start goes on (its reads have timeouts). Without
  kills; nothing is assumed of the operator, and a start that is stopped need not take over.
- `DirectConverges`: the loop imports again and again.

## 6. Proofs

All theorems hold for every value of the constants that satisfies the module's
assumptions.

`PlannedHandoffProofs` has five sections. Four of them assume nothing of what operators and the environment
may do, but say how long a property holds. Steps that break it are recorded in `disturbed`,
which only grows, so "until the first such step" is an invariant.

The first section proves `TypeOK`, `LockInv`, `StepInv` and
`SequenceInv` inductive, one case per action, and from `SequenceInv` that no node serves
a lower sequence after a higher one (`SequenceNeverReused`).

The second proves that authority is never duplicated until an import ends in a conflict (`SingleAuthority`). The
invariant is `AuthorityIsOneToken`: at most one of the following exists: a state file that
says authoritative, a loop between surrender and grant, grants that their target
would still accept, a worker about to accept one. It is not inductive alone.
`ImportInv` says that what a worker imports under the lock is newer than what the
node has applied, so applying a grant uses up every other grant of its source;
`GrantInv` says that the target of any visible grant has already applied the
preparation (or something newer), so an old grant cannot come back to life when
the target advances. Most steps change neither claims nor visible bundles
(`QuietMove`); the proof treats the rest one by one and `StepKinds` shows that
there are no others. The condition is needed: the run `handoff_conflict` refutes the theorem
without it, and the finding names the missing check.

The third proves that the authority knows the newest sequence (`KnowsNewest`), up to the first export by
hand or conflict. `ExporterInv` says that until then only the loop exports, and from an
authoritative state; `NewestInv`, that an authority numbers above everything served, and
that a grant which may still be accepted is itself the newest bundle, so that the claim passes to the
node that accepts it. With exports by hand it fails: a node that surrendered still publishes (`OnlyAuthorityExports`, section 7).

The fourth proves that the handoff implements `AuthorityToken` (`AuthorityIsPassedOn`). The second section counts claims;
this one follows them. Under the mapping `TokenPlaces` a step either leaves the places as they are, or is one of
the four steps of the token: a surrender gives, an applied grant takes, an acceptance accepts, and a crash, a
failing publication or a newer bundle that hides the grant loses. So no step brings authority back once it is gone, none moves it
past the peer, and none grants it to a node from which it was not passed. `OneToken` is the case without conflicts
(`"conflict" \notin ApplyOutcomes`), where it holds in the whole behaviour.

The fifth proves that a node which gave its authority away and serves the grant is off the VIP (`GrantsAreFenced`), until an
operator acquires the VIP or, where a node has several operators, imports by hand.
`FenceInv` says, for a node, that whoever is about to bring clients online does so while the node is authoritative, and that
an operator in those steps excludes a handoff under way. Such an operator has just accepted a
grant, which completes the node's own handoff; only another operator could request the next one, hence the second
condition. Between surrender and grant the node stays off the VIP because the loop is one thread and so is
not at the same time in an import and in a handoff. Section 7 has the two ways in which operators break it.

`BundleStoreProofs` proves, for every backend, first what needs nothing of
the writers (`TypeCorrect`, `RetentionIsKept`), then, assuming `OneAtATime` and
`KnowsNewest`, that the pointer resolves, also when a publication returns after its own
prune (`ReportedAlwaysResolves`), that reads are fresh and fail only when
overtaken, and that the store implements `LatestBundle` (`Refinement`). The invariant is
`StoreInv`: while a bundle is published it is the newest object (`WriterInv`); the newest
object and the published one are never deleted, because both stay among the last three
names (`ContentInv`, `PruneInv`); and a reader is always on its way to something at
least as new as what was published when it began (`ReaderInv`). None of the properties is
inductive alone: that a pointer resolves after a prune needs that the pruning writer's
own bundle is the newest.

`ColdStandbyProofs`: types and bounds (`ColdTypeCorrect`); the authority is not lost (`AuthorityStays`), because the node
whose bundle is in the store still has its mark until another one, with a higher
sequence, has taken over; an export that met the demotion of its node is the exception (section 7). If the operator runs one node at a time, whoever writes knows
the store (`WriterIsNewest`) and only advances it (`StoreOnlyAdvances`), as long as the
mode is cold standby, no start-up read has failed and no export has begun during a start. The last condition is needed:
the run `cold_early_stop` shows what a stop during a start does. The invariant `ColdInv` adds to
it what a node at each step of its start, and at each step of an export, has seen.

`ServiceLeaseProofs`: types, one elected service (`ElectedServiceIsOne`) by `LeaseInv`,
which says that whoever takes itself for elected holds the lease, and one final export per service
(`FinalExportOnce`) by an invariant that ties `finals` to `flushed`.

`BundleAcceptanceProofs`: the page and the import agree and what is applied covers its selection
(`StatusAgreesWithImport`), no import goes back (`NeverTakenBack`), an adopted key imports
only what was confirmed (`OnlyConfirmedIsApplied`), a forced reapply only repeats (`ForceOnlyRepeats`). The invariant
`Inv` adds to the types that a request between its lock sections carries a bundle that Main has published.

`FollowerImportProofs` is about any table. Its invariant `Inv` says that a plan is what the
planner made of the table it read, which no longer needs to be the table it meets
(`PlanOK`). From it: protected rows stay, also under concurrent writers (`ProtectedRowsStay`); a plan without conflicts meets no unique
constraint after any statement (`UndisturbedPlansDoSucceed`). The heart of that proof is `MixedUnique`: between the deletions and the
last update a table holds rows of the old and of the new one, and the places where the planner
saw no `Clash` keep the two apart. `KeptInv` (what is kept disabled is in the file that the next import reads, or will
be) gives `NewStayDisabled`, for a fresh engine and no interruption; `MirrorInv` (nobody comes between plan and
transaction unless `Concurrent`) gives `ImportsMirror`; `LockedRowsStay` needs that nothing else writes the table.

Two loops of the code are recursive functions there. The prover has no induction over data, but it knows that inclusion of finite
sets is well-founded, and the sets 1..n are ordered as the numbers n are: `LeastNumber` gives, of a set of numbers that is not
empty, the least one. A claim about every pass is then proved by the least pass that breaks it. For `reconcile_surrogate_ids`
(`ReconciledMatches`): after each pass the ids given so far are distinct, a row with an identity known here has its id from
here, and a new id is above all ids of both sides. So Main's rows are matched by identity whatever ids they have
(`LinksDoMatch`), and `ImportsMirror` holds for the tables of relations too. For the remaps of `initialize_domains`: a pass
moves references from ids that are leaving to ids of the new table, so a recording refers to a row that exists in whatever order they are
made (`RecordingsDoResolve`). `Referenced` adds what must hold of the row in between.

`UserImportProofs`: committed databases are consistent (`AccountsAlwaysResolve`), an import is all or nothing
(`ImportIsAllOrNothing`), accounts keep their keys (`KeysStay`), excluded ones lose at most memberships of deleted profiles
(`ExcludedLoseOnlyProfiles`), or nothing where profiles stay local (`ExcludedStay`). The invariant follows the
transaction beside the committed database (`OpenOK`), through everything the administrator creates and deletes in both.
`KeysFree` says that a key under which an account was found belongs to nobody else, which is why saving under it never
overwrites another; that the name still has this key is checked when the account is written (`Collides`), because the plan cannot know it.

`ConfigurationProofs`. For `NodeConfig`: a mirror that a save writes hides nothing (`WrittenMirrorRestores`) and, until an
import overlaps a save, the service gets what was saved (`SavedIsServed`). Until the first mishap what is in effect is what was asked
for (`CarefulIsInEffect`); each of the three mishaps breaks it (section 7). `CarefulInv` says, for every step
of a save, which of file, mirror, page and request holds what was asked for (`AskedInv`, `FormsInv`), and that the role
is that of the mirror (`RoleKept`). For `DomainScope`, for every table of dependencies with closed presets: an accepted selection is the least closed
one (`SelectionIsLeast`); `SelectionInv` adds that every domain beyond the request is required
by a selected one. If moreover the table of adapters agrees with it (`TablesAgree`, an assumption that TLC evaluates on the tables
of the code), everything selected is applied, once and after what its rows refer to (`AppliedFollowsTable`), by an induction over
the table like those of `FollowerImportProofs`. For `SetupHelper`: one helper is past the lock, so one serves (`OneHelperServes`); the PID
file is written and removed under the lock, so it names the one that serves
(`PidFileNamesServer`); a stopped owner of the service has tried its final export unless a
worker killed it (`StopIsFlushed`). The invariant is `HelperInv`.

Only model-checked:
- every liveness property; their fairness is beyond the prover;
- that an elected service stays elected unless stopped (`UnstoppedStays`), and what two loops leave in the end
  (`OneLoopInTheEnd`); both depend on when a lease lapses.

## 7. What the models show going wrong

Three runs are expected to end in a violation, and `PROJECT.json` lists them as findings:

- `handoff_conflict`. A grant whose import conflicts is accepted but not recorded, so it can be imported again. Two workers of
  the target hold it: one has imported it with a conflict and stands before the acceptance, a lock section of its own; the loop
  imports it too, accepts it and surrenders in the next handoff. Then the first acceptance makes the node authoritative again,
  while its peer accepts the new grant.
- `import_service`. The running service does not know which rows its own import has protected.
- `cold_early_stop`. A returning former Main is authoritative until `recover_cold_standby` has demoted it, and the lease thread
  runs before that. Stopped during the start, it publishes its old state over its peer's newer bundle, as
  the final bundle of a takeover; at its next start it finds its own bundle and goes on as the writer. With "Export now" during a
  start the same happens without the stop.

The modules state further properties that fail,
each with the constants below; they are in the modules so that a correction of
the code can be checked against them, and no run asks for them as long as they fail.
The specification is `Spec` of the module unless it says otherwise.

| Property (module) | Constants that show it | What happens |
|---|---|---|
| `FencedBeforeGrant`, `VipOnOneNode` (`PlannedHandoff`) | plugin VIP, operations `request_handoff` and `acquire_vip`, a Main that already serves | `acquire_client_vip` checks the authority (engine.py:818) before it waits for the lock and never again; it adds the VIP after the fence. `acquire` probes the address (vip.py:131) and adds it later, so both nodes may end with it |
| `FencedBeforeGrant` (`PlannedHandoff`) | plugin VIP, hybrid, `Operator = {op1, op2}`, operations `request_handoff` and `import_latest`, no faults | one operator imports the grant by hand, accepts it and stands before the VIP is added (step `acquire_vip`); the other requests the next handoff, the loop fences and surrenders, and the first adds the VIP |
| `OnlyAuthorityExports` (`PlannedHandoff`) | operations `request_handoff` and `export_now` | `export_now` checks the authority (engine.py:104) before the lock: a node that surrendered publishes over its own grant |
| `HandoffCompletes` (`PlannedHandoff`) | the same | the newer bundle replaces the preparation and the peer's hash never matches |
| `ReportedResolves` (`BundleStore`) | SFTP, `KnowsNewest = FALSE` | the prune after the read-back keeps the highest names (sftp_worker.py:105-108) and deletes what was just verified |
| `NewRecordsStayDisabled` (`FollowerImport`) | policy "disabled", `MaxFaults = 1` | a crash between the commit and the configuration file (engine.py:605-620): the repeated import takes the rows for known ones |
| `LockedRowsUntouched` (`FollowerImport`) | initialize, `Concurrent = TRUE` | conflicts with locked rows are computed before the transaction (domains.py:803-824) |
| `RecordingsKeepIdentity` (`FollowerImport`) | initialize, recordings, two ids exchanged on Main | one UPDATE per id, one after the other (domains.py:861-866), merges the recordings |
| `OthersUnchanged` (`UserImport`) | `ImportProfiles`, `AllowDeletes`, one excluded name | the deletion of a profile takes its memberships from excluded accounts (domains.py:742) |
| `PreparedMeansApplicable` (`UserImport`) | `ImportProfiles`, `AllowDeletes` | Main reads its accounts (engine.py:120) and its domains (engine.py:127) one after the other, and the preparation counts local profiles that the domains then delete (user_accounts.py:355): the import is rolled back late |
| `LoopsExclusive` (`ServiceLease`) | request `reconcile` | the lease is released while the stopped loop is still in a cycle |
| `SignalReachesOwner` (`ServiceLease`, `FairSpec`) | request `stop` | the next acquisition deletes a stop key that was just set (autostart.py:44) |
| `StopsOnlyTarget` (`ServiceLease`) | requests `start`, `stop` | a stop key set after the next election stops the new service |
| `AutostartRuns` (`ServiceLease`, `FairSpec`) | `MaxCrashes = 1`, no requests | a respawned worker tries once, meets the lease of the dead one and gives up (autostart.py:168-170) |
| `ReturningFollows` (`ColdStandby`) | `MaxReadErrors = 1`; or any, after `SwitchOnline`; or any, after an export during a start | an unreadable store counts as nothing newer (engine.py:956-958); an online node does not look (engine.py:950-951); an export during the start goes over the newer bundle (engine.py:1120-1126) |
| `AuthorityNotLost` without `faults.crossed` (`ColdStandby`) | `MaxKills = 1` | a final or manual export checks the authority before the lock (engine.py:104), the recovery demotes its node (engine.py:963), the export publishes over the peer's bundle; the peer demotes itself for it at its next start and is killed before it has accepted anything: no state file says authoritative |
| `FinalBundleIsLast` (`ColdStandby`) | `LoopStopsFirst = FALSE` | the final export runs before `_stop` is set (engine.py:1179-1182); a loop publishes after it |
| `RefusedOnlyInProgress` (`ColdStandby`) | any | the phase `cold_takeover_complete` is never cleared (engine.py:868) |
| `EffectiveIsIntended` (`NodeConfig`) | any, after one of the mishaps | an old mirror lies over the saved file (node_config.py:205); the page does not know native edits (setup_assistant.py:267); two writers lose a change (engine.py:735) |
| `ReadyIsServed` (`SetupHelper`) | any | a helper already told to stop still answers the health check (\_\_init\_\_.py:171) |

`GracefulStopFlushes` excepts the kill of a helper after five seconds
(\_\_init\_\_.py:206), which cuts a final export off.

## 8. Not modelled

- Cryptography, canonical encoding, HTTP framing and replay windows, ARP frames, access tokens, rate
  limits, forms and logging: their failures appear as refused or failing calls.
- The validation of single settings (`config.py`), which keeps nothing.
- `_reconcile_runtime` (schedules and caches refreshed after a commit) and the resetting of
  database sequences.
- Many-to-many rows and several tables in one import. `DomainScope` shows that tables are
  applied after what they refer to.
- `test_connection` of the stores, and the export of the user snapshot.
- The comparison of client identities (`client_identity.py`), a pure function over rows.
- The vendored packages, the tests and the test bed.
