---------------------------- MODULE FollowerImport ----------------------------
(***************************************************************************)
(* The import of one domain on a Follower: apply_latest and                *)
(* initialize_follower of failovarr/engine.py with apply_domains and       *)
(* initialize_domains of failovarr/domains.py. The import holds the node's *)
(* state lock, so there is one at a time; the operator and Dispatcharr     *)
(* itself change the same rows without that lock. An import reads, plans,  *)
(* writes in one transaction, then records the rows it keeps local in the  *)
(* node's configuration file and its progress in the node's state, and may *)
(* die between any two of these. The long-running service plans with the   *)
(* configuration it was built from.                                        *)
(***************************************************************************)
EXTENDS RecordPlanner

CONSTANTS
    Rows, Tables,  \* the rows that occur, and the tables of Main and of the first state
    Recordings,    \* user data that refers to rows of this table (DVR recordings of channels)
    Kinds,         \* the imports that happen: a subset of {"apply", "initialize"}
    Fresh,         \* TRUE: every import builds its engine (guided setup, plugin action)
    Concurrent,    \* TRUE: rows also change between the plan and the transaction
    MaxBundles, MaxEdits, MaxFaults,   \* bounds
    NoPlan

ASSUME ImportAssumption ==
    /\ Fresh \in BOOLEAN /\ Concurrent \in BOOLEAN
    /\ Kinds \subseteq {"apply", "initialize"}
    /\ Surrogate => Policy = "none"
    /\ MaxBundles \in Nat \ {0} /\ MaxEdits \in Nat /\ MaxFaults \in Nat
    /\ IsFiniteSet(Recordings)

\* Both databases keep unique columns unique and number their rows.
ASSUME TableAssumption ==
    /\ \A row \in Rows : row = [f \in RowFields |-> row[f]] /\ row.active \in BOOLEAN
    /\ \A t \in Tables :
        /\ KeysUnique(t) /\ \A i \in DOMAIN t : t[i] \in Rows
        /\ t = [i \in DOMAIN t |-> t[i]]
        /\ IsFiniteSet(DOMAIN t) /\ DOMAIN t \subseteq Nat \ {0}
    /\ \A i \in DOMAIN Overrides :
        /\ DOMAIN Overrides[i] \subseteq RowFields
        /\ "active" \in DOMAIN Overrides[i] => Overrides[i].active \in BOOLEAN

VARIABLES
    bundle,     \* the newest verified bundle: [seq, rows]
    db,         \* the Follower's table
    refs,       \* the row each recording refers to
    file,       \* protected_records in the node's configuration file
    config,     \* protected_records of the engine that imports
    applied,    \* applied_sequence in the node's state
    pc,         \* the import: "idle", "planned", "committed", "remembered"
    plan,       \* what it computed
    outcome,    \* of the last transaction
    kept,       \* history: rows imported disabled that the operator has not touched since
    edits, faults

vars == <<bundle, db, refs, file, config, applied, pc, plan, outcome, kept, edits, faults>>

Init ==
    /\ \E t \in Tables : bundle = [seq |-> 1, rows |-> t]
    /\ db \in Tables
    /\ refs \in [Recordings -> DOMAIN db]
    /\ file \in (IF Policy = "none" THEN {{}} ELSE SUBSET DOMAIN db)
    /\ config = file
    /\ applied = 0
    /\ pc = "idle" /\ plan = NoPlan /\ outcome = "none"
    /\ kept = {}
    /\ edits = 0 /\ faults = 0

-----------------------------------------------------------------------------
(* Around the import. *)

\* Main exports again, whatever its operator has made of its rows.
NewBundle ==
    /\ bundle.seq < MaxBundles
    /\ \E t \in Tables : bundle' = [seq |-> bundle.seq + 1, rows |-> t]
    /\ UNCHANGED <<db, refs, file, config, applied, pc, plan, outcome, kept, edits, faults>>

\* The operator writes a row of this node in Dispatcharr.
EditRow ==
    /\ edits < MaxEdits
    /\ Concurrent \/ pc = "idle"
    /\ \E i \in UNION {DOMAIN t : t \in Tables}, row \in Rows :
        LET t == [j \in DOMAIN db \cup {i} |-> IF j = i THEN row ELSE db[j]] IN
        /\ KeysUnique(t) /\ db' = t
        /\ kept' = kept \ {i}
    /\ edits' = edits + 1
    /\ UNCHANGED <<bundle, refs, file, config, applied, pc, plan, outcome, faults>>

\* Guided setup saves the protected records and restarts the service with them.
SaveProtection ==
    /\ edits < MaxEdits
    /\ pc = "idle" /\ Policy # "none"
    /\ \E S \in SUBSET DOMAIN db : file' = S /\ config' = S /\ kept' = kept \cap S
    /\ edits' = edits + 1
    /\ UNCHANGED <<bundle, db, refs, applied, pc, plan, outcome, faults>>

\* The service restarts and reads the configuration file.
Restart ==
    /\ pc = "idle" /\ config # file
    /\ config' = file
    /\ UNCHANGED <<bundle, db, refs, file, applied, pc, plan, outcome, kept, edits, faults>>

-----------------------------------------------------------------------------
(* The import. *)

Planned(kind, desired, protected) ==
    [kind |-> kind, bundle |-> bundle, before |-> db, desired |-> desired,
     create |-> Created(db, desired), update |-> Updated(db, desired),
     delete |-> Deleted(db, desired), preserved |-> Preserved(db, desired, protected)]

\* verified_candidate: a newer bundle, or on request the same one again.
Begin(kind) ==
    /\ pc = "idle" /\ kind \in Kinds
    /\ bundle.seq >= applied
    /\ config' = IF Fresh THEN file ELSE config

\* apply_domains up to its transaction. A conflict or invalid rows end the import.
PlanApply ==
    /\ Begin("apply")
    /\ LET desired == Desired(db, bundle.rows, config') IN
        /\ Valid(db, bundle.rows, config')
        /\ Conflicts(db, bundle.rows, desired) = {}
        /\ plan' = Planned("apply", desired, config')
    /\ pc' = "planned"
    /\ UNCHANGED <<bundle, db, refs, file, applied, outcome, kept, edits, faults>>

Referenced == {refs[r] : r \in DOMAIN refs}

\* initialize_domains up to its transaction: also every recording of a row
\* that goes must have a row of the same identity to move to.
PlanInitialize ==
    /\ Begin("initialize")
    /\ bundle.seq > applied
    /\ LET desired == Prepare(db, bundle.rows, config')
           gone    == DOMAIN db \ Preserved(db, desired, config')
       IN
        /\ KeysUnique(bundle.rows) /\ KeysUnique(desired)
        /\ ReplaceConflicts(db, bundle.rows, desired, config') = {}
        /\ \A i \in Referenced \cap gone : Successors(db, desired, i) # {}
        /\ plan' = Planned("initialize", desired, config')
    /\ pc' = "planned"
    /\ UNCHANGED <<bundle, db, refs, file, applied, outcome, kept, edits, faults>>

\* The table after the creates and the updates of the rows in done.
Written(done) ==
    [i \in DOMAIN db \cup plan.create |->
        IF i \in plan.create THEN plan.desired[i]
        ELSE IF i \in done
             THEN [f \in RowFields |-> IF f \in Changes(plan.before, plan.desired, i)
                                       THEN plan.desired[i][f] ELSE db[i][f]]
             ELSE db[i]]

\* The updates so far, after the one create of all and after each update, by id.
Stages == {{}, plan.update} \cup {{i \in plan.update : i <= n} : n \in plan.update}

\* No statement meets a unique constraint.
StatementsSucceed ==
    /\ plan.create \cap DOMAIN db = {}
    /\ \A done \in Stages : KeysUnique(Written(done))

NewDisabled == IF Policy = "disabled" THEN DOMAIN plan.desired \ DOMAIN plan.before ELSE {}

Commit ==
    /\ pc = "planned"
    /\ pc' = "committed" /\ outcome' = "committed"
    /\ kept' = kept \cup NewDisabled
    /\ UNCHANGED <<bundle, file, config, applied, plan, edits, faults>>

\* The transaction of apply_domains. A row's recordings go with it.
CommitApply ==
    /\ Commit
    /\ plan.kind = "apply"
    /\ StatementsSucceed
    /\ db' = Restrict(Written(plan.update), (DOMAIN db \cup plan.create) \ plan.delete)
    /\ refs' = Restrict(refs, {r \in DOMAIN refs : refs[r] \notin plan.delete})

\* The rows that stay, and the desired ones in place of all others.
Replaced ==
    LET stay == plan.preserved \cap DOMAIN db IN
    [i \in stay \cup (DOMAIN plan.desired \ plan.preserved) |->
        IF i \in stay THEN db[i] ELSE plan.desired[i]]

\* One remap: it moves every recording that refers to the id at that moment.
Redirected(current, i, j) == [r \in DOMAIN current |-> IF current[r] = i THEN j ELSE current[r]]

\* The remaps, one statement per referenced id.
Moved(order, mapping) ==
    LET after[k \in 0..Len(order)] ==
            IF k = 0 THEN refs ELSE Redirected(after[k - 1], order[k], mapping[order[k]])
    IN  after[Len(order)]

\* The transaction of initialize_domains. The ids come out of a Python set.
CommitInitialize ==
    /\ Commit
    /\ plan.kind = "initialize"
    /\ KeysUnique(Replaced)
    /\ db' = Replaced
    /\ LET ids == {i \in Referenced \cap DOMAIN plan.before : i \notin plan.preserved} IN
        \E order \in SetToSeqs(ids) :
            refs' = Moved(order, Remap(plan.before, plan.desired, ids))

\* A unique constraint fails and the transaction is rolled back.
RollBack ==
    /\ pc = "planned"
    /\ ~(IF plan.kind = "apply" THEN StatementsSucceed ELSE KeysUnique(Replaced))
    /\ pc' = "idle" /\ plan' = NoPlan /\ outcome' = "rolled_back"
    /\ UNCHANGED <<bundle, db, refs, file, config, applied, kept, edits, faults>>

\* Mutant: the rows kept local are not written to the configuration.
MutantRemember ==
    /\ pc = "committed"
    /\ pc' = "remembered"
    /\ UNCHANGED <<bundle, db, refs, file, config, applied, plan, outcome, kept, edits, faults>>

\* _remember_disabled_records: into the file, not into the engine.
Remember ==
    /\ pc = "committed"
    /\ file' = file \cup NewDisabled
    /\ pc' = "remembered"
    /\ UNCHANGED <<bundle, db, refs, config, applied, plan, outcome, kept, edits, faults>>

RecordState ==
    /\ pc = "remembered"
    /\ applied' = plan.bundle.seq
    /\ pc' = "idle" /\ plan' = NoPlan
    /\ UNCHANGED <<bundle, db, refs, file, config, outcome, kept, edits, faults>>

\* The import dies or raises between two of its steps; after a death the next
\* engine reads the file.
Interrupt ==
    /\ pc # "idle" /\ faults < MaxFaults
    /\ faults' = faults + 1
    /\ config' \in {config, file}
    /\ pc' = "idle" /\ plan' = NoPlan
    /\ UNCHANGED <<bundle, db, refs, file, applied, outcome, kept, edits>>

Next ==
    \/ NewBundle
    \/ EditRow
    \/ SaveProtection
    \/ Restart
    \/ PlanApply
    \/ PlanInitialize
    \/ CommitApply
    \/ CommitInitialize
    \/ RollBack
    \/ Remember
    \/ RecordState
    \/ Interrupt

Spec == Init /\ [][Next]_vars

-----------------------------------------------------------------------------
(* Properties. *)

TypeOK ==
    /\ bundle.seq \in Nat \ {0} /\ applied \in 0..bundle.seq
    /\ \A t \in {db, bundle.rows} :
        /\ KeysUnique(t) /\ DOMAIN t \subseteq Nat \ {0}
        /\ \A i \in DOMAIN t : DOMAIN t[i] = RowFields
    /\ pc \in {"idle", "planned", "committed", "remembered"}
    /\ pc = "idle" => plan = NoPlan
    /\ outcome \in {"none", "committed", "rolled_back"}
    /\ edits \in Nat /\ faults \in Nat

\* A row that was imported as new and disabled stays disabled until the
\* operator enables it or stops keeping it local (_remember_disabled_records).
NewRecordsStayDisabled == \A i \in kept \cap DOMAIN db : ~db[i].active

\* It does so over all later imports that read the configuration file, unless
\* one was interrupted before it wrote that file.
NewStayDisabledUnlessInterrupted == Fresh /\ faults = 0 => NewRecordsStayDisabled

\* No import changes or deletes a row that its engine protects and that it
\* saw, whatever Main sends and whatever happens meanwhile
\* (_prepare_desired_records, _bootstrap_preserved_ids).
ProtectedStep ==
    pc = "planned" /\ pc' = "committed" =>
        \A i \in config \cap DOMAIN plan.before \cap DOMAIN db :
            i \in DOMAIN db' /\ db'[i] = db[i]
ProtectedRowsUntouched == [][ProtectedStep]_vars

\* No import changes or deletes a row that is locked here (plan_domains,
\* _bootstrap_preserved_ids).
LockedStep ==
    pc = "planned" /\ pc' = "committed" =>
        \A i \in Locked(db) : i \in DOMAIN db' /\ db'[i] = db[i]
LockedRowsUntouched == [][LockedStep]_vars

\* A plan without conflicts never runs into a unique constraint, after any of
\* its statements, unless the table has changed since: the plan's checks cover
\* the order of creates and updates (planner.py, domains.py plan_domains).
UndisturbedPlansSucceed ==
    pc = "planned" /\ db = plan.before =>
        IF plan.kind = "apply" THEN StatementsSucceed ELSE KeysUnique(Replaced)

\* What an import without conflicts leaves, row by row: Main's row under its
\* own id, except for what is kept local, and no other row where deletions
\* are mirrored.
MirrorOf(t, before, main, protected) ==
    \A i \in DOMAIN t \cup DOMAIN main \cup DOMAIN before :
        IF i \in protected \cap DOMAIN before THEN i \in DOMAIN t /\ t[i] = before[i]
        ELSE IF i \in DOMAIN main
        THEN /\ i \in DOMAIN t
             /\ \A f \in RowFields \ {"active"} : t[i][f] = Overridden(main[i], i)[f]
             /\ t[i].active = (Overridden(main[i], i).active
                                 /\ (Policy = "disabled" => i \in DOMAIN before))
        ELSE i \in DOMAIN t <=> (plan.kind = "apply" /\ ~AllowDeletes /\ i \in DOMAIN before)

\* What an import of a relation leaves: all of Main's rows, every row known here
\* under its local id, and no other row where deletions are mirrored.
LinksOf(t, before, main) ==
    /\ \A i \in DOMAIN main : \E j \in DOMAIN t : t[j] = main[i]
    /\ \A i \in DOMAIN before \cap DOMAIN t : t[i].key = before[i].key
    /\ \A i \in DOMAIN before :
        i \in DOMAIN t <=> (AllowDeletes => \E j \in DOMAIN main : main[j].key = before[i].key)

HasIdentities(t) == \A i \in DOMAIN t : t[i].key # NoValue

\* The plan takes Main's rows under Main's ids, or those of a relation.
UnderMainIds == plan.desired = Prepare(plan.before, plan.bundle.rows, config)
UnderLocalIds ==
    /\ plan.kind = "apply" /\ HasIdentities(plan.bundle.rows)
    /\ plan.desired = Reconciled(plan.before, plan.bundle.rows)

\* An import to the table it was planned for mirrors Main (domains.py,
\* apply_domains and initialize_domains).
MirrorStep ==
    pc = "planned" /\ pc' = "committed" /\ db = plan.before =>
        /\ UnderMainIds => MirrorOf(db', db, plan.bundle.rows, config)
        /\ UnderLocalIds => LinksOf(db', db, plan.bundle.rows)
ImportMirrorsMain == [][MirrorStep]_vars

\* Desired rows that name the rows of Main, each once, and each that is known
\* here, and no other, by its local id: so ids never block an import.
MatchByIdentity(current, incoming, desired) ==
    /\ KeysUnique(desired)
    /\ \A i \in DOMAIN incoming : \E j \in DOMAIN desired : desired[j] = incoming[i]
    /\ \A j \in DOMAIN desired : \E i \in DOMAIN incoming : desired[j] = incoming[i]
    /\ \A i \in DOMAIN current, j \in DOMAIN desired :
        current[i].key = desired[j].key <=> i = j

\* Whatever rows and ids both sides have, the rows of a relation are matched by
\* identity (planner.py, reconcile_surrogate_ids).
LinksMatchByIdentity ==
    HasIdentities(bundle.rows) =>
        MatchByIdentity(db, bundle.rows, Reconciled(db, bundle.rows))

\* A recording always refers to a row that exists, through deletions,
\* replacements and remaps (_external_reference_plan, initialize_domains).
RecordingsResolve == TypeOK /\ \A r \in DOMAIN refs : refs[r] \in DOMAIN db

\* Initialization keeps every recording on the channel it belongs to
\* (_external_reference_plan: "remapped by the stable Channel natural identity").
RecordingsKeepIdentity ==
    [][pc = "planned" /\ pc' = "committed" /\ plan.kind = "initialize" =>
        \A r \in DOMAIN refs : db'[refs'[r]].key = db[refs[r]].key]_vars

=============================================================================
