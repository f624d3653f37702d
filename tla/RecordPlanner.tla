----------------------------- MODULE RecordPlanner -----------------------------
(***************************************************************************)
(* How a Follower plans the import of one domain: failovarr/planner.py and *)
(* the planning half of failovarr/domains.py, as operators on tables. A    *)
(* table is a function from the ids in use to rows, so ids are unique by   *)
(* construction, as the primary key makes them in both databases.          *)
(*                                                                         *)
(* A row is [key, uniq, active, locked, body]: its natural identity, a     *)
(* second unique column (NoValue when null), the two flags that policies   *)
(* look at, and everything else. The schema checks of _validate_records    *)
(* (field names, types, timestamps) are left out: Main signs what it read  *)
(* from the same schema.                                                   *)
(***************************************************************************)
EXTENDS Integers, FiniteSets, SequencesExt

CONSTANTS
    NoValue,        \* null in a nullable identity
    SupportsLocked, \* the domain has a locked column (DomainSpec.supports_locked)
    Surrogate,      \* ids have no meaning outside the table (DomainSpec.surrogate_id)
    Policy,         \* for new records: "disabled", "source", "block", or "none" for a domain without one
    AllowDeletes,   \* allow_deletes, or mirror_channel_stream_assignments
    Overrides       \* local overrides: a function from some ids to the fields they replace

ASSUME PlannerAssumption ==
    /\ SupportsLocked \in BOOLEAN
    /\ Surrogate \in BOOLEAN
    /\ AllowDeletes \in BOOLEAN
    /\ Policy \in {"disabled", "source", "block", "none"}

UniqueFields == {"key", "uniq"}

RowFields == {"key", "uniq", "active", "locked", "body"}

\* No two rows share a unique value that is not null.
KeysUnique(t) ==
    \A f \in UniqueFields : \A i, j \in DOMAIN t :
        i # j /\ t[i][f] # NoValue => t[i][f] # t[j][f]

Locked(t) == {i \in DOMAIN t : SupportsLocked /\ t[i].locked}

\* apply_local_overrides: the fields an override names replace Main's.
Overridden(row, i) ==
    IF i \notin DOMAIN Overrides THEN row
    ELSE [f \in DOMAIN row |-> IF f \in DOMAIN Overrides[i] THEN Overrides[i][f] ELSE row[f]]

New(current, incoming) == DOMAIN incoming \ DOMAIN current

\* Mutant: a protected row that Main no longer has is not carried over.
MutantPrepare(current, incoming, protected) ==
    [i \in DOMAIN incoming |->
        IF i \in protected \cap DOMAIN current THEN current[i]
        ELSE IF Policy = "disabled" /\ i \in New(current, incoming)
             THEN [Overridden(incoming[i], i) EXCEPT !.active = FALSE]
             ELSE Overridden(incoming[i], i)]

\* _prepare_desired_records. A protected row stays as it is here, also when
\* Main no longer has it; a new one starts disabled where the policy says so.
Prepare(current, incoming, protected) ==
    LET kept == protected \cap DOMAIN current IN
    [i \in DOMAIN incoming \cup kept |->
        IF i \in kept THEN current[i]
        ELSE IF Policy = "disabled" /\ i \in New(current, incoming)
             THEN [Overridden(incoming[i], i) EXCEPT !.active = FALSE]
             ELSE Overridden(incoming[i], i)]

Blocked(current, incoming) ==
    IF Policy = "block" THEN New(current, incoming) ELSE {}

\* One pass of the loop of reconcile_surrogate_ids: a row whose identity is known
\* here takes the local id, any other its own id if that is free, else the next
\* id above everything seen.
TakeId(current, incoming, acc, i) ==
    LET known == {j \in DOMAIN current : current[j].key = incoming[i].key}
        used  == DOMAIN current \cup DOMAIN acc.rows
        above == CHOOSE n \in acc.next..(acc.next + Cardinality(used)) :
                    n \notin used /\ \A m \in acc.next..(n - 1) : m \in used
        moved == known = {} /\ i \in used
        id    == IF known # {} THEN CHOOSE j \in known : TRUE
                 ELSE IF moved THEN above ELSE i
    IN  [next |-> IF moved THEN above + 1 ELSE acc.next,
         rows |-> [j \in DOMAIN acc.rows \cup {id} |->
                     IF j \in DOMAIN acc.rows THEN acc.rows[j] ELSE incoming[i]]]

\* Mutant: Main's ids are kept.
MutantReconciled(current, incoming) == incoming

\* reconcile_surrogate_ids, over Main's rows in the order of their ids, which
\* are numbered from 1.
Reconciled(current, incoming) ==
    LET top == Max(DOMAIN current \cup DOMAIN incoming \cup {0})
        upTo[n \in 0..top] ==
            IF n = 0 THEN [next |-> top + 1, rows |-> <<>>]
            ELSE IF n \in DOMAIN incoming THEN TakeId(current, incoming, upTo[n - 1], n)
            ELSE upTo[n - 1]
    IN  upTo[top].rows

Desired(current, incoming, protected) ==
    LET prepared == Prepare(current, incoming, protected)
    IN  IF Surrogate THEN Reconciled(current, prepared) ELSE prepared

\* Mutant: only the natural key is compared.
MutantTaken(current, desired, i) ==
    \E j \in DOMAIN current \ {i} : current[j].key = desired[i].key

\* A row here, of another id, already has a unique value of desired[i].
Taken(current, desired, i) ==
    \E f \in UniqueFields : \E j \in DOMAIN current \ {i} :
        desired[i][f] # NoValue /\ current[j][f] = desired[i][f]

\* The id names something else here.
Renamed(current, desired, i) ==
    i \in DOMAIN current /\ current[i].key # desired[i].key

Clash(current, desired, i) == Taken(current, desired, i) \/ Renamed(current, desired, i)

Created(current, desired) == {i \in New(current, desired) : ~Clash(current, desired, i)}

Updated(current, desired) ==
    {i \in DOMAIN desired \cap DOMAIN current :
        ~Clash(current, desired, i) /\ desired[i] # current[i]}

Deleted(current, desired) ==
    IF AllowDeletes THEN DOMAIN current \ DOMAIN desired ELSE {}

\* The conflicts of plan_records and plan_domains: clashes, blocked new rows,
\* locked rows that would change.
Conflicts(current, incoming, desired) ==
    {i \in DOMAIN desired : Clash(current, desired, i)}
        \cup Blocked(current, incoming)
        \cup (Locked(current) \cap (Updated(current, desired) \cup Deleted(current, desired)))

\* _validate_records, on Main's rows and on the desired ones.
Valid(current, incoming, protected) ==
    KeysUnique(incoming) /\ KeysUnique(Prepare(current, incoming, protected))
        /\ KeysUnique(Desired(current, incoming, protected))

\* The fields an update statement names.
Changes(current, desired, i) == {f \in RowFields : desired[i][f] # current[i][f]}

(***************************************************************************)
(* Initialization: the whole table is replaced, except the rows that stay. *)
(***************************************************************************)

\* _bootstrap_preserved_ids: protected rows, and locked ones that would not change.
Preserved(current, desired, protected) ==
    (protected \cap DOMAIN current)
        \cup {i \in Locked(current) \cap DOMAIN desired : desired[i] = current[i]}

ReplaceConflicts(current, incoming, desired, protected) ==
    Blocked(current, incoming) \cup (Locked(current) \ Preserved(current, desired, protected))

\* The row of the same natural identity, for references to a row that goes.
Successors(current, desired, i) == {j \in DOMAIN desired : desired[j].key = current[i].key}

\* Mutant: a reference keeps its id.
MutantRemap(current, desired, ids) == [i \in ids |-> i]

\* The remap of _external_reference_plan, of the ids that are referenced.
Remap(current, desired, ids) ==
    [i \in ids |-> CHOOSE j \in Successors(current, desired, i) : TRUE]

=============================================================================
