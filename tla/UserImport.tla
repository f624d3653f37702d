------------------------------ MODULE UserImport ------------------------------
(***************************************************************************)
(* User accounts in the import transaction of a Follower: the snapshot     *)
(* that Main signs with its domains, prepare_user_import and               *)
(* apply_user_import of failovarr/user_accounts.py, and the transaction    *)
(* that apply_latest and initialize_follower open around the domains and   *)
(* the accounts. The accounts are planned before the domains change; at    *)
(* any time the Follower's administrator creates and deletes accounts and  *)
(* deletes profiles and groups.                                            *)
(*                                                                         *)
(* An account is [id, active, profiles, groups]; groups stands for Django  *)
(* groups and permissions alike. Other account fields are copied whole.    *)
(***************************************************************************)
EXTENDS Naturals, FiniteSets, Functions

CONSTANTS
    Name, Profile, Group,
    Ids,            \* the primary keys of accounts, a set of numbers
    Selected,       \* the names the rules select
    ActivePolicy,   \* [Name -> {"follow", "active", "inactive"}]
    ImportProfiles, \* the domain channel_profiles is selected on this node
    AllowDeletes,
    MaxEdits,
    NoTx

ASSUME UserAssumption ==
    /\ Selected \subseteq Name
    /\ ActivePolicy \in [Name -> {"follow", "active", "inactive"}]
    /\ ImportProfiles \in BOOLEAN /\ AllowDeletes \in BOOLEAN
    /\ Ids \subseteq Nat /\ MaxEdits \in Nat

Account == [id : Ids, active : BOOLEAN, profiles : SUBSET Profile, groups : SUBSET Group]
MainAccount == [active : BOOLEAN, profiles : SUBSET Profile, groups : SUBSET Group]

Database == [users : UNION {[S -> Account] : S \in SUBSET Name},
             profiles : SUBSET Profile, groups : SUBSET Group]

ASSUME NoTxAssumption == NoTx \notin Database

VARIABLES
    db,        \* the committed database: [users, profiles, groups]
    snapshot,  \* Main's accounts in the bundle
    incoming,  \* the names of the channel profiles in the bundle
    tx,        \* what the open transaction sees
    prepared,  \* per selected name: [existed, id, values]
    todo,      \* prepared names not yet written
    pc,        \* "idle", "prepared", or while the transaction is open "domains"
               \* (after apply_domains) or "initialized" (after initialize_domains)
    outcome,   \* why the last import ended
    late,      \* history: <<account, relation, x>>, x deleted after the account was written
    edits

vars == <<db, snapshot, incoming, tx, prepared, todo, pc, outcome, late, edits>>

UsedIds(d) == {d.users[n].id : n \in DOMAIN d.users}

InTransaction == pc \in {"domains", "initialized"}

\* Names have one account, accounts have different keys and refer to what exists.
Consistent(d) ==
    /\ \A m, n \in DOMAIN d.users : d.users[m].id = d.users[n].id => m = n
    /\ \A n \in DOMAIN d.users :
        d.users[n].profiles \subseteq d.profiles /\ d.users[n].groups \subseteq d.groups

Init ==
    /\ db \in {d \in Database : Consistent(d) /\ \A n \in DOMAIN d.users : d.users[n].active}
    /\ snapshot \in UNION {[S -> MainAccount] : S \in SUBSET Name}
    /\ incoming \in SUBSET Profile
    /\ tx = NoTx /\ prepared = <<>> /\ todo = {}
    /\ pc = "idle" /\ outcome = "none" /\ late = {} /\ edits = 0

-----------------------------------------------------------------------------
(* The administrator of the Follower. An open transaction sees what others
   commit (READ COMMITTED), and they wait for the rows that it has written. *)

WithUser(d, n, account) ==
    [users |-> [m \in DOMAIN d.users \cup {n} |-> IF m = n THEN account ELSE d.users[m]],
     profiles |-> d.profiles, groups |-> d.groups]

WithoutUser(d, n) == [d EXCEPT !.users = Restrict(@, DOMAIN @ \ {n})]

LeftGroup(account, g) == [account EXCEPT !.groups = @ \ {g}]

\* The row goes, and with it the memberships.
WithoutGroup(d, g) ==
    [users |-> [n \in DOMAIN d.users |-> LeftGroup(d.users[n], g)],
     profiles |-> d.profiles, groups |-> d.groups \ {g}]

\* Mutant: the memberships of a profile that goes stay.
MutantWithProfiles(d, names) == [d EXCEPT !.profiles = names]

KeptProfiles(account, names) == [account EXCEPT !.profiles = @ \cap names]

\* Profiles that go take their memberships with them, whoever has them.
WithProfiles(d, names) ==
    [users |-> [n \in DOMAIN d.users |-> KeptProfiles(d.users[n], names)],
     profiles |-> names, groups |-> d.groups]

PreparedIds == {prepared[n].id : n \in DOMAIN prepared}

Edit(after, seen) ==
    /\ edits < MaxEdits
    /\ db' = after
    /\ tx' = IF tx = NoTx THEN NoTx ELSE seen
    /\ edits' = edits + 1
    /\ UNCHANGED <<snapshot, incoming, prepared, todo, pc, outcome>>

\* The open transaction has not written the account n.
NotWritten(n) == tx # NoTx => n \in todo \cup (Name \ DOMAIN prepared)

\* The open transaction has neither added a membership of x nor taken one away.
NotTouched(relation, x) ==
    tx # NoTx => \A n \in DOMAIN tx.users :
        x \in tx.users[n][relation] <=> n \in DOMAIN db.users /\ x \in db.users[n][relation]

Late(relation, x) ==
    late' = late \cup {<<n, relation, x>> : n \in IF tx = NoTx THEN {} ELSE DOMAIN prepared \ todo}

\* A new account, under a key that nobody has.
CreateUser(n) ==
    /\ n \notin DOMAIN db.users /\ NotWritten(n)
    /\ \E id \in Ids \ (UsedIds(db) \cup PreparedIds) :
        LET account == [id |-> id, active |-> TRUE, profiles |-> {}, groups |-> {}] IN
        /\ tx # NoTx => id \notin UsedIds(tx)
        /\ Edit(WithUser(db, n, account), WithUser(tx, n, account))
    /\ UNCHANGED late

DeleteUser(n) ==
    /\ n \in DOMAIN db.users /\ NotWritten(n)
    /\ tx # NoTx => tx.users[n] = db.users[n]
    /\ Edit(WithoutUser(db, n), WithoutUser(tx, n))
    /\ UNCHANGED late

DeleteGroup(g) ==
    /\ g \in db.groups /\ NotTouched("groups", g)
    /\ Edit(WithoutGroup(db, g), WithoutGroup(tx, g))
    /\ Late("groups", g)

\* initialize_domains replaces the rows of mirrored profiles, apply_domains those it changes.
DeleteProfile(p) ==
    /\ p \in db.profiles /\ NotTouched("profiles", p)
    /\ tx # NoTx => p \in tx.profiles
    /\ ImportProfiles => pc # "initialized"
    /\ Edit(WithProfiles(db, db.profiles \ {p}), WithProfiles(tx, tx.profiles \ {p}))
    /\ Late("profiles", p)

-----------------------------------------------------------------------------
(* The import. *)

\* Mutant: the rules are not asked.
MutantChosen == DOMAIN snapshot

\* The accounts of Main that the rules select.
Chosen == Selected \cap DOMAIN snapshot

Values(n) ==
    [snapshot[n] EXCEPT !.active = IF ActivePolicy[n] = "follow" THEN @ ELSE ActivePolicy[n] = "active"]

\* _prepare_user_import: the profiles of the bundle count only when imported.
Available == db.profiles \cup (IF ImportProfiles THEN incoming ELSE {})

\* prepare_user_import: all dependencies of all selected accounts exist.
DependenciesKnown ==
    \A n \in Chosen :
        snapshot[n].profiles \subseteq Available /\ snapshot[n].groups \subseteq db.groups

Prepare ==
    /\ pc = "idle" /\ outcome = "none"
    /\ DependenciesKnown
    /\ prepared' = [n \in Chosen |->
                      [existed |-> n \in DOMAIN db.users,
                       id      |-> IF n \in DOMAIN db.users THEN db.users[n].id ELSE 0,
                       values  |-> Values(n)]]
    /\ pc' = "prepared"
    /\ UNCHANGED <<db, snapshot, incoming, tx, todo, outcome, late, edits>>

Refuse ==
    /\ pc = "idle" /\ outcome = "none"
    /\ ~DependenciesKnown
    /\ outcome' = "missing_dependencies"
    /\ UNCHANGED <<db, snapshot, incoming, tx, prepared, todo, pc, late, edits>>

\* The transaction begins with the domains.
DomainsDone(result, names) ==
    /\ pc = "prepared"
    /\ tx' = WithProfiles(db, names)
    /\ todo' = DOMAIN prepared
    /\ pc' = result
    /\ UNCHANGED <<db, snapshot, incoming, prepared, outcome, late, edits>>

\* apply_domains
ApplyDomains ==
    DomainsDone("domains",
        IF ~ImportProfiles THEN db.profiles
        ELSE IF AllowDeletes THEN incoming ELSE incoming \cup db.profiles)

\* initialize_domains: a profile that an account has is an external reference.
InitializeDomains ==
    /\ ImportProfiles => \A n \in DOMAIN db.users : db.users[n].profiles = {}
    /\ DomainsDone("initialized", IF ImportProfiles THEN incoming ELSE db.profiles)

Ended(reason) ==
    /\ pc' = "idle" /\ outcome' = reason
    /\ tx' = NoTx /\ prepared' = <<>> /\ todo' = {} /\ late' = {}
    /\ UNCHANGED <<snapshot, incoming, edits>>

\* The domains report a conflict or raise: the accounts are not touched.
DomainsFail ==
    /\ pc = "prepared"
    /\ Ended("domain_conflicts")
    /\ UNCHANGED db

\* Mutant: a missing dependency is left out.
MutantDependenciesHold(n) == TRUE

DependenciesHold(n) ==
    prepared[n].values.profiles \subseteq tx.profiles /\ prepared[n].values.groups \subseteq tx.groups

\* Mutant: an existing account is written under a new key.
MutantKeyOf(n, id) == id \notin UsedIds(tx) \cup PreparedIds

\* User.save(): a new account gets a key that nobody has. An account that was found keeps
\* its key, and is inserted again under it when it has been deleted since.
KeyOf(n, id) ==
    IF prepared[n].existed THEN id = prepared[n].id ELSE id \notin UsedIds(tx) \cup PreparedIds

\* Somebody has created an account of the name since: User.save() raises IntegrityError.
Collides(n) ==
    n \in DOMAIN tx.users /\ ~(prepared[n].existed /\ tx.users[n].id = prepared[n].id)

\* One round of apply_user_import.
ApplyUser(n) ==
    /\ InTransaction /\ n \in todo
    /\ ~Collides(n) /\ DependenciesHold(n)
    /\ \E id \in Ids :
        /\ KeyOf(n, id)
        /\ tx' = WithUser(tx, n,
                    [id |-> id, active |-> prepared[n].values.active,
                     profiles |-> prepared[n].values.profiles \cap tx.profiles,
                     groups |-> prepared[n].values.groups \cap tx.groups])
    /\ todo' = todo \ {n}
    /\ UNCHANGED <<db, snapshot, incoming, prepared, pc, outcome, late, edits>>

\* The name is taken or a dependency has gone: everything is rolled back.
ApplyUserFails(n) ==
    /\ InTransaction /\ n \in todo
    /\ Collides(n) \/ ~DependenciesHold(n)
    /\ Ended(IF Collides(n) THEN "name_taken" ELSE "dependencies_changed")
    /\ UNCHANGED db

Commit ==
    /\ InTransaction /\ todo = {}
    /\ db' = tx
    /\ Ended("applied")

Next ==
    \/ \E n \in Name : CreateUser(n) \/ DeleteUser(n) \/ ApplyUser(n) \/ ApplyUserFails(n)
    \/ \E g \in Group : DeleteGroup(g)
    \/ \E p \in Profile : DeleteProfile(p)
    \/ Prepare \/ Refuse
    \/ ApplyDomains \/ InitializeDomains \/ DomainsFail
    \/ Commit

Spec == Init /\ [][Next]_vars

-----------------------------------------------------------------------------
(* Properties. *)

WellTyped(d) ==
    /\ DOMAIN d.users \subseteq Name
    /\ \A n \in DOMAIN d.users : d.users[n] \in Account
    /\ d.profiles \subseteq Profile /\ d.groups \subseteq Group

TypeOK ==
    /\ WellTyped(db)
    /\ tx = NoTx \/ WellTyped(tx)
    /\ tx = NoTx <=> ~InTransaction
    /\ todo \subseteq DOMAIN prepared /\ DOMAIN prepared \subseteq DOMAIN snapshot
    /\ pc \in {"idle", "prepared", "domains", "initialized"}
    /\ edits \in 0..MaxEdits

\* What is committed, by an import or by the administrator in its middle, never
\* has two accounts of one key or an account with a profile or group that is gone,
\* whether the administrator or the mirrored profiles took it away.
AccountsResolve == TypeOK /\ Consistent(db)

\* What the bundle gives to an account and was not deleted after that.
Remaining(n, relation) == {x \in prepared[n].values[relation] : <<n, relation, x>> \notin late}

\* An import commits all selected accounts with all they refer to, less what the
\* administrator deletes after an account is written, or leaves the whole database
\* alone (the transaction in apply_latest), also when the administrator takes the
\* name of one (user.save() in apply_user_import) or deletes what one refers to.
AllOrNothing ==
    [][pc # "idle" /\ pc' = "idle" =>
        IF outcome' = "applied"
        THEN \A n \in DOMAIN prepared :
                /\ n \in DOMAIN db'.users
                /\ db'.users[n].profiles = Remaining(n, "profiles")
                /\ db'.users[n].groups = Remaining(n, "groups")
                /\ db'.users[n].active = prepared[n].values.active
        ELSE db' = db]_vars

\* An account that is here when the import commits, also one created or deleted and
\* created again after the import was planned, keeps its key, and none is deleted.
LocalKeysKept ==
    [][outcome' = "applied" /\ outcome # "applied" =>
        \A n \in DOMAIN db.users : n \in DOMAIN db'.users /\ db'.users[n].id = db.users[n].id]_vars

\* Without the administrator, an import whose dependencies were known to exist
\* before the transaction finds them in it: the check before the domains
\* change and the one after agree. (Fails with mirrored profiles.)
PreparedMeansApplicable == edits = 0 => outcome \notin {"name_taken", "dependencies_changed"}

\* Of an account that is not selected, or that only this node has, an import
\* changes at most the memberships of profiles that it deletes.
OthersLoseOnlyProfiles ==
    [][outcome' = "applied" /\ outcome # "applied" =>
        \A n \in DOMAIN db.users \ (Selected \cap DOMAIN snapshot) :
            db'.users[n] = KeptProfiles(db.users[n], db'.profiles)]_vars

\* Accounts that are not selected, and those only this node has, do not change.
OthersUnchanged ==
    [][outcome' = "applied" /\ outcome # "applied" =>
        \A n \in DOMAIN db.users \ (Selected \cap DOMAIN snapshot) : db'.users[n] = db.users[n]]_vars

=============================================================================
