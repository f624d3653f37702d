--------------------------- MODULE UserImportProofs ---------------------------
(***************************************************************************)
(* UserImport for any accounts, rules and number of administrator's edits. *)
(* Of what the import plans before the transaction one thing stays true    *)
(* while others create and delete accounts: nobody else gets the key of an *)
(* account that was found, and whoever has taken its name has another key, *)
(* which the import does not write. So the open transaction is a           *)
(* consistent database throughout, and what it commits agrees with what is *)
(* committed beside it.                                                    *)
(***************************************************************************)
EXTENDS UserImport, TLAPS

UserTable(u) == DOMAIN u \subseteq Name /\ u \in [DOMAIN u -> Account]

LEMMA DatabaseIs ==
    ASSUME NEW d
    PROVE  d \in Database <=>
              /\ d = [users |-> d.users, profiles |-> d.profiles, groups |-> d.groups]
              /\ UserTable(d.users) /\ d.profiles \subseteq Profile /\ d.groups \subseteq Group
BY DEF Database, UserTable

LEMMA DatabaseOf ==
    ASSUME NEW u, NEW p, NEW g, UserTable(u), p \subseteq Profile, g \subseteq Group
    PROVE  [users |-> u, profiles |-> p, groups |-> g] \in Database
BY DEF Database, UserTable

Good(d) == d \in Database /\ Consistent(d)

LEMMA GoodTyped ==
    ASSUME NEW d, Good(d) PROVE WellTyped(d)
BY DatabaseIs DEF Good, UserTable, WellTyped

\* What the administrator and the domains do to a database.

LEMMA WithUserGood ==
    ASSUME NEW d, Good(d), NEW n \in Name, NEW account \in Account,
           account.profiles \subseteq d.profiles, account.groups \subseteq d.groups,
           \A m \in DOMAIN d.users \ {n} : d.users[m].id # account.id
    PROVE  /\ Good(WithUser(d, n, account))
           /\ WithUser(d, n, account).profiles = d.profiles
           /\ WithUser(d, n, account).groups = d.groups
           /\ DOMAIN WithUser(d, n, account).users = DOMAIN d.users \cup {n}
           /\ WithUser(d, n, account).users[n] = account
           /\ \A m \in DOMAIN d.users \ {n} : WithUser(d, n, account).users[m] = d.users[m]
<1> DEFINE u == [m \in DOMAIN d.users \cup {n} |-> IF m = n THEN account ELSE d.users[m]]
<1>1. UserTable(d.users) /\ d.profiles \subseteq Profile /\ d.groups \subseteq Group
  BY DatabaseIs DEF Good
<1>2. WithUser(d, n, account) = [users |-> u, profiles |-> d.profiles, groups |-> d.groups]
  BY DEF WithUser
<1>3. UserTable(u)
  BY <1>1 DEF UserTable
<1>4. WithUser(d, n, account) \in Database
  BY <1>1, <1>2, <1>3, DatabaseOf
<1>5. /\ DOMAIN u = DOMAIN d.users \cup {n} /\ u[n] = account
      /\ \A m \in DOMAIN d.users \ {n} : u[m] = d.users[m]
  OBVIOUS
<1> HIDE DEF u
<1>6. Consistent(WithUser(d, n, account))
  BY <1>2, <1>5 DEF Good, Consistent
<1> QED
  BY <1>2, <1>4, <1>5, <1>6 DEF Good

LEMMA WithoutUserGood ==
    ASSUME NEW d, Good(d), NEW n
    PROVE  /\ Good(WithoutUser(d, n))
           /\ WithoutUser(d, n).profiles = d.profiles /\ WithoutUser(d, n).groups = d.groups
           /\ DOMAIN WithoutUser(d, n).users = DOMAIN d.users \ {n}
           /\ \A m \in DOMAIN d.users \ {n} : WithoutUser(d, n).users[m] = d.users[m]
<1> DEFINE u == Restrict(d.users, DOMAIN d.users \ {n})
<1>1. UserTable(d.users) /\ d = [users |-> d.users, profiles |-> d.profiles, groups |-> d.groups]
      /\ d.profiles \subseteq Profile /\ d.groups \subseteq Group
  BY DatabaseIs DEF Good
<1>2. WithoutUser(d, n) = [users |-> u, profiles |-> d.profiles, groups |-> d.groups]
  BY <1>1 DEF WithoutUser
<1>3. DOMAIN u = DOMAIN d.users \ {n} /\ \A m \in DOMAIN u : u[m] = d.users[m]
  BY DEF Restrict
<1>4. UserTable(u)
  BY <1>1, <1>3 DEF UserTable, Restrict
<1>5. WithoutUser(d, n) \in Database
  BY <1>1, <1>2, <1>4, DatabaseOf
<1> HIDE DEF u
<1>6. /\ WithoutUser(d, n).profiles = d.profiles /\ WithoutUser(d, n).groups = d.groups
      /\ WithoutUser(d, n).users = u
  BY <1>2
<1>7. Consistent(WithoutUser(d, n))
  BY <1>3, <1>6 DEF Good, Consistent
<1> QED
  BY <1>3, <1>5, <1>6, <1>7 DEF Good

LEMMA WithoutGroupGood ==
    ASSUME NEW d, Good(d), NEW g
    PROVE  /\ Good(WithoutGroup(d, g))
           /\ WithoutGroup(d, g).profiles = d.profiles /\ WithoutGroup(d, g).groups = d.groups \ {g}
           /\ DOMAIN WithoutGroup(d, g).users = DOMAIN d.users
           /\ \A m \in DOMAIN d.users :
                WithoutGroup(d, g).users[m] = LeftGroup(d.users[m], g)
<1> DEFINE u == [m \in DOMAIN d.users |-> LeftGroup(d.users[m], g)]
<1>1. UserTable(d.users) /\ d = [users |-> d.users, profiles |-> d.profiles, groups |-> d.groups]
      /\ d.profiles \subseteq Profile /\ d.groups \subseteq Group
  BY DatabaseIs DEF Good
<1>2. WithoutGroup(d, g) = [users |-> u, profiles |-> d.profiles, groups |-> d.groups \ {g}]
  BY <1>1 DEF WithoutGroup
<1>3. \A m \in DOMAIN d.users : d.users[m] \in Account
  BY <1>1 DEF UserTable
<1>4. UserTable(u)
  BY <1>1, <1>3 DEF UserTable, Account, LeftGroup
<1>5. WithoutGroup(d, g) \in Database
  BY <1>1, <1>2, <1>4, DatabaseOf
<1>6. Consistent(WithoutGroup(d, g))
  BY <1>2, <1>3 DEF Good, Consistent, Account, LeftGroup
<1> QED
  BY <1>2, <1>5, <1>6 DEF Good

LEMMA KeptIs ==
    ASSUME NEW a \in Account, NEW names
    PROVE  /\ KeptProfiles(a, names).id = a.id
           /\ KeptProfiles(a, names).active = a.active
           /\ KeptProfiles(a, names).groups = a.groups
           /\ KeptProfiles(a, names).profiles = a.profiles \cap names
BY DEF KeptProfiles, Account

LEMMA WithProfilesGood ==
    ASSUME NEW d, Good(d), NEW names \in SUBSET Profile
    PROVE  /\ Good(WithProfiles(d, names))
           /\ WithProfiles(d, names).profiles = names /\ WithProfiles(d, names).groups = d.groups
           /\ DOMAIN WithProfiles(d, names).users = DOMAIN d.users
           /\ \A m \in DOMAIN d.users :
                WithProfiles(d, names).users[m] = KeptProfiles(d.users[m], names)
<1> DEFINE u == [m \in DOMAIN d.users |-> KeptProfiles(d.users[m], names)]
<1>1. UserTable(d.users) /\ d = [users |-> d.users, profiles |-> d.profiles, groups |-> d.groups]
      /\ d.profiles \subseteq Profile /\ d.groups \subseteq Group
  BY DatabaseIs DEF Good
<1>2. WithProfiles(d, names) = [users |-> u, profiles |-> names, groups |-> d.groups]
  BY <1>1 DEF WithProfiles
<1>3. \A m \in DOMAIN d.users : d.users[m] \in Account
  BY <1>1 DEF UserTable
<1>4. UserTable(u)
  BY <1>1, <1>3 DEF UserTable, Account, KeptProfiles
<1>5. WithProfiles(d, names) \in Database
  BY <1>1, <1>2, <1>4, DatabaseOf
<1>6. Consistent(WithProfiles(d, names))
  BY <1>2, <1>3 DEF Good, Consistent, Account, KeptProfiles
<1> QED
  BY <1>2, <1>5, <1>6 DEF Good

-----------------------------------------------------------------------------
(* The invariant. *)

\* The bundle is what Main signed.
BundleOK ==
    /\ DOMAIN snapshot \subseteq Name
    /\ \A n \in DOMAIN snapshot : snapshot[n] \in MainAccount
    /\ incoming \subseteq Profile

\* Nobody but n has the key under which n was found.
KeysFree(d) ==
    \A n \in DOMAIN prepared : prepared[n].existed =>
        \A m \in DOMAIN d.users : d.users[m].id = prepared[n].id => m = n

\* What was planned, and what of it still describes the committed database.
PlanOK ==
    /\ DOMAIN prepared = IF pc = "idle" THEN {} ELSE Chosen
    /\ \A n \in DOMAIN prepared :
        /\ prepared[n].values \in MainAccount
        /\ prepared[n].existed => prepared[n].id \in Ids
    /\ \A m, n \in DOMAIN prepared :
        prepared[m].existed /\ prepared[n].existed /\ prepared[m].id = prepared[n].id => m = n
    /\ KeysFree(db)

\* An account that has been written.
Applied(n) ==
    /\ n \in DOMAIN tx.users
    /\ tx.users[n].profiles = Remaining(n, "profiles")
    /\ tx.users[n].groups = Remaining(n, "groups")
    /\ tx.users[n].active = prepared[n].values.active

\* The open transaction beside the committed database.
OpenOK ==
    /\ Good(tx) /\ KeysFree(tx)
    /\ todo \subseteq DOMAIN prepared
    /\ \A n \in DOMAIN prepared \ todo : Applied(n)
    /\ \A n, relation, x : <<n, relation, x>> \in late => n \in DOMAIN prepared \ todo
    /\ \A n \in DOMAIN db.users :
        n \in DOMAIN tx.users /\ tx.users[n].id = db.users[n].id
    /\ \A n \in DOMAIN db.users \ DOMAIN prepared :
        tx.users[n] = KeptProfiles(db.users[n], tx.profiles)
    /\ ~ImportProfiles => tx.profiles = db.profiles

Inv ==
    /\ BundleOK /\ PlanOK /\ Good(db)
    /\ pc \in {"idle", "prepared", "domains", "initialized"} /\ edits \in 0..MaxEdits
    /\ IF InTransaction THEN OpenOK ELSE tx = NoTx /\ todo = {} /\ late = {}

LEMMA OpenIsNotNoTx == NoTx # tx \/ ~Good(tx)
BY NoTxAssumption DEF Good

LEMMA InitInv == Init => Inv
<1> SUFFICES ASSUME Init PROVE Inv
  OBVIOUS
<1>1. BundleOK
  BY DEF Init, BundleOK
<1>2. DOMAIN prepared = {}
  BY DEF Init
<1> QED
  BY <1>1, <1>2, UserAssumption DEF Init, Inv, InTransaction, PlanOK, KeysFree, Good

\* What an edit leaves alone; the bundle and the plan are read only by it.
LEMMA EditKeepsPlan ==
    ASSUME Inv, NEW after, NEW seen, Edit(after, seen), Good(after), KeysFree(after)
    PROVE  /\ BundleOK' /\ PlanOK' /\ Good(db)' /\ edits' \in 0..MaxEdits
           /\ db' = after /\ (InTransaction' <=> InTransaction) /\ pc' = pc
           /\ prepared' = prepared /\ todo' = todo
           /\ IF InTransaction THEN tx # NoTx /\ tx' = seen ELSE tx = NoTx /\ tx' = NoTx
<1>1. /\ db' = after /\ edits' = edits + 1 /\ edits < MaxEdits
      /\ tx' = IF tx = NoTx THEN NoTx ELSE seen
      /\ UNCHANGED <<snapshot, incoming, prepared, todo, pc, outcome>>
  BY DEF Edit
<1>2. BundleOK' /\ Chosen' = Chosen
  BY <1>1 DEF Inv, BundleOK, Chosen
<1>3. PlanOK'
  BY <1>1, <1>2 DEF Inv, PlanOK, KeysFree
<1>4. IF InTransaction THEN tx # NoTx ELSE tx = NoTx
  BY OpenIsNotNoTx DEF Inv, OpenOK
<1>5. edits' \in 0..MaxEdits
  BY <1>1, UserAssumption DEF Inv
<1> QED
  BY <1>1, <1>2, <1>3, <1>4, <1>5 DEF Inv, InTransaction

LEMMA CreateUserKeepsInv ==
    ASSUME Inv, NEW n \in Name, CreateUser(n) PROVE Inv'
<1>1. PICK id \in Ids \ (UsedIds(db) \cup PreparedIds) :
        LET account == [id |-> id, active |-> TRUE, profiles |-> {}, groups |-> {}] IN
        /\ tx # NoTx => id \notin UsedIds(tx)
        /\ Edit(WithUser(db, n, account), WithUser(tx, n, account))
  BY DEF CreateUser
<1> DEFINE account == [id |-> id, active |-> TRUE, profiles |-> {}, groups |-> {}]
<1>2. /\ account \in Account /\ account.id = id /\ account.profiles = {} /\ account.groups = {}
  BY DEF Account
<1>k. \A names : KeptProfiles(account, names) = account
  <2> SUFFICES ASSUME NEW names PROVE KeptProfiles(account, names) = account
    OBVIOUS
  <2>1. account.profiles \cap names = {}
    OBVIOUS
  <2>2. KeptProfiles(account, names) = [account EXCEPT !.profiles = {}]
    BY <2>1 DEF KeptProfiles
  <2> QED
    BY <2>2
<1>3. /\ tx # NoTx => id \notin UsedIds(tx)
      /\ Edit(WithUser(db, n, account), WithUser(tx, n, account))
      /\ n \notin DOMAIN db.users /\ late' = late
      /\ tx # NoTx => n \in todo \cup (Name \ DOMAIN prepared)
  BY <1>1 DEF CreateUser, NotWritten
<1> HIDE DEF account
<1>4. /\ Good(WithUser(db, n, account))
      /\ WithUser(db, n, account).profiles = db.profiles
      /\ DOMAIN WithUser(db, n, account).users = DOMAIN db.users \cup {n}
      /\ WithUser(db, n, account).users[n] = account
      /\ \A m \in DOMAIN db.users \ {n} : WithUser(db, n, account).users[m] = db.users[m]
  BY <1>1, <1>2, WithUserGood DEF Inv, UsedIds
<1>5. KeysFree(WithUser(db, n, account))
  BY <1>1, <1>2, <1>4 DEF Inv, PlanOK, KeysFree, PreparedIds
<1>6. /\ BundleOK' /\ PlanOK' /\ Good(db)' /\ edits' \in 0..MaxEdits
      /\ db' = WithUser(db, n, account) /\ (InTransaction' <=> InTransaction) /\ pc' = pc
      /\ prepared' = prepared /\ todo' = todo
      /\ IF InTransaction THEN tx # NoTx /\ tx' = WithUser(tx, n, account)
         ELSE tx = NoTx /\ tx' = NoTx
  BY <1>3, <1>4, <1>5, EditKeepsPlan
<1>7. CASE InTransaction
  <2>1. /\ Good(tx) /\ KeysFree(tx) /\ tx' = WithUser(tx, n, account)
        /\ id \notin UsedIds(tx) /\ n \notin DOMAIN prepared \ todo
    BY <1>3, <1>6, <1>7 DEF Inv, OpenOK
  <2>2. /\ Good(tx') /\ tx'.profiles = tx.profiles
        /\ DOMAIN tx'.users = DOMAIN tx.users \cup {n}
        /\ tx'.users[n] = account
        /\ \A m \in DOMAIN tx.users \ {n} : tx'.users[m] = tx.users[m]
    BY <1>2, <2>1, WithUserGood DEF UsedIds
  <2>3. KeysFree(tx)'
    BY <1>1, <1>2, <1>6, <2>1, <2>2 DEF KeysFree, PreparedIds
  <2>4. ASSUME NEW m \in DOMAIN prepared' \ todo' PROVE Applied(m)'
    BY <1>3, <1>6, <1>7, <2>1, <2>2, <2>4 DEF Inv, OpenOK, Applied, Remaining
  <2>5. ASSUME NEW m \in DOMAIN db'.users
        PROVE  /\ m \in DOMAIN tx'.users /\ tx'.users[m].id = db'.users[m].id
               /\ m \notin DOMAIN prepared' => tx'.users[m] = KeptProfiles(db'.users[m], tx'.profiles)
    BY <1>2, <1>k, <1>4, <1>6, <1>7, <2>1, <2>2, <2>5 DEF Inv, OpenOK
  <2>6. OpenOK'
    BY <1>3, <1>4, <1>6, <1>7, <2>2, <2>3, <2>4, <2>5 DEF Inv, OpenOK
  <2> QED
    BY <1>6, <1>7, <2>6 DEF Inv
<1>8. CASE ~InTransaction
  BY <1>3, <1>6, <1>8 DEF Inv
<1> QED
  BY <1>7, <1>8

LEMMA DeleteUserKeepsInv ==
    ASSUME Inv, NEW n \in Name, DeleteUser(n) PROVE Inv'
<1>1. /\ Edit(WithoutUser(db, n), WithoutUser(tx, n)) /\ late' = late
      /\ tx # NoTx => n \in todo \cup (Name \ DOMAIN prepared)
  BY DEF DeleteUser, NotWritten
<1>2. Good(WithoutUser(db, n)) /\ KeysFree(WithoutUser(db, n))
  BY WithoutUserGood DEF Inv, PlanOK, KeysFree
<1>3. /\ BundleOK' /\ PlanOK' /\ Good(db)' /\ edits' \in 0..MaxEdits
      /\ db' = WithoutUser(db, n) /\ (InTransaction' <=> InTransaction) /\ pc' = pc
      /\ prepared' = prepared /\ todo' = todo
      /\ IF InTransaction THEN tx # NoTx /\ tx' = WithoutUser(tx, n) ELSE tx = NoTx /\ tx' = NoTx
  BY <1>1, <1>2, EditKeepsPlan
<1>5. CASE InTransaction
  <2>1. tx' = WithoutUser(tx, n) /\ n \notin DOMAIN prepared \ todo
    BY <1>1, <1>3, <1>5
  <2>2. Good(tx') /\ KeysFree(tx)'
    BY <1>3, <1>5, <2>1, WithoutUserGood DEF Inv, OpenOK, KeysFree
  <2>3. ASSUME NEW m \in DOMAIN prepared' \ todo' PROVE Applied(m)'
    BY <1>1, <1>3, <1>5, <2>1, <2>3, WithoutUserGood DEF Inv, OpenOK, Applied, Remaining
  <2>4. ASSUME NEW m \in DOMAIN db'.users
        PROVE  /\ m \in DOMAIN tx'.users /\ tx'.users[m].id = db'.users[m].id
               /\ m \notin DOMAIN prepared' => tx'.users[m] = KeptProfiles(db'.users[m], tx'.profiles)
    BY <1>3, <1>5, <2>1, <2>4, WithoutUserGood DEF Inv, OpenOK
  <2>5. ~ImportProfiles => tx'.profiles = db'.profiles
    BY <1>3, <1>5, <2>1, WithoutUserGood DEF Inv, OpenOK
  <2>6. OpenOK'
    BY <1>1, <1>3, <1>5, <2>2, <2>3, <2>4, <2>5 DEF Inv, OpenOK
  <2> QED
    BY <1>3, <1>5, <2>6 DEF Inv
<1>6. CASE ~InTransaction
  BY <1>1, <1>3, <1>6 DEF Inv
<1> QED
  BY <1>5, <1>6

\* What the accounts written have lost since.
LEMMA LateRemoves ==
    ASSUME NEW relation, NEW gone, Late(relation, gone), tx # NoTx, prepared' = prepared,
           \A k, r, x : <<k, r, x>> \in late => k \in DOMAIN prepared \ todo
    PROVE  /\ \A k, r, x : <<k, r, x>> \in late' => k \in DOMAIN prepared \ todo
           /\ \A k \in DOMAIN prepared \ todo : Remaining(k, relation)' = Remaining(k, relation) \ {gone}
           /\ \A k, r : r # relation => Remaining(k, r)' = Remaining(k, r)
<1>1. late' = late \cup {<<k, relation, gone>> : k \in DOMAIN prepared \ todo}
  BY DEF Late
<1>2. \A k, r, x : <<k, r, x>> \in late' <=>
        <<k, r, x>> \in late \/ (r = relation /\ x = gone /\ k \in DOMAIN prepared \ todo)
  BY <1>1
<1> QED
  BY <1>2 DEF Remaining

LEMMA DeleteGroupKeepsInv ==
    ASSUME Inv, NEW g \in Group, DeleteGroup(g) PROVE Inv'
<1>1. Edit(WithoutGroup(db, g), WithoutGroup(tx, g)) /\ Late("groups", g)
  BY DEF DeleteGroup
<1>a. ASSUME NEW d, Good(d), NEW m \in DOMAIN d.users
      PROVE  /\ LeftGroup(d.users[m], g).id = d.users[m].id
             /\ LeftGroup(d.users[m], g).active = d.users[m].active
             /\ LeftGroup(d.users[m], g).profiles = d.users[m].profiles
             /\ LeftGroup(d.users[m], g).groups = d.users[m].groups \ {g}
  <2>1. d.users[m] \in Account
    BY <1>a, GoodTyped DEF WellTyped
  <2> QED
    BY <2>1 DEF LeftGroup, Account
<1>b. Good(db)
  BY DEF Inv
<1>2. Good(WithoutGroup(db, g)) /\ KeysFree(WithoutGroup(db, g))
  BY <1>a, <1>b, WithoutGroupGood DEF Inv, PlanOK, KeysFree
<1>3. /\ BundleOK' /\ PlanOK' /\ Good(db)' /\ edits' \in 0..MaxEdits
      /\ db' = WithoutGroup(db, g) /\ (InTransaction' <=> InTransaction) /\ pc' = pc
      /\ prepared' = prepared /\ todo' = todo
      /\ IF InTransaction THEN tx # NoTx /\ tx' = WithoutGroup(tx, g) ELSE tx = NoTx /\ tx' = NoTx
  BY <1>1, <1>2, EditKeepsPlan
<1>5. CASE InTransaction
  <2>0. Good(tx) /\ tx # NoTx /\ tx' = WithoutGroup(tx, g)
        /\ \A k, r, x : <<k, r, x>> \in late => k \in DOMAIN prepared \ todo
    BY <1>3, <1>5 DEF Inv, OpenOK
  <2>2. Good(tx') /\ KeysFree(tx)'
    BY <1>3, <1>5, <1>a, <2>0, WithoutGroupGood DEF Inv, OpenOK, KeysFree
  <2>3. ASSUME NEW m \in DOMAIN prepared' \ todo' PROVE Applied(m)'
    <3>1. m \in DOMAIN prepared \ todo /\ Applied(m) /\ m \in DOMAIN tx.users
      BY <1>3, <1>5, <2>3 DEF Inv, OpenOK, Applied
    <3>2. m \in DOMAIN tx'.users /\ tx'.users[m] = LeftGroup(tx.users[m], g)
      BY <2>0, <3>1, WithoutGroupGood
    <3>3. /\ Remaining(m, "groups")' = Remaining(m, "groups") \ {g}
          /\ Remaining(m, "profiles")' = Remaining(m, "profiles")
      BY <1>1, <1>3, <2>0, <3>1, LateRemoves
    <3>4. /\ tx'.users[m].active = tx.users[m].active
          /\ tx'.users[m].profiles = tx.users[m].profiles
          /\ tx'.users[m].groups = tx.users[m].groups \ {g}
      BY <1>a, <2>0, <3>1, <3>2
    <3> QED
      BY <1>3, <3>1, <3>2, <3>3, <3>4 DEF Applied
  <2>4. ASSUME NEW m \in DOMAIN db'.users
        PROVE  /\ m \in DOMAIN tx'.users /\ tx'.users[m].id = db'.users[m].id
               /\ m \notin DOMAIN prepared' => tx'.users[m] = KeptProfiles(db'.users[m], tx'.profiles)
    <3>1. m \in DOMAIN db.users /\ db'.users[m] = LeftGroup(db.users[m], g)
      BY <1>3, <1>b, <2>4, WithoutGroupGood
    <3>2. m \in DOMAIN tx.users /\ tx.users[m].id = db.users[m].id
          /\ (m \notin DOMAIN prepared => tx.users[m] = KeptProfiles(db.users[m], tx.profiles))
      BY <1>5, <3>1 DEF Inv, OpenOK
    <3>3. m \in DOMAIN tx'.users /\ tx'.users[m] = LeftGroup(tx.users[m], g)
      BY <2>0, <3>2, WithoutGroupGood
    <3>4. db.users[m] \in Account /\ tx'.profiles = tx.profiles
      BY <1>b, <2>0, <3>1, GoodTyped, WithoutGroupGood DEF WellTyped
    <3>5. LeftGroup(KeptProfiles(db.users[m], tx.profiles), g)
            = KeptProfiles(LeftGroup(db.users[m], g), tx.profiles)
      BY <3>4 DEF LeftGroup, KeptProfiles, Account
    <3> QED
      BY <1>3, <1>a, <1>b, <2>0, <3>1, <3>2, <3>3, <3>4, <3>5
  <2>5. ~ImportProfiles => tx'.profiles = db'.profiles
    BY <1>3, <1>5, <1>b, <2>0, WithoutGroupGood DEF Inv, OpenOK
  <2>6. \A k, r, x : <<k, r, x>> \in late' => k \in DOMAIN prepared' \ todo'
    BY <1>1, <1>3, <2>0, LateRemoves
  <2>7. OpenOK'
    BY <1>3, <1>5, <2>2, <2>3, <2>4, <2>5, <2>6 DEF Inv, OpenOK
  <2> QED
    BY <1>3, <1>5, <2>7 DEF Inv
<1>6. CASE ~InTransaction
  BY <1>1, <1>3, <1>6 DEF Inv, Late
<1> QED
  BY <1>5, <1>6

LEMMA DeleteProfileKeepsInv ==
    ASSUME Inv, NEW p \in Profile, DeleteProfile(p) PROVE Inv'
<1> DEFINE D == db.profiles \ {p}
           T == tx.profiles \ {p}
<1>1. Edit(WithProfiles(db, D), WithProfiles(tx, T)) /\ Late("profiles", p)
  BY DEF DeleteProfile
<1>b. Good(db) /\ D \subseteq Profile
  BY GoodTyped DEF Inv, WellTyped
<1> HIDE DEF D, T
<1>c. /\ Good(WithProfiles(db, D)) /\ DOMAIN WithProfiles(db, D).users = DOMAIN db.users
      /\ \A m \in DOMAIN db.users :
            /\ WithProfiles(db, D).users[m] = KeptProfiles(db.users[m], D)
            /\ WithProfiles(db, D).users[m].id = db.users[m].id
  <2>1. /\ Good(WithProfiles(db, D)) /\ DOMAIN WithProfiles(db, D).users = DOMAIN db.users
        /\ \A m \in DOMAIN db.users : WithProfiles(db, D).users[m] = KeptProfiles(db.users[m], D)
    BY <1>b, WithProfilesGood
  <2>2. \A m \in DOMAIN db.users : KeptProfiles(db.users[m], D).id = db.users[m].id
    BY <1>b, GoodTyped, KeptIs DEF WellTyped
  <2> QED
    BY <2>1, <2>2
<1>2. KeysFree(WithProfiles(db, D))
  BY <1>c DEF Inv, PlanOK, KeysFree
<1>3. /\ BundleOK' /\ PlanOK' /\ Good(db)' /\ edits' \in 0..MaxEdits
      /\ db' = WithProfiles(db, D) /\ (InTransaction' <=> InTransaction) /\ pc' = pc
      /\ prepared' = prepared /\ todo' = todo
      /\ IF InTransaction THEN tx # NoTx /\ tx' = WithProfiles(tx, T) ELSE tx = NoTx /\ tx' = NoTx
  BY <1>1, <1>2, <1>c, EditKeepsPlan
<1>5. CASE InTransaction
  <2>0. Good(tx) /\ tx # NoTx /\ tx' = WithProfiles(tx, T)
        /\ \A k, r, x : <<k, r, x>> \in late => k \in DOMAIN prepared \ todo
    BY <1>3, <1>5 DEF Inv, OpenOK
  <2>1. T \subseteq Profile
    BY <2>0, GoodTyped DEF WellTyped, T
  <2>2. Good(tx') /\ tx'.profiles = T /\ DOMAIN tx'.users = DOMAIN tx.users
        /\ \A m \in DOMAIN tx.users : tx'.users[m] = KeptProfiles(tx.users[m], T)
    BY <2>0, <2>1, WithProfilesGood
  <2>k. \A m \in DOMAIN tx.users :
          /\ tx'.users[m].id = tx.users[m].id
          /\ tx'.users[m].active = tx.users[m].active
          /\ tx'.users[m].groups = tx.users[m].groups
          /\ tx'.users[m].profiles = tx.users[m].profiles \ {p}
    <3> SUFFICES ASSUME NEW m \in DOMAIN tx.users
                 PROVE  /\ tx'.users[m].id = tx.users[m].id
                        /\ tx'.users[m].active = tx.users[m].active
                        /\ tx'.users[m].groups = tx.users[m].groups
                        /\ tx'.users[m].profiles = tx.users[m].profiles \ {p}
      OBVIOUS
    <3>1. /\ KeptProfiles(tx.users[m], T).id = tx.users[m].id
          /\ KeptProfiles(tx.users[m], T).active = tx.users[m].active
          /\ KeptProfiles(tx.users[m], T).groups = tx.users[m].groups
          /\ KeptProfiles(tx.users[m], T).profiles = tx.users[m].profiles \cap T
          /\ tx.users[m].profiles \subseteq tx.profiles
      <4>1. tx.users[m] \in Account /\ tx.users[m].profiles \subseteq tx.profiles
        BY <2>0, GoodTyped DEF WellTyped, Good, Consistent
      <4> QED
        BY <4>1, KeptIs
    <3>2. tx.users[m].profiles \cap T = tx.users[m].profiles \ {p}
      BY <3>1 DEF T
    <3> QED
      BY <2>2, <3>1, <3>2
  <2>3. KeysFree(tx)'
    BY <1>3, <1>5, <2>2, <2>k DEF Inv, OpenOK, KeysFree
  <2>4. ASSUME NEW m \in DOMAIN prepared' \ todo' PROVE Applied(m)'
    <3>1. m \in DOMAIN prepared \ todo /\ Applied(m) /\ m \in DOMAIN tx.users
      BY <1>3, <1>5, <2>4 DEF Inv, OpenOK, Applied
    <3>2. /\ Remaining(m, "profiles")' = Remaining(m, "profiles") \ {p}
          /\ Remaining(m, "groups")' = Remaining(m, "groups")
      BY <1>1, <1>3, <2>0, <3>1, LateRemoves
    <3> QED
      BY <1>3, <2>2, <2>k, <3>1, <3>2 DEF Applied
  <2>5. ASSUME NEW m \in DOMAIN db'.users
        PROVE  /\ m \in DOMAIN tx'.users /\ tx'.users[m].id = db'.users[m].id
               /\ m \notin DOMAIN prepared' => tx'.users[m] = KeptProfiles(db'.users[m], tx'.profiles)
    <3>1. m \in DOMAIN db.users /\ db'.users[m] = KeptProfiles(db.users[m], D)
      BY <1>3, <1>c, <2>5
    <3>2. m \in DOMAIN tx.users /\ tx.users[m].id = db.users[m].id
          /\ (m \notin DOMAIN prepared => tx.users[m] = KeptProfiles(db.users[m], tx.profiles))
      BY <1>5, <3>1 DEF Inv, OpenOK
    <3>3. m \notin DOMAIN prepared => tx'.users[m] = KeptProfiles(KeptProfiles(db.users[m], tx.profiles), T)
      BY <2>2, <3>2
    <3>4. KeptProfiles(KeptProfiles(db.users[m], tx.profiles), T) = KeptProfiles(KeptProfiles(db.users[m], D), T)
      <4>1. db.users[m] \in Account /\ db.users[m].profiles \subseteq db.profiles
        BY <1>b, <3>1, GoodTyped DEF WellTyped, Good, Consistent
      <4>2. (db.users[m].profiles \cap tx.profiles) \cap T = (db.users[m].profiles \cap D) \cap T
        BY <4>1 DEF D, T
      <4> QED
        BY <4>1, <4>2 DEF KeptProfiles, Account
    <3>5. tx'.users[m].id = db'.users[m].id
      BY <1>3, <1>c, <2>k, <3>1, <3>2
    <3> QED
      BY <1>3, <2>2, <3>1, <3>2, <3>3, <3>4, <3>5
  <2>6. ~ImportProfiles => tx'.profiles = db'.profiles
    BY <1>3, <1>5, <1>b, <2>2, WithProfilesGood DEF Inv, OpenOK, D, T
  <2>7. \A k, r, x : <<k, r, x>> \in late' => k \in DOMAIN prepared' \ todo'
    BY <1>1, <1>3, <2>0, LateRemoves
  <2>8. OpenOK'
    BY <1>3, <1>5, <2>2, <2>3, <2>4, <2>5, <2>6, <2>7 DEF Inv, OpenOK
  <2> QED
    BY <1>3, <1>5, <2>8 DEF Inv
<1>6. CASE ~InTransaction
  BY <1>1, <1>3, <1>6 DEF Inv, Late
<1> QED
  BY <1>5, <1>6

LEMMA PrepareKeepsInv == ASSUME Inv, Prepare PROVE Inv'
<1>1. /\ prepared' = [n \in Chosen |->
                        [existed |-> n \in DOMAIN db.users,
                         id      |-> IF n \in DOMAIN db.users THEN db.users[n].id ELSE 0,
                         values  |-> Values(n)]]
      /\ pc = "idle" /\ pc' = "prepared" /\ ~InTransaction /\ ~InTransaction'
      /\ UNCHANGED <<db, snapshot, incoming, tx, todo, late, edits>>
  BY DEF Prepare, InTransaction
<1>2. \A n \in Chosen : n \in DOMAIN snapshot /\ n \in Name /\ snapshot[n] \in MainAccount
  BY DEF Inv, BundleOK, Chosen
<1>3. \A n \in Chosen : Values(n) \in MainAccount
  <2> SUFFICES ASSUME NEW n \in Chosen PROVE Values(n) \in MainAccount
    OBVIOUS
  <2> DEFINE a == IF ActivePolicy[n] = "follow" THEN snapshot[n].active ELSE ActivePolicy[n] = "active"
  <2>1. a \in BOOLEAN
    BY <1>2 DEF MainAccount
  <2>2. Values(n) = [snapshot[n] EXCEPT !.active = a]
    BY DEF Values
  <2> HIDE DEF a
  <2> QED
    BY <1>2, <2>1, <2>2 DEF MainAccount
<1>4. Good(db) /\ WellTyped(db)
  BY GoodTyped DEF Inv
<1>5. \A n \in DOMAIN db.users : db.users[n].id \in Ids
  BY <1>4 DEF WellTyped, Account
<1>6. Chosen' = Chosen /\ BundleOK'
  BY <1>1 DEF Chosen, Inv, BundleOK
<1>7. PlanOK'
  <2>1. DOMAIN prepared' = Chosen'
    BY <1>1, <1>6
  <2>2. ASSUME NEW n \in DOMAIN prepared'
        PROVE  /\ prepared'[n].values \in MainAccount
               /\ prepared'[n].existed <=> n \in DOMAIN db.users
               /\ n \in DOMAIN db.users => prepared'[n].id = db.users[n].id
    BY <1>1, <1>3, <2>2
  <2>3. ASSUME NEW n \in DOMAIN prepared', prepared'[n].existed
        PROVE  \A m \in DOMAIN db.users : db.users[m].id = prepared'[n].id => m = n
    BY <2>2, <2>3, <1>4 DEF Good, Consistent
  <2> QED
    BY <1>1, <1>5, <2>1, <2>2, <2>3 DEF PlanOK, KeysFree
<1> QED
  BY <1>1, <1>4, <1>6, <1>7 DEF Inv

\* The transaction sees the committed database, with the new profiles.
LEMMA DomainsKeepInv ==
    ASSUME Inv, NEW names \in SUBSET Profile, NEW result \in {"domains", "initialized"},
           DomainsDone(result, names),
           ~ImportProfiles => names = db.profiles
    PROVE  Inv'
<1>1. /\ tx' = WithProfiles(db, names) /\ todo' = DOMAIN prepared
      /\ pc = "prepared" /\ pc' \in {"domains", "initialized"}
      /\ InTransaction' /\ late = {}
      /\ UNCHANGED <<db, snapshot, incoming, prepared, late, edits>>
  BY DEF DomainsDone, InTransaction, Inv
<1>2. Good(db) /\ PlanOK
  BY DEF Inv
<1>3. BundleOK' /\ PlanOK'
  BY <1>1 DEF Inv, BundleOK, PlanOK, KeysFree, Chosen
<1>4. ASSUME NEW m \in DOMAIN db.users
      PROVE  /\ m \in DOMAIN tx'.users /\ tx'.users[m].id = db.users[m].id
             /\ tx'.users[m] = KeptProfiles(db.users[m], names)
  <2>1. db.users[m] \in Account
    BY <1>2, GoodTyped DEF WellTyped
  <2>2. m \in DOMAIN tx'.users /\ tx'.users[m] = KeptProfiles(db.users[m], names)
    BY <1>1, <1>2, WithProfilesGood
  <2> QED
    BY <2>1, <2>2 DEF KeptProfiles, Account
<1>5. Good(tx') /\ DOMAIN tx'.users = DOMAIN db.users /\ tx'.profiles = names
  BY <1>1, <1>2, WithProfilesGood DEF WithProfiles
<1>6. KeysFree(tx)'
  BY <1>1, <1>2, <1>4, <1>5 DEF PlanOK, KeysFree
<1>7. OpenOK'
  BY <1>1, <1>4, <1>5, <1>6 DEF OpenOK
<1> QED
  BY <1>1, <1>2, <1>3, <1>7 DEF Inv

\* The transaction ends, and the database is the old one or what it saw.
LEMMA EndedKeepsInv ==
    ASSUME Inv, NEW reason, Ended(reason), Good(db)' PROVE Inv'
<1>1. /\ pc' = "idle" /\ tx' = NoTx /\ prepared' = <<>> /\ todo' = {} /\ late' = {}
      /\ ~InTransaction'
      /\ UNCHANGED <<snapshot, incoming, edits>>
  BY DEF Ended, InTransaction
<1>2. DOMAIN prepared' = {}
  BY <1>1
<1> QED
  BY <1>1, <1>2 DEF Inv, BundleOK, PlanOK, KeysFree

\* What is written under KeyOf is written under a key nobody else has.
LEMMA ApplyUserKeepsInv ==
    ASSUME Inv, NEW n \in Name, ApplyUser(n) PROVE Inv'
<1>1. /\ InTransaction /\ InTransaction' /\ n \in todo /\ todo' = todo \ {n}
      /\ UNCHANGED <<db, snapshot, incoming, prepared, pc, late, edits>>
      /\ ~Collides(n) /\ DependenciesHold(n)
  BY DEF ApplyUser, InTransaction
<1>2. BundleOK /\ PlanOK /\ Good(db) /\ OpenOK /\ Good(tx) /\ KeysFree(tx)
      /\ n \in DOMAIN prepared /\ prepared[n].values \in MainAccount
  BY <1>1 DEF Inv, OpenOK, PlanOK
<1>3. PICK id \in Ids :
        /\ KeyOf(n, id)
        /\ tx' = WithUser(tx, n,
                    [id |-> id, active |-> prepared[n].values.active,
                     profiles |-> prepared[n].values.profiles \cap tx.profiles,
                     groups |-> prepared[n].values.groups \cap tx.groups])
  BY DEF ApplyUser
<1> DEFINE row == [id |-> id, active |-> prepared[n].values.active,
                   profiles |-> prepared[n].values.profiles \cap tx.profiles,
                   groups |-> prepared[n].values.groups \cap tx.groups]
<1>4. \A r, x : <<n, r, x>> \notin late
  BY <1>1, <1>2 DEF OpenOK
<1>5. /\ row \in Account /\ row.id = id /\ row.active = prepared[n].values.active
      /\ row.profiles = Remaining(n, "profiles") /\ row.profiles \subseteq tx.profiles
      /\ row.groups = Remaining(n, "groups") /\ row.groups \subseteq tx.groups
  BY <1>1, <1>2, <1>4 DEF DependenciesHold, Account, MainAccount, Remaining
<1>6. tx' = WithUser(tx, n, row)
  BY <1>3
<1> HIDE DEF row
<1>10. \A m \in DOMAIN tx.users \ {n} : tx.users[m].id # id
  <2>1. CASE prepared[n].existed
    BY <1>2, <1>3, <2>1 DEF KeyOf, KeysFree
  <2>2. CASE ~prepared[n].existed
    BY <1>3, <2>2 DEF KeyOf, UsedIds
  <2> QED
    BY <2>1, <2>2
<1>11. /\ Good(tx')
       /\ DOMAIN tx'.users = DOMAIN tx.users \cup {n}
       /\ tx'.users[n] = row
       /\ \A m \in DOMAIN tx.users \ {n} : tx'.users[m] = tx.users[m]
       /\ tx'.profiles = tx.profiles
  BY <1>2, <1>5, <1>6, <1>10, WithUserGood
<1>12. KeysFree(tx)'
  <2> SUFFICES ASSUME NEW k \in DOMAIN prepared, prepared[k].existed,
                      NEW m \in DOMAIN tx'.users, tx'.users[m].id = prepared[k].id
               PROVE  m = k
    BY <1>1 DEF KeysFree
  <2>1. CASE m # n
    BY <1>2, <1>11, <2>1 DEF KeysFree
  <2>2. CASE m = n /\ prepared[n].existed
    BY <1>2, <1>3, <1>5, <1>11, <2>2 DEF KeyOf, PlanOK
  <2>3. CASE m = n /\ ~prepared[n].existed
    BY <1>3, <1>5, <1>11, <2>3 DEF KeyOf, PreparedIds
  <2> QED
    BY <2>1, <2>2, <2>3
<1>13. ASSUME NEW m \in DOMAIN prepared \ todo' PROVE Applied(m)'
  <2>1. CASE m = n
    BY <1>1, <1>5, <1>11, <2>1 DEF Applied, Remaining
  <2>2. CASE m # n
    BY <1>1, <1>2, <1>11, <1>13, <2>2 DEF OpenOK, Applied, Remaining
  <2> QED
    BY <2>1, <2>2
<1>14. ASSUME NEW m \in DOMAIN db.users
       PROVE  /\ m \in DOMAIN tx'.users /\ tx'.users[m].id = db.users[m].id
              /\ m \notin DOMAIN prepared => tx'.users[m] = KeptProfiles(db.users[m], tx'.profiles)
  <2>1. CASE m = n
    BY <1>1, <1>2, <1>3, <1>5, <1>11, <2>1 DEF OpenOK, KeyOf, Collides
  <2>2. CASE m # n
    BY <1>2, <1>11, <2>2 DEF OpenOK
  <2> QED
    BY <2>1, <2>2
<1>15. OpenOK'
  BY <1>1, <1>2, <1>4, <1>11, <1>12, <1>13, <1>14 DEF OpenOK
<1>16. BundleOK' /\ PlanOK'
  BY <1>1, <1>2 DEF BundleOK, PlanOK, KeysFree, Chosen
<1> QED
  BY <1>1, <1>2, <1>15, <1>16 DEF Inv

LEMMA NextKeepsInv == Inv /\ [Next]_vars => Inv'
<1> SUFFICES ASSUME Inv, [Next]_vars PROVE Inv'
  OBVIOUS
<1>1. ASSUME NEW n \in Name, DeleteUser(n) PROVE Inv'
  BY <1>1, DeleteUserKeepsInv
<1>2. ASSUME NEW n \in Name, ApplyUser(n) PROVE Inv'
  BY <1>2, ApplyUserKeepsInv
<1>3. ASSUME NEW n \in Name, ApplyUserFails(n) PROVE Inv'
  BY <1>3, EndedKeepsInv DEF ApplyUserFails, Inv
<1>4. ASSUME NEW g \in Group, DeleteGroup(g) PROVE Inv'
  BY <1>4, DeleteGroupKeepsInv
<1>5. CASE Prepare
  BY <1>5, PrepareKeepsInv
<1>6. CASE Refuse
  BY <1>6 DEF Refuse, Inv, BundleOK, PlanOK, KeysFree, Chosen, InTransaction
<1>7. CASE ApplyDomains \/ InitializeDomains
  <2>1. db.profiles \subseteq Profile /\ incoming \subseteq Profile
    BY DatabaseIs DEF Inv, Good, BundleOK
  <2>2. PICK names \in SUBSET Profile :
            \E result \in {"domains", "initialized"} :
                DomainsDone(result, names) /\ (~ImportProfiles => names = db.profiles)
    BY <1>7, <2>1 DEF ApplyDomains, InitializeDomains
  <2> QED
    BY <2>2, DomainsKeepInv
<1>8. CASE DomainsFail
  BY <1>8, EndedKeepsInv DEF DomainsFail, Inv
<1>9. CASE Commit
  BY <1>9, EndedKeepsInv DEF Commit, Inv, InTransaction, OpenOK
<1>10. CASE UNCHANGED vars
  BY <1>10 DEF vars, Inv, BundleOK, PlanOK, KeysFree, Chosen, InTransaction, OpenOK, Applied, Remaining
<1>11. ASSUME NEW n \in Name, CreateUser(n) PROVE Inv'
  BY <1>11, CreateUserKeepsInv
<1>12. ASSUME NEW p \in Profile, DeleteProfile(p) PROVE Inv'
  BY <1>12, DeleteProfileKeepsInv
<1> QED
  BY <1>1, <1>2, <1>3, <1>4, <1>5, <1>6, <1>7, <1>8, <1>9, <1>10, <1>11, <1>12 DEF Next

LEMMA Invariant == Spec => []Inv
BY InitInv, NextKeepsInv, PTL DEF Spec

-----------------------------------------------------------------------------
(* What follows. *)

\* Every committed database has one account per key, and accounts that refer to
\* what exists, whatever the administrator deletes in the middle of an import
\* (prepare_user_import, apply_user_import).
THEOREM AccountsAlwaysResolve == Spec => []AccountsResolve
<1>1. Inv => AccountsResolve
  <2> SUFFICES ASSUME Inv PROVE TypeOK /\ Consistent(db)
    BY DEF AccountsResolve
  <2>1. WellTyped(db) /\ (InTransaction => WellTyped(tx))
    BY GoodTyped DEF Inv, OpenOK
  <2>2. tx = NoTx <=> ~InTransaction
    BY OpenIsNotNoTx DEF Inv, OpenOK
  <2>3. todo \subseteq DOMAIN prepared /\ DOMAIN prepared \subseteq DOMAIN snapshot
    BY DEF Inv, OpenOK, PlanOK, Chosen
  <2> QED
    BY <2>1, <2>2, <2>3 DEF TypeOK, Inv, Good
<1> QED
  BY <1>1, Invariant, PTL

\* The import ends in one of two ways.
LEMMA ImportEnds ==
    ASSUME Inv, Next, pc # "idle", pc' = "idle"
    PROVE  \/ Commit /\ outcome' = "applied" /\ db' = tx /\ OpenOK /\ todo = {}
           \/ outcome' # "applied" /\ db' = db
<1>1. DomainsFail \/ Commit \/ \E n \in Name : ApplyUserFails(n)
  BY DEF Next, CreateUser, DeleteUser, DeleteGroup, DeleteProfile, Edit, ApplyUser, Prepare,
         Refuse, ApplyDomains, InitializeDomains, DomainsDone
<1> QED
  BY <1>1 DEF DomainsFail, Commit, ApplyUserFails, Ended, Inv

LEMMA OnlyCommitApplies ==
    ASSUME Next, outcome' = "applied", outcome # "applied" PROVE Commit
BY DEF Next, CreateUser, DeleteUser, DeleteGroup, DeleteProfile, Edit, ApplyUser,
       ApplyUserFails, Prepare, Refuse, ApplyDomains, InitializeDomains, DomainsDone, DomainsFail, Ended

\* An import commits all selected accounts with all they refer to, or nothing
\* (the transaction of apply_latest).
THEOREM ImportIsAllOrNothing == Spec => AllOrNothing
<1> DEFINE A == pc # "idle" /\ pc' = "idle" =>
                    IF outcome' = "applied"
                    THEN \A n \in DOMAIN prepared :
                            /\ n \in DOMAIN db'.users
                            /\ db'.users[n].profiles = Remaining(n, "profiles")
                            /\ db'.users[n].groups = Remaining(n, "groups")
                            /\ db'.users[n].active = prepared[n].values.active
                    ELSE db' = db
<1>1. Inv /\ [Next]_vars => [A]_vars
  BY ImportEnds DEF OpenOK, Applied
<1> QED
  BY <1>1, Invariant, PTL DEF Spec, AllOrNothing

\* An account that was here keeps its key, and no import deletes an account
\* (apply_user_import saves the instance that was found).
THEOREM KeysStay == Spec => LocalKeysKept
<1> DEFINE A == outcome' = "applied" /\ outcome # "applied" =>
                    \A n \in DOMAIN db.users :
                        n \in DOMAIN db'.users /\ db'.users[n].id = db.users[n].id
<1>1. Inv /\ [Next]_vars => [A]_vars
  BY OnlyCommitApplies DEF Commit, Inv, InTransaction, OpenOK
<1> QED
  BY <1>1, Invariant, PTL DEF Spec, LocalKeysKept

\* An account that the rules exclude, or that only this node has, loses at most
\* its memberships of profiles that the import deletes (domains.py, apply_domains).
THEOREM ExcludedLoseOnlyProfiles == Spec => OthersLoseOnlyProfiles
<1> DEFINE A == outcome' = "applied" /\ outcome # "applied" =>
                    \A n \in DOMAIN db.users \ (Selected \cap DOMAIN snapshot) :
                        db'.users[n] = KeptProfiles(db.users[n], db'.profiles)
<1>1. Inv /\ [Next]_vars => [A]_vars
  BY OnlyCommitApplies DEF Commit, Inv, InTransaction, OpenOK, PlanOK, Chosen
<1> QED
  BY <1>1, Invariant, PTL DEF Spec, OthersLoseOnlyProfiles

\* Where the channel profiles stay local, such an account does not change at all.
THEOREM ExcludedStay ==
    ASSUME ~ImportProfiles
    PROVE  Spec => OthersUnchanged
<1> DEFINE A == outcome' = "applied" /\ outcome # "applied" =>
                    \A n \in DOMAIN db.users \ (Selected \cap DOMAIN snapshot) :
                        db'.users[n] = db.users[n]
<1>1. ASSUME Inv, NEW n \in DOMAIN db.users
      PROVE  KeptProfiles(db.users[n], db.profiles) = db.users[n]
  <2>1. db.users[n] \in Account /\ db.users[n].profiles \subseteq db.profiles
    BY <1>1, GoodTyped DEF Inv, WellTyped, Good, Consistent
  <2> QED
    BY <2>1 DEF KeptProfiles, Account
<1>2. Inv /\ [Next]_vars => [A]_vars
  BY <1>1, OnlyCommitApplies DEF Commit, Inv, InTransaction, OpenOK, PlanOK, Chosen
<1> QED
  BY <1>2, Invariant, PTL DEF Spec, OthersUnchanged

=============================================================================
