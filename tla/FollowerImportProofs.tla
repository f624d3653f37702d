------------------------- MODULE FollowerImportProofs -------------------------
(***************************************************************************)
(* FollowerImport for any tables, policies and numbers of faults and edits.*)
(* The argument is about the plan: between the plan and the transaction it *)
(* stays what the planner computed from the table, the bundle and the      *)
(* protected records of that moment, and none of its rows clashes. So a    *)
(* statement can only fail, and a protected row only change, when the      *)
(* table has changed meanwhile, and protected rows not even then.          *)
(*                                                                         *)
(* Two loops of the code are recursive functions here, the one over Main's *)
(* rows in reconcile_surrogate_ids and the remaps of initialize_domains.   *)
(* What they do is proved by the least pass that would break it: the sets  *)
(* 1..n are ordered by inclusion as the numbers n are, and inclusion of    *)
(* finite sets is well-founded (FiniteSetTheorems).                        *)
(***************************************************************************)
EXTENDS FollowerImport, FiniteSetTheorems, SequenceTheorems, TLAPS

-----------------------------------------------------------------------------
(* Numbers. *)

\* A set of numbers that is not empty has a least one. (The sets 1..n are
\* ordered as the numbers n are, and the library knows that inclusion of
\* finite sets is well-founded.)
LEMMA LeastNumber ==
    ASSUME NEW S \in SUBSET Nat, S # {}
    PROVE  \E n \in S : \A m \in S : n <= m
<1> DEFINE below == StrictSubsetOrdering(Nat)
           T == {1..n : n \in S}
<1>1. IsWellFoundedOn(below, FiniteSubsetsOf(Nat))
  BY FS_StrictSubsetOrderingWellFounded
<1>2. T \subseteq FiniteSubsetsOf(Nat) /\ T # {}
  <2>1. \A n \in S : 1..n \in SUBSET Nat /\ IsFiniteSet(1..n)
    BY FS_Interval
  <2> QED
    BY <2>1 DEF FiniteSubsetsOf
<1> HIDE DEF below
<1>3. PICK t \in T : \A y \in T : <<y, t>> \notin below
  BY <1>1, <1>2, WFMin
<1>4. PICK n \in S : t = 1..n
  BY <1>3
<1>5. ASSUME NEW m \in S, m < n PROVE FALSE
  <2>1. 1..m \in SUBSET Nat /\ 1..n \in SUBSET Nat /\ 1..m \subseteq 1..n
    BY <1>5
  <2>2. n \in 1..n /\ n \notin 1..m
    BY <1>5
  <2>3. <<1..m, 1..n>> \in below
    BY <2>1, <2>2 DEF below, StrictSubsetOrdering
  <2> QED
    BY <1>3, <1>4, <2>3
<1> QED
  BY <1>5

\* The greatest element of a finite set of numbers is one, and none is greater.
LEMMA MaxIsGreatest ==
    ASSUME NEW S \in SUBSET Nat, IsFiniteSet(S), S # {}
    PROVE  Max(S) \in S /\ \A x \in S : x <= Max(S)
<1> DEFINE Greatest(U, x) == x \in U /\ \A y \in U : y <= x
           Bad == {U \in FiniteSubsetsOf(Nat) : U # {} /\ ~\E x : Greatest(U, x)}
           below == StrictSubsetOrdering(Nat)
<1>1. ASSUME Bad # {} PROVE FALSE
  <2>1. PICK U \in Bad : \A W \in Bad : <<W, U>> \notin below
    <3>1. Bad \subseteq FiniteSubsetsOf(Nat) /\ IsWellFoundedOn(below, FiniteSubsetsOf(Nat))
      BY FS_StrictSubsetOrderingWellFounded
    <3> HIDE DEF Bad, below
    <3> QED
      BY <1>1, <3>1, WFMin
  <2>2. U \in SUBSET Nat /\ IsFiniteSet(U) /\ U # {}
    BY <2>1 DEF FiniteSubsetsOf
  <2>3. PICK u \in U : TRUE
    BY <2>2
  <2> DEFINE W == U \ {u}
  <2>4. W \in SUBSET Nat /\ W \in FiniteSubsetsOf(Nat) /\ W \subseteq U /\ W # U
    BY <2>2, <2>3, FS_RemoveElement DEF FiniteSubsetsOf
  <2>5. <<W, U>> \in below
    BY <2>2, <2>4 DEF StrictSubsetOrdering
  <2>6. W = {} \/ \E x : Greatest(W, x)
    BY <2>1, <2>4, <2>5
  <2>7. \E x : Greatest(U, x)
    <3>1. CASE W = {}
      BY <2>2, <2>3, <3>1
    <3>2. ASSUME NEW x, Greatest(W, x) PROVE \E z : Greatest(U, z)
      <4>1. x <= u \/ u <= x
        BY <2>2, <2>3, <3>2
      <4>2. x <= u => Greatest(U, u)
        BY <2>2, <2>3, <3>2
      <4>3. u <= x => Greatest(U, x)
        BY <2>2, <2>3, <3>2
      <4> QED
        BY <4>1, <4>2, <4>3
    <3> QED
      BY <2>6, <3>1, <3>2
  <2> QED
    BY <2>1, <2>7
<1>2. S \in FiniteSubsetsOf(Nat)
  BY DEF FiniteSubsetsOf
<1>3. PICK x : Greatest(S, x)
  BY <1>1, <1>2
<1>4. \E z \in S : \A y \in S : z >= y
  BY <1>3
<1> QED
  BY <1>4 DEF Max

-----------------------------------------------------------------------------
(* Rows and tables. *)

IsRow(r) == r = [f \in RowFields |-> r[f]] /\ r.active \in BOOLEAN

LEMMA RowFieldsAre ==
    /\ "key" \in RowFields /\ "uniq" \in RowFields /\ "active" \in RowFields
    /\ UniqueFields \subseteq RowFields
BY DEF RowFields, UniqueFields

LEMMA OverriddenIsRow ==
    ASSUME NEW r, IsRow(r), NEW i
    PROVE  IsRow(Overridden(r, i))
<1>1. CASE i \notin DOMAIN Overrides
  BY <1>1 DEF Overridden
<1>2. CASE i \in DOMAIN Overrides
  <2> DEFINE o == Overrides[i]
  <2>1. DOMAIN o \subseteq RowFields /\ ("active" \in DOMAIN o => o.active \in BOOLEAN)
    BY <1>2, TableAssumption
  <2>2. DOMAIN r = RowFields /\ r["active"] \in BOOLEAN
    BY DEF IsRow
  <2>3. Overridden(r, i) = [f \in RowFields |-> IF f \in DOMAIN o THEN o[f] ELSE r[f]]
    BY <1>2, <2>2 DEF Overridden
  <2> HIDE DEF o
  <2> QED
    BY <2>1, <2>2, <2>3, RowFieldsAre DEF IsRow
<1> QED
  BY <1>1, <1>2

\* What _prepare_desired_records makes of Main's rows, row by row.
PreparedAs(want, t, main, protected) ==
    /\ DOMAIN want = DOMAIN main \cup (protected \cap DOMAIN t)
    /\ \A i \in protected \cap DOMAIN t : want[i] = t[i]
    /\ \A i \in DOMAIN main \ (protected \cap DOMAIN t) :
        /\ IsRow(want[i])
        /\ \A f \in RowFields \ {"active"} : want[i][f] = Overridden(main[i], i)[f]
        /\ want[i].active = (Overridden(main[i], i).active
                               /\ (Policy = "disabled" => i \in DOMAIN t))

LEMMA PreparedRows ==
    ASSUME NEW t, NEW main, NEW protected, \A i \in DOMAIN main : IsRow(main[i])
    PROVE  PreparedAs(Prepare(t, main, protected), t, main, protected)
<1> DEFINE desired == Prepare(t, main, protected)
           mine == protected \cap DOMAIN t
<1>1. DOMAIN desired = DOMAIN main \cup mine /\ \A i \in mine : desired[i] = t[i]
  BY DEF Prepare
<1>2. ASSUME NEW i \in DOMAIN main \ mine
      PROVE  /\ IsRow(desired[i])
             /\ \A f \in RowFields \ {"active"} : desired[i][f] = Overridden(main[i], i)[f]
             /\ desired[i].active = (Overridden(main[i], i).active
                                       /\ (Policy = "disabled" => i \in DOMAIN t))
  <2> DEFINE row == Overridden(main[i], i)
  <2>1. IsRow(row)
    BY <1>2, OverriddenIsRow
  <2>2. desired[i] = IF Policy = "disabled" /\ i \notin DOMAIN t
                     THEN [row EXCEPT !.active = FALSE] ELSE row
    BY <1>2 DEF Prepare, New
  <2> HIDE DEF row, desired
  <2>3. CASE Policy = "disabled" /\ i \notin DOMAIN t
    <3>1. desired[i] = [f \in RowFields |-> IF f = "active" THEN FALSE ELSE row[f]]
      BY <2>1, <2>2, <2>3 DEF IsRow
    <3> QED
      BY <2>3, <3>1, RowFieldsAre DEF IsRow, row
  <2>4. CASE ~(Policy = "disabled" /\ i \notin DOMAIN t)
    <3>1. desired[i] = row /\ row.active \in BOOLEAN
      BY <2>1, <2>2, <2>4 DEF IsRow
    <3> QED
      BY <2>1, <2>4, <3>1 DEF row
  <2> QED
    BY <2>3, <2>4
<1> QED
  BY <1>1, <1>2 DEF PreparedAs

\* Two rows of a table never share a unique value that is not null.
LEMMA MixedUnique ==
    ASSUME NEW old, NEW desired, NEW t, KeysUnique(old), KeysUnique(desired),
           \A i \in DOMAIN t :
              \/ /\ i \in DOMAIN desired /\ ~Taken(old, desired, i)
                 /\ \A f \in UniqueFields : t[i][f] = desired[i][f]
              \/ /\ i \in DOMAIN old
                 /\ \A f \in UniqueFields : t[i][f] = old[i][f]
    PROVE  KeysUnique(t)
<1> SUFFICES ASSUME NEW f \in UniqueFields, NEW i \in DOMAIN t, NEW j \in DOMAIN t,
                    i # j, t[i][f] # NoValue, t[i][f] = t[j][f]
             PROVE  FALSE
  BY DEF KeysUnique
<1> QED
  BY DEF KeysUnique, Taken

-----------------------------------------------------------------------------
(* The rows of a relation, under the ids they have here. *)

\* A table of a database: finitely many rows under positive numbers.
IsTable(t) == IsFiniteSet(DOMAIN t) /\ DOMAIN t \subseteq Nat \ {0}

\* The loop over Main's rows, after those up to n: the ids given and all others
\* are below the next one, and what is placed are rows of Main.
PlacedUpTo(acc, current, incoming, n) ==
    /\ acc.next \in Nat
    /\ DOMAIN current \cup DOMAIN incoming \cup DOMAIN acc.rows \subseteq 1..(acc.next - 1)
    /\ \A j \in DOMAIN acc.rows : \E i \in DOMAIN incoming : i <= n /\ acc.rows[j] = incoming[i]

\* Each is placed, once, and under the local id if there is one.
MatchedUpTo(acc, current, incoming, n) ==
    /\ \A i \in DOMAIN incoming : i <= n => \E j \in DOMAIN acc.rows : acc.rows[j] = incoming[i]
    /\ \A c \in DOMAIN current, j \in DOMAIN acc.rows :
          current[c].key = acc.rows[j].key <=> c = j
    /\ \A j, k \in DOMAIN acc.rows : acc.rows[j].key = acc.rows[k].key => j = k

\* What one pass of the loop gives row n: the id it is known by here, or one
\* that is not in use.
TakesId(taken, current, incoming, acc, n, id) ==
    LET known == {j \in DOMAIN current : current[j].key = incoming[n].key}
    IN  /\ known # {} => id \in known
        /\ known = {} => id \notin DOMAIN current \cup DOMAIN acc.rows
        /\ taken.next \in Nat /\ taken.next >= acc.next /\ id < taken.next /\ id > 0
        /\ taken.rows = [j \in DOMAIN acc.rows \cup {id} |->
                           IF j \in DOMAIN acc.rows THEN acc.rows[j] ELSE incoming[n]]

\* The next id above everything seen is free at once.
LEMMA TakenId ==
    ASSUME NEW current, NEW incoming, NEW acc, NEW n \in DOMAIN incoming,
           PlacedUpTo(acc, current, incoming, n - 1)
    PROVE  \E id \in Nat :
              TakesId(TakeId(current, incoming, acc, n), current, incoming, acc, n, id)
<1> DEFINE known == {j \in DOMAIN current : current[j].key = incoming[n].key}
           used  == DOMAIN current \cup DOMAIN acc.rows
           above == CHOOSE l \in acc.next..(acc.next + Cardinality(used)) :
                      l \notin used /\ \A m1 \in acc.next..(l - 1) : m1 \in used
           moved == known = {} /\ n \in used
           id    == IF known # {} THEN CHOOSE j \in known : TRUE
                    ELSE IF moved THEN above ELSE n
           rows  == [j \in DOMAIN acc.rows \cup {id} |->
                       IF j \in DOMAIN acc.rows THEN acc.rows[j] ELSE incoming[n]]
<1>1. TakeId(current, incoming, acc, n) =
        [next |-> IF moved THEN above + 1 ELSE acc.next, rows |-> rows]
  BY DEF TakeId
<1>2. used \subseteq 1..(acc.next - 1) /\ acc.next \in Nat /\ n \in 1..(acc.next - 1)
  BY DEF PlacedUpTo
<1>3. Cardinality(used) \in Nat
  <2>1. IsFiniteSet(1..(acc.next - 1))
    BY <1>2, FS_Interval
  <2>2. IsFiniteSet(used)
    BY <1>2, <2>1, FS_Subset
  <2> QED
    BY <2>2, FS_CardinalityType
<1> HIDE DEF used
<1>4. above = acc.next
  <2>1. acc.next \in acc.next..(acc.next + Cardinality(used))
    BY <1>2, <1>3
  <2>2. acc.next \notin used /\ \A l \in acc.next..(acc.next - 1) : l \in used
    BY <1>2
  <2>3. above \in acc.next..(acc.next + Cardinality(used))
        /\ \A l \in acc.next..(above - 1) : l \in used
    BY <2>1, <2>2
  <2> HIDE DEF above
  <2>4. above > acc.next => acc.next \in acc.next..(above - 1)
    BY <1>2, <1>3, <2>3
  <2> QED
    BY <1>2, <1>3, <2>2, <2>3, <2>4
<1>5. /\ known # {} => id \in known
      /\ known = {} => (id = n /\ n \notin used) \/ (id = acc.next /\ moved)
  <2>1. known # {} => id = CHOOSE j \in known : TRUE
    OBVIOUS
  <2>2. known = {} => id = IF moved THEN above ELSE n
    OBVIOUS
  <2>3. known = {} /\ ~moved => n \notin used
    OBVIOUS
  <2> HIDE DEF id, known, moved, above
  <2> QED
    BY <1>4, <2>1, <2>2, <2>3
<1>6. known \subseteq 1..(acc.next - 1)
  BY DEF PlacedUpTo
<1>7. known = {} => id \notin used
  BY <1>2, <1>5
<1> HIDE DEF id, above, known
<1>8. id \in Nat /\ id > 0 /\ id < (IF moved THEN above + 1 ELSE acc.next)
  <2>1. CASE known # {}
    <3>1. id \in 1..(acc.next - 1)
      BY <1>5, <1>6, <2>1
    <3> QED
      BY <1>2, <1>4, <3>1
  <2>2. CASE known = {}
    BY <1>2, <1>4, <1>5, <2>2
  <2> QED
    BY <2>1, <2>2
<1>9. (IF moved THEN above + 1 ELSE acc.next) \in Nat
      /\ (IF moved THEN above + 1 ELSE acc.next) >= acc.next
  BY <1>2, <1>4
<1> HIDE DEF moved
<1>10. /\ TakeId(current, incoming, acc, n).next = (IF moved THEN above + 1 ELSE acc.next)
       /\ TakeId(current, incoming, acc, n).rows = rows
  BY <1>1
<1> QED
  BY <1>5, <1>7, <1>8, <1>9, <1>10 DEF known, used, TakesId

LEMMA TakeIdPlaces ==
    ASSUME NEW current, NEW incoming, NEW acc, NEW n \in DOMAIN incoming, n \in Nat \ {0},
           PlacedUpTo(acc, current, incoming, n - 1)
    PROVE  PlacedUpTo(TakeId(current, incoming, acc, n), current, incoming, n)
<1> DEFINE taken == TakeId(current, incoming, acc, n)
<1>1. PICK id \in Nat :
        /\ taken.next \in Nat /\ taken.next >= acc.next /\ id < taken.next /\ id > 0
        /\ taken.rows = [j \in DOMAIN acc.rows \cup {id} |->
                           IF j \in DOMAIN acc.rows THEN acc.rows[j] ELSE incoming[n]]
  BY TakenId DEF TakesId
<1> HIDE DEF taken
<1>2. acc.next \in Nat /\ 1..(acc.next - 1) \subseteq 1..(taken.next - 1)
      /\ id \in 1..(taken.next - 1)
  BY <1>1 DEF PlacedUpTo
<1>3. DOMAIN current \cup DOMAIN incoming \cup DOMAIN taken.rows \subseteq 1..(taken.next - 1)
  BY <1>1, <1>2 DEF PlacedUpTo
<1>4. ASSUME NEW j \in DOMAIN taken.rows
      PROVE  \E i \in DOMAIN incoming : i <= n /\ taken.rows[j] = incoming[i]
  <2>1. CASE j \in DOMAIN acc.rows
    <3>1. taken.rows[j] = acc.rows[j]
      BY <1>1, <2>1
    <3>2. PICK i \in DOMAIN incoming : i <= n - 1 /\ acc.rows[j] = incoming[i]
      BY <2>1 DEF PlacedUpTo
    <3>3. i \in Nat /\ i <= n
      BY <1>2, <3>2 DEF PlacedUpTo
    <3> QED
      BY <3>1, <3>2, <3>3
  <2>2. CASE j \notin DOMAIN acc.rows
    BY <1>1, <2>2
  <2> QED
    BY <2>1, <2>2
<1> QED
  BY <1>1, <1>3, <1>4 DEF PlacedUpTo, taken

LEMMA TakeIdMatches ==
    ASSUME NEW current, NEW incoming, NEW acc, NEW n \in DOMAIN incoming, n \in Nat \ {0},
           PlacedUpTo(acc, current, incoming, n - 1),
           MatchedUpTo(acc, current, incoming, n - 1),
           KeysUnique(current), KeysUnique(incoming), HasIdentities(incoming)
    PROVE  MatchedUpTo(TakeId(current, incoming, acc, n), current, incoming, n)
<1> DEFINE taken == TakeId(current, incoming, acc, n)
           known == {j \in DOMAIN current : current[j].key = incoming[n].key}
<1>0. PICK id \in Nat : TakesId(taken, current, incoming, acc, n, id)
  BY TakenId
<1>1. /\ known # {} => id \in known
      /\ known = {} => id \notin DOMAIN current \cup DOMAIN acc.rows
      /\ taken.rows = [j \in DOMAIN acc.rows \cup {id} |->
                         IF j \in DOMAIN acc.rows THEN acc.rows[j] ELSE incoming[n]]
  BY <1>0 DEF TakesId
<1> HIDE DEF taken
<1>2. incoming[n].key # NoValue
      /\ \A i \in DOMAIN incoming : i # n => incoming[i].key # incoming[n].key
  BY DEF KeysUnique, HasIdentities, UniqueFields
<1>3. \A c, d \in DOMAIN current : current[c].key = incoming[n].key
                                   /\ current[d].key = incoming[n].key => c = d
  BY <1>2 DEF KeysUnique, UniqueFields
<1>4. \A j \in DOMAIN acc.rows : acc.rows[j].key # incoming[n].key
  <2> TAKE j \in DOMAIN acc.rows
  <2>1. PICK i \in DOMAIN incoming : i <= n - 1 /\ acc.rows[j] = incoming[i]
    BY DEF PlacedUpTo
  <2>2. i \in Nat /\ i # n
    BY <2>1 DEF PlacedUpTo
  <2> QED
    BY <1>2, <2>1, <2>2
<1>5. id \notin DOMAIN acc.rows
  BY <1>1, <1>4 DEF MatchedUpTo
<1>6. /\ DOMAIN taken.rows = DOMAIN acc.rows \cup {id}
      /\ taken.rows[id] = incoming[n]
      /\ \A j \in DOMAIN acc.rows : taken.rows[j] = acc.rows[j]
  BY <1>1, <1>5
<1>7. ASSUME NEW i \in DOMAIN incoming, i <= n
      PROVE  \E j \in DOMAIN taken.rows : taken.rows[j] = incoming[i]
  <2>1. i \in Nat
    BY DEF PlacedUpTo
  <2>2. i = n \/ i <= n - 1
    BY <1>7, <2>1
  <2> QED
    BY <1>6, <2>2 DEF MatchedUpTo
<1>8. ASSUME NEW c \in DOMAIN current, NEW j \in DOMAIN taken.rows
      PROVE  current[c].key = taken.rows[j].key <=> c = j
  <2>1. CASE j \in DOMAIN acc.rows
    BY <1>6, <2>1 DEF MatchedUpTo
  <2>2. CASE j = id
    BY <1>1, <1>3, <1>6, <2>2
  <2> QED
    BY <1>6, <2>1, <2>2
<1>9. ASSUME NEW j \in DOMAIN taken.rows, NEW k \in DOMAIN taken.rows,
             taken.rows[j].key = taken.rows[k].key
      PROVE  j = k
  BY <1>4, <1>6, <1>9 DEF MatchedUpTo
<1> QED
  BY <1>7, <1>8, <1>9 DEF MatchedUpTo, taken

\* The results of the passes of the loop.
Passes(f, current, incoming, start, top) ==
    f = [n \in 0..top |-> IF n = 0 THEN start
                          ELSE IF n \in DOMAIN incoming
                               THEN TakeId(current, incoming, f[n - 1], n)
                               ELSE f[n - 1]]

LEMMA PassesExist ==
    ASSUME NEW current, NEW incoming, NEW start, NEW top \in Nat
    PROVE  \E f : Passes(f, current, incoming, start, top)
<1> DEFINE Then(acc, n) == IF n \in DOMAIN incoming THEN TakeId(current, incoming, acc, n) ELSE acc
           By(f, m) == f = [n \in 0..m |-> IF n = 0 THEN start ELSE Then(f[n - 1], n)]
           Bad == {m \in Nat : ~\E f : By(f, m)}
<1>1. ASSUME Bad # {} PROVE FALSE
  <2>1. PICK m \in Bad : \A l \in Bad : m <= l
    <3>1. Bad \in SUBSET Nat
      OBVIOUS
    <3> HIDE DEF Bad
    <3> QED
      BY <1>1, <3>1, LeastNumber
  <2> HIDE DEF Then
  <2>2. CASE m = 0
    <3>1. By([n \in 0..0 |-> start], 0)
      OBVIOUS
    <3> QED
      BY <2>1, <2>2, <3>1
  <2>3. CASE m # 0
    <3>1. m - 1 \in Nat /\ m - 1 \notin Bad
      BY <2>1, <2>3
    <3>2. PICK f : By(f, m - 1)
      BY <3>1
    <3> DEFINE g == [n \in 0..m |-> IF n = m THEN Then(f[m - 1], m) ELSE f[n]]
    <3>3. \A n \in 0..(m - 1) : f[n] = IF n = 0 THEN start ELSE Then(f[n - 1], n)
      BY <3>2
    <3>4. \A n \in 0..(m - 1) : g[n] = f[n]
      BY <3>1
    <3>5. g[m] = Then(f[m - 1], m)
      BY <3>1
    <3>6. DOMAIN g = 0..m /\ g = [n \in 0..m |-> g[n]]
      OBVIOUS
    <3> HIDE DEF g
    <3>7. \A n \in 0..m : g[n] = IF n = 0 THEN start ELSE Then(g[n - 1], n)
      <4> TAKE n \in 0..m
      <4>1. n - 1 \in 0..(m - 1) \/ n = 0
        BY <3>1
      <4>2. n \in 0..(m - 1) \/ n = m
        BY <3>1
      <4> QED
        BY <2>3, <3>1, <3>3, <3>4, <3>5, <4>1, <4>2
    <3>8. By(g, m)
      BY <3>6, <3>7
    <3> QED
      BY <2>1, <3>8
  <2> QED
    BY <2>2, <2>3
<1>2. \E f : By(f, top)
  BY <1>1
<1> QED
  BY <1>2 DEF Passes

\* The invariant of the loop, by the least pass that breaks it.
LEMMA ReconciledMatches ==
    ASSUME NEW current, NEW incoming, IsTable(current), IsTable(incoming)
    PROVE  LET desired == Reconciled(current, incoming) IN
           /\ IsTable(desired)
           /\ \A j \in DOMAIN desired : \E i \in DOMAIN incoming : desired[j] = incoming[i]
           /\ KeysUnique(current) /\ KeysUnique(incoming) /\ HasIdentities(incoming) =>
                MatchByIdentity(current, incoming, desired)
<1> DEFINE ids == DOMAIN current \cup DOMAIN incoming \cup {0}
           top == Max(ids)
           start == [next |-> top + 1, rows |-> <<>>]
           upTo[n \in 0..top] ==
              IF n = 0 THEN start
              ELSE IF n \in DOMAIN incoming THEN TakeId(current, incoming, upTo[n - 1], n)
              ELSE upTo[n - 1]
           unique == KeysUnique(current) /\ KeysUnique(incoming) /\ HasIdentities(incoming)
           desired == Reconciled(current, incoming)
<1>1. top \in Nat /\ DOMAIN current \cup DOMAIN incoming \subseteq 1..top
  <2>1. ids \in SUBSET Nat /\ IsFiniteSet(ids) /\ ids # {}
    <3>1. IsFiniteSet(DOMAIN current \cup DOMAIN incoming)
      BY FS_Union DEF IsTable
    <3>2. IsFiniteSet({0})
      BY FS_Singleton
    <3>3. IsFiniteSet((DOMAIN current \cup DOMAIN incoming) \cup {0})
      BY <3>1, <3>2, FS_Union
    <3> QED
      BY <3>3 DEF IsTable
  <2>2. top \in ids /\ \A x \in ids : x <= top
    <3> HIDE DEF ids
    <3> QED
      BY <2>1, MaxIsGreatest
  <2> HIDE DEF top
  <2> QED
    BY <2>1, <2>2 DEF IsTable
<1>2. desired = upTo[top].rows
  BY DEF Reconciled
<1> HIDE DEF top, desired
<1>3. upTo = [n \in 0..top |->
                IF n = 0 THEN start
                ELSE IF n \in DOMAIN incoming THEN TakeId(current, incoming, upTo[n - 1], n)
                ELSE upTo[n - 1]]
  <2> HIDE DEF start
  <2>1. \E f : Passes(f, current, incoming, start, top)
    BY <1>1, PassesExist
  <2> QED
    BY <2>1 DEF Passes
<1> HIDE DEF upTo
<1> DEFINE Holds(n) == /\ PlacedUpTo(upTo[n], current, incoming, n)
                       /\ unique => MatchedUpTo(upTo[n], current, incoming, n)
<1>4. Holds(0)
  <2>1. upTo[0] = start
    BY <1>1, <1>3
  <2>2. start.next = top + 1 /\ DOMAIN start.rows = {}
    OBVIOUS
  <2>3. PlacedUpTo(start, current, incoming, 0)
    BY <1>1, <2>2 DEF PlacedUpTo
  <2>4. MatchedUpTo(start, current, incoming, 0)
    BY <1>1, <2>2 DEF MatchedUpTo
  <2> QED
    BY <2>1, <2>3, <2>4
<1>5. ASSUME NEW n \in 1..top, Holds(n - 1) PROVE Holds(n)
  <2>1. n \in 0..top /\ n \in Nat \ {0} /\ n # 0
    BY <1>1
  <2>2. CASE n \in DOMAIN incoming
    <3>1. upTo[n] = TakeId(current, incoming, upTo[n - 1], n)
      BY <1>3, <2>1, <2>2
    <3> QED
      BY <1>5, <2>1, <2>2, <3>1, TakeIdPlaces, TakeIdMatches
  <2>3. CASE n \notin DOMAIN incoming
    <3>1. upTo[n] = upTo[n - 1]
      BY <1>3, <2>1, <2>3
    <3>2. \A i \in DOMAIN incoming : i \in Nat /\ (i <= n <=> i <= n - 1)
      BY <1>1, <2>1, <2>3
    <3> QED
      BY <1>5, <3>1, <3>2 DEF PlacedUpTo, MatchedUpTo
  <2> QED
    BY <2>2, <2>3
<1>6. Holds(top)
  <2> DEFINE Bad == {n \in 0..top : ~Holds(n)}
  <2> SUFFICES ASSUME Bad # {} PROVE FALSE
    BY <1>1
  <2> HIDE DEF Holds
  <2>1. Bad \in SUBSET Nat
    BY <1>1
  <2>2. PICK n \in Bad : \A m \in Bad : n <= m
    <3> HIDE DEF Bad
    <3> QED
      BY <2>1, LeastNumber
  <2>3. n \in 1..top /\ n - 1 \in 0..top
    BY <1>1, <1>4, <2>2
  <2>4. Holds(n - 1)
    BY <2>2, <2>3
  <2> QED
    BY <1>5, <2>2, <2>3, <2>4
<1>7. /\ PlacedUpTo(upTo[top], current, incoming, top)
      /\ unique => MatchedUpTo(upTo[top], current, incoming, top)
  BY <1>6
<1> HIDE DEF unique, Holds
<1>8. IsTable(desired)
  <2>1. DOMAIN desired \subseteq 1..(upTo[top].next - 1) /\ upTo[top].next \in Nat
    BY <1>2, <1>7 DEF PlacedUpTo
  <2>2. IsFiniteSet(1..(upTo[top].next - 1))
    BY <2>1, FS_Interval
  <2> QED
    BY <2>1, <2>2, FS_Subset DEF IsTable
<1>9. \A j \in DOMAIN desired : \E i \in DOMAIN incoming : desired[j] = incoming[i]
  BY <1>2, <1>7 DEF PlacedUpTo
<1>10. ASSUME unique PROVE MatchByIdentity(current, incoming, desired)
  <2>1. \A i \in DOMAIN incoming : \E j \in DOMAIN desired : desired[j] = incoming[i]
    BY <1>1, <1>2, <1>7, <1>10 DEF MatchedUpTo
  <2>2. \A i \in DOMAIN current, j \in DOMAIN desired :
          current[i].key = desired[j].key <=> i = j
    BY <1>2, <1>7, <1>10 DEF MatchedUpTo
  <2>3. KeysUnique(desired)
    <3>1. \A j, k \in DOMAIN desired : desired[j].key = desired[k].key => j = k
      BY <1>2, <1>7, <1>10 DEF MatchedUpTo
    <3>2. KeysUnique(incoming)
      BY <1>10 DEF unique
    <3> QED
      BY <1>9, <3>1, <3>2 DEF KeysUnique
  <2> QED
    BY <1>9, <2>1, <2>2, <2>3 DEF MatchByIdentity
<1> QED
  BY <1>8, <1>9, <1>10 DEF unique, desired
-----------------------------------------------------------------------------
(* The invariant. *)

\* A table of a database, with its unique columns.
GoodTable(t) ==
    /\ IsTable(t) /\ KeysUnique(t)
    /\ \A i \in DOMAIN t : IsRow(t[i])

BundleOK ==
    /\ bundle.seq \in 1..MaxBundles /\ applied \in 0..bundle.seq
    /\ GoodTable(bundle.rows)
    /\ bundle.rows = [i \in DOMAIN bundle.rows |-> bundle.rows[i]]

\* The plan is what the planner made of the table it read.
PlanOK ==
    /\ plan.kind \in {"apply", "initialize"}
    /\ plan.bundle.seq \in 1..bundle.seq
    /\ GoodTable(plan.bundle.rows) /\ GoodTable(plan.before) /\ GoodTable(plan.desired)
    /\ plan.bundle.rows = [i \in DOMAIN plan.bundle.rows |-> plan.bundle.rows[i]]
    /\ plan.create = Created(plan.before, plan.desired)
    /\ plan.update = Updated(plan.before, plan.desired)
    /\ plan.delete = Deleted(plan.before, plan.desired)
    /\ plan.preserved = Preserved(plan.before, plan.desired, config)
    /\ plan.kind = "initialize" \/ ~Surrogate =>
          plan.desired = Prepare(plan.before, plan.bundle.rows, config)
    /\ plan.kind = "apply" =>
          /\ plan.desired = Desired(plan.before, plan.bundle.rows, config)
          /\ Conflicts(plan.before, plan.bundle.rows, plan.desired) = {}
    /\ plan.kind = "initialize" =>
          ReplaceConflicts(plan.before, plan.bundle.rows, plan.desired, config) = {}

Inv ==
    /\ BundleOK /\ GoodTable(db)
    /\ pc \in {"idle", "planned", "committed", "remembered"}
    /\ pc = "idle" => plan = NoPlan
    /\ pc # "idle" => PlanOK
    /\ outcome \in {"none", "committed", "rolled_back"}
    /\ edits \in Nat /\ faults \in Nat
    /\ Policy = "none" => file = {} /\ config = {}

LEMMA MainsTables ==
    \A t \in Tables : GoodTable(t) /\ t = [i \in DOMAIN t |-> t[i]]
BY TableAssumption DEF GoodTable, IsTable, IsRow

\* What the planner asks for is a table of rows again.
LEMMA PreparedTable ==
    ASSUME NEW t, NEW main, NEW protected, GoodTable(t), GoodTable(main)
    PROVE  LET want == Prepare(t, main, protected)
           IN  IsTable(want) /\ \A i \in DOMAIN want : IsRow(want[i])
<1> DEFINE want == Prepare(t, main, protected)
<1>1. PreparedAs(want, t, main, protected)
  BY PreparedRows DEF GoodTable
<1> HIDE DEF want
<1>2. IsFiniteSet(DOMAIN main \cup DOMAIN t)
  BY FS_Union DEF GoodTable, IsTable
<1>3. DOMAIN want \subseteq DOMAIN main \cup DOMAIN t
  BY <1>1 DEF PreparedAs
<1>4. IsTable(want)
  BY <1>2, <1>3, FS_Subset DEF GoodTable, IsTable
<1>5. \A i \in DOMAIN want : IsRow(want[i])
  BY <1>1 DEF PreparedAs, GoodTable
<1> QED
  BY <1>4, <1>5 DEF want

LEMMA DesiredTable ==
    ASSUME NEW t, NEW main, NEW protected, GoodTable(t), GoodTable(main)
    PROVE  LET want == Desired(t, main, protected)
           IN  IsTable(want) /\ \A i \in DOMAIN want : IsRow(want[i])
<1> DEFINE prepared == Prepare(t, main, protected)
           want == Desired(t, main, protected)
<1>1. IsTable(prepared) /\ \A i \in DOMAIN prepared : IsRow(prepared[i])
  BY PreparedTable
<1>2. want = IF Surrogate THEN Reconciled(t, prepared) ELSE prepared
  BY DEF Desired
<1> HIDE DEF prepared, want
<1>3. CASE Surrogate
  <2>1. IsTable(t)
    BY DEF GoodTable
  <2>2. IsTable(want) /\ \A j \in DOMAIN want : \E i \in DOMAIN prepared : want[j] = prepared[i]
    BY <1>1, <1>2, <1>3, <2>1, ReconciledMatches
  <2> QED
    BY <1>1, <2>2 DEF want
<1> QED
  BY <1>1, <1>2, <1>3 DEF want

LEMMA InitInv == Init => Inv
<1> SUFFICES ASSUME Init PROVE Inv
  OBVIOUS
<1>1. BundleOK
  BY MainsTables, ImportAssumption DEF Init, BundleOK
<1>2. GoodTable(db)
  BY MainsTables DEF Init
<1>3. /\ pc = "idle" /\ plan = NoPlan /\ outcome = "none" /\ edits \in Nat /\ faults \in Nat
      /\ Policy = "none" => file = {} /\ config = {}
  BY DEF Init
<1> QED
  BY <1>1, <1>2, <1>3 DEF Inv

LEMMA PlanApplyOK == ASSUME Inv, PlanApply PROVE Inv'
<1> DEFINE desired == Desired(db, bundle.rows, config')
<1>1. /\ plan' = Planned("apply", desired, config')
      /\ Valid(db, bundle.rows, config') /\ Conflicts(db, bundle.rows, desired) = {}
      /\ config' = (IF Fresh THEN file ELSE config)
      /\ pc' = "planned" /\ UNCHANGED <<bundle, db, file, applied, outcome, edits, faults>>
  BY DEF PlanApply, Begin
<1>2. /\ plan'.kind = "apply" /\ plan'.bundle = bundle /\ plan'.before = db /\ plan'.desired = desired
      /\ plan'.create = Created(db, desired) /\ plan'.update = Updated(db, desired)
      /\ plan'.delete = Deleted(db, desired)
      /\ plan'.preserved = Preserved(db, desired, config')
  BY <1>1 DEF Planned
<1>3. KeysUnique(desired) /\ (~Surrogate => desired = Prepare(db, bundle.rows, config'))
  BY <1>1 DEF Valid, Desired
<1>4. GoodTable(desired)
  BY <1>3, DesiredTable DEF Inv, BundleOK, GoodTable
<1>5. desired = Desired(db, bundle.rows, config')
  OBVIOUS
<1> HIDE DEF desired
<1>6. PlanOK'
  <2>1. /\ plan'.bundle.seq \in 1..bundle'.seq /\ GoodTable(plan'.bundle.rows)
        /\ GoodTable(plan'.before)
        /\ plan'.bundle.rows = [i \in DOMAIN plan'.bundle.rows |-> plan'.bundle.rows[i]]
    BY <1>1, <1>2 DEF Inv, BundleOK
  <2> QED
    BY <1>1, <1>2, <1>3, <1>4, <1>5, <2>1 DEF PlanOK
<1> QED
  BY <1>1, <1>6 DEF Inv, BundleOK

LEMMA PlanInitializeOK == ASSUME Inv, PlanInitialize PROVE Inv'
<1> DEFINE desired == Prepare(db, bundle.rows, config')
<1>1. /\ plan' = Planned("initialize", desired, config')
      /\ KeysUnique(desired) /\ ReplaceConflicts(db, bundle.rows, desired, config') = {}
      /\ config' = (IF Fresh THEN file ELSE config)
      /\ pc' = "planned" /\ UNCHANGED <<bundle, db, file, applied, outcome, edits, faults>>
  BY DEF PlanInitialize, Begin
<1>2. /\ plan'.kind = "initialize" /\ plan'.bundle = bundle /\ plan'.before = db
      /\ plan'.desired = desired
      /\ plan'.create = Created(db, desired) /\ plan'.update = Updated(db, desired)
      /\ plan'.delete = Deleted(db, desired)
      /\ plan'.preserved = Preserved(db, desired, config')
  BY <1>1 DEF Planned
<1>3. desired = Prepare(db, bundle.rows, config')
  OBVIOUS
<1>4. GoodTable(desired)
  BY <1>1, PreparedTable DEF Inv, BundleOK, GoodTable
<1> HIDE DEF desired
<1>5. PlanOK'
  <2>1. /\ plan'.bundle.seq \in 1..bundle'.seq /\ GoodTable(plan'.bundle.rows)
        /\ GoodTable(plan'.before)
        /\ plan'.bundle.rows = [i \in DOMAIN plan'.bundle.rows |-> plan'.bundle.rows[i]]
    BY <1>1, <1>2 DEF Inv, BundleOK
  <2> QED
    BY <1>1, <1>2, <1>3, <1>4, <2>1 DEF PlanOK
<1> QED
  BY <1>1, <1>5 DEF Inv, BundleOK

\* What the transaction of apply_domains leaves, row by row.
LEMMA CommitApplyRows ==
    ASSUME CommitApply
    PROVE  /\ DOMAIN db' = (DOMAIN db \cup plan.create) \ plan.delete
           /\ \A i \in DOMAIN db' :
                /\ i \in plan.create => db'[i] = plan.desired[i]
                /\ i \notin plan.create /\ i \in plan.update =>
                     db'[i] = [f \in RowFields |-> IF f \in Changes(plan.before, plan.desired, i)
                                                   THEN plan.desired[i][f] ELSE db[i][f]]
                /\ i \notin plan.create /\ i \notin plan.update => db'[i] = db[i]
           /\ KeysUnique(Written(plan.update))
<1>1. db' = Restrict(Written(plan.update), (DOMAIN db \cup plan.create) \ plan.delete)
      /\ StatementsSucceed
  BY DEF CommitApply
<1>2. DOMAIN db' = (DOMAIN db \cup plan.create) \ plan.delete
      /\ \A i \in DOMAIN db' : db'[i] = Written(plan.update)[i]
  BY <1>1 DEF Restrict
<1>3. KeysUnique(Written(plan.update))
  BY <1>1 DEF StatementsSucceed, Stages
<1>4. \A i \in DOMAIN db' :
        /\ i \in plan.create => Written(plan.update)[i] = plan.desired[i]
        /\ i \notin plan.create /\ i \in plan.update =>
             Written(plan.update)[i] =
                [f \in RowFields |-> IF f \in Changes(plan.before, plan.desired, i)
                                     THEN plan.desired[i][f] ELSE db[i][f]]
        /\ i \notin plan.create /\ i \notin plan.update => Written(plan.update)[i] = db[i]
  BY <1>2 DEF Written
<1> QED
  BY <1>2, <1>3, <1>4

LEMMA CommitInitializeRows ==
    ASSUME CommitInitialize
    PROVE  LET stay == plan.preserved \cap DOMAIN db
           IN  /\ DOMAIN db' = stay \cup (DOMAIN plan.desired \ plan.preserved)
               /\ \A i \in stay : db'[i] = db[i]
               /\ \A i \in DOMAIN db' \ stay : db'[i] = plan.desired[i]
               /\ KeysUnique(db')
BY DEF CommitInitialize, Replaced

LEMMA CommitKeepsInv ==
    ASSUME Inv, CommitApply \/ CommitInitialize PROVE Inv'
<1>1. /\ pc = "planned" /\ pc' = "committed" /\ outcome' = "committed" /\ PlanOK
      /\ UNCHANGED <<bundle, file, config, applied, plan, edits, faults>>
  BY DEF CommitApply, CommitInitialize, Commit, Inv
<1>2. KeysUnique(db')
  <2>1. CASE CommitApply
    <3>1. db' = Restrict(Written(plan.update), (DOMAIN db \cup plan.create) \ plan.delete)
      BY <2>1 DEF CommitApply
    <3>2. DOMAIN Written(plan.update) = DOMAIN db \cup plan.create
      BY DEF Written
    <3>3. DOMAIN db' \subseteq DOMAIN Written(plan.update)
          /\ \A i \in DOMAIN db' : db'[i] = Written(plan.update)[i]
      BY <3>1, <3>2 DEF Restrict
    <3>4. KeysUnique(Written(plan.update))
      BY <2>1, CommitApplyRows
    <3> QED
      BY <3>3, <3>4 DEF KeysUnique
  <2>2. CASE CommitInitialize
    BY <2>2, CommitInitializeRows
  <2> QED
    BY <2>1, <2>2
<1>3. plan.create \subseteq DOMAIN plan.desired /\ plan.update \subseteq DOMAIN plan.desired
  BY <1>1 DEF PlanOK, Created, New, Updated
<1>4. /\ \A i \in DOMAIN plan.desired : IsRow(plan.desired[i])
      /\ \A i \in DOMAIN db : IsRow(db[i])
  BY <1>1 DEF PlanOK, Inv, GoodTable
<1>5. DOMAIN db' \subseteq DOMAIN db \cup DOMAIN plan.desired
      /\ \A i \in DOMAIN db' : IsRow(db'[i])
  <2>1. CASE CommitApply
    <3>1. DOMAIN db' \subseteq DOMAIN db \cup plan.create
      BY <2>1, CommitApplyRows
    <3>2. ASSUME NEW i \in DOMAIN db' PROVE IsRow(db'[i])
      <4>1. CASE i \in plan.create
        BY <1>3, <1>4, <2>1, <4>1, CommitApplyRows
      <4>2. CASE i \notin plan.create /\ i \in plan.update
        <5>1. db'[i] = [f \in RowFields |-> IF f \in Changes(plan.before, plan.desired, i)
                                            THEN plan.desired[i][f] ELSE db[i][f]]
          BY <2>1, <4>2, CommitApplyRows
        <5>2. IsRow(plan.desired[i]) /\ IsRow(db[i])
          BY <1>3, <1>4, <3>1, <4>2
        <5> QED
          BY <5>1, <5>2, RowFieldsAre DEF IsRow
      <4>3. CASE i \notin plan.create /\ i \notin plan.update
        BY <1>4, <2>1, <3>1, <4>3, CommitApplyRows
      <4> QED
        BY <4>1, <4>2, <4>3
    <3> QED
      BY <1>3, <3>1, <3>2
  <2>2. CASE CommitInitialize
    BY <1>4, <2>2, CommitInitializeRows
  <2> QED
    BY <2>1, <2>2
<1>6. IsTable(db')
  <2>1. IsTable(db) /\ IsTable(plan.desired)
    BY <1>1 DEF PlanOK, Inv, GoodTable
  <2>2. IsFiniteSet(DOMAIN db \cup DOMAIN plan.desired)
    BY <2>1, FS_Union DEF IsTable
  <2> QED
    BY <1>5, <2>1, <2>2, FS_Subset DEF IsTable
<1>7. PlanOK'
  BY <1>1 DEF PlanOK
<1> QED
  BY <1>1, <1>2, <1>5, <1>6, <1>7 DEF Inv, BundleOK, GoodTable

LEMMA EditKeepsInv == ASSUME Inv, EditRow PROVE Inv'
<1>1. PICK i \in UNION {DOMAIN t : t \in Tables}, row \in Rows :
        db' = [j \in DOMAIN db \cup {i} |-> IF j = i THEN row ELSE db[j]]
        /\ KeysUnique([j \in DOMAIN db \cup {i} |-> IF j = i THEN row ELSE db[j]])
  BY DEF EditRow
<1>2. i \in Nat \ {0} /\ IsRow(row)
  BY TableAssumption DEF IsRow
<1>3. IsFiniteSet(DOMAIN db \cup {i})
  BY FS_AddElement DEF Inv, GoodTable, IsTable
<1>4. IsTable(db') /\ \A j \in DOMAIN db' : IsRow(db'[j])
  BY <1>1, <1>2, <1>3 DEF Inv, GoodTable, IsTable
<1>5. GoodTable(db')
  BY <1>1, <1>4 DEF GoodTable
<1> QED
  BY <1>5 DEF EditRow, Inv, BundleOK, PlanOK

LEMMA NextKeepsInv == Inv /\ [Next]_vars => Inv'
<1> SUFFICES ASSUME Inv, [Next]_vars PROVE Inv'
  OBVIOUS
<1>1. CASE NewBundle
  <2>1. PICK t \in Tables : bundle' = [seq |-> bundle.seq + 1, rows |-> t]
    BY <1>1 DEF NewBundle
  <2>2. bundle'.seq = bundle.seq + 1 /\ bundle'.rows = t
    BY <2>1
  <2>3. bundle.seq \in Nat /\ bundle.seq + 1 \in 1..MaxBundles
        /\ bundle.seq + 1 \in Nat /\ 0..bundle.seq \subseteq 0..(bundle.seq + 1)
        /\ 1..bundle.seq \subseteq 1..(bundle.seq + 1)
    BY <1>1, ImportAssumption DEF NewBundle, Inv, BundleOK
  <2>4. BundleOK'
    BY <1>1, <2>2, <2>3, MainsTables DEF NewBundle, Inv, BundleOK
  <2>5. pc # "idle" => PlanOK'
    BY <1>1, <2>2, <2>3 DEF NewBundle, Inv, PlanOK
  <2> QED
    BY <1>1, <2>4, <2>5 DEF NewBundle, Inv
<1>2. CASE EditRow
  BY <1>2, EditKeepsInv
<1>3. CASE SaveProtection
  BY <1>3 DEF SaveProtection, Inv, BundleOK
<1>4. CASE Restart
  BY <1>4 DEF Restart, Inv, BundleOK
<1>5. CASE PlanApply
  BY <1>5, PlanApplyOK
<1>6. CASE PlanInitialize
  BY <1>6, PlanInitializeOK
<1>7. CASE CommitApply \/ CommitInitialize
  BY <1>7, CommitKeepsInv
<1>8. CASE RollBack
  BY <1>8 DEF RollBack, Inv, BundleOK
<1>9. CASE Remember
  BY <1>9 DEF Remember, NewDisabled, Inv, BundleOK, PlanOK
<1>10. CASE RecordState
  BY <1>10 DEF RecordState, Inv, BundleOK, PlanOK
<1>11. CASE Interrupt
  BY <1>11 DEF Interrupt, Inv, BundleOK
<1>12. CASE UNCHANGED vars
  BY <1>12 DEF vars, Inv, BundleOK, PlanOK
<1> QED
  BY <1>1, <1>2, <1>3, <1>4, <1>5, <1>6, <1>7, <1>8, <1>9, <1>10, <1>11, <1>12 DEF Next

LEMMA Invariant == Spec => []Inv
BY InitInv, NextKeepsInv, PTL DEF Spec

-----------------------------------------------------------------------------
(* Protected rows. *)

\* The plan keeps a protected row that it saw, also where Main has none.
LEMMA ProtectedPlan ==
    ASSUME Inv, pc = "planned", NEW i \in config \cap DOMAIN plan.before
    PROVE  /\ i \in DOMAIN plan.desired /\ plan.desired[i] = plan.before[i]
           /\ i \notin plan.create /\ i \notin plan.update /\ i \notin plan.delete
           /\ i \in plan.preserved
<1>1. PlanOK /\ ~Surrogate
  BY ImportAssumption DEF Inv
<1>2. plan.desired = Prepare(plan.before, plan.bundle.rows, config)
  BY <1>1 DEF PlanOK
<1>3. i \in DOMAIN plan.desired /\ plan.desired[i] = plan.before[i]
  BY <1>1, <1>2 DEF Prepare
<1>4. i \notin plan.create /\ i \notin plan.update /\ i \notin plan.delete
  BY <1>1, <1>3 DEF PlanOK, Created, New, Updated, Deleted
<1> QED
  BY <1>1, <1>3, <1>4 DEF PlanOK, Preserved

\* A commit that the invariant holds before leaves them in place.
LEMMA CommitKeepsProtected ==
    ASSUME Inv, CommitApply \/ CommitInitialize,
           NEW i \in config \cap DOMAIN plan.before \cap DOMAIN db
    PROVE  i \in DOMAIN db' /\ db'[i] = db[i]
<1>1. pc = "planned"
  BY DEF CommitApply, CommitInitialize, Commit
<1>2. /\ i \notin plan.create /\ i \notin plan.update /\ i \notin plan.delete
      /\ i \in plan.preserved
  BY <1>1, ProtectedPlan
<1>3. CASE CommitApply
  BY <1>2, <1>3, CommitApplyRows
<1>4. CASE CommitInitialize
  BY <1>2, <1>4, CommitInitializeRows
<1> QED
  BY <1>3, <1>4

\* Only the two transactions commit.
LEMMA OnlyCommits ==
    ASSUME Next, pc = "planned", pc' = "committed"
    PROVE  CommitApply \/ CommitInitialize
BY DEF Next, NewBundle, EditRow, SaveProtection, Restart, PlanApply, PlanInitialize, Begin,
       RollBack, Remember, RecordState, Interrupt

\* No import changes or deletes a row that its engine protects and that it saw,
\* whatever the tables, and also where the table changes under the import.
THEOREM ProtectedRowsStay == Spec => ProtectedRowsUntouched
<1>1. Inv /\ [Next]_vars => [ProtectedStep]_vars
  <2> SUFFICES ASSUME Inv, Next, pc = "planned", pc' = "committed",
                      NEW i \in config \cap DOMAIN plan.before \cap DOMAIN db
               PROVE  i \in DOMAIN db' /\ db'[i] = db[i]
    BY DEF ProtectedStep
  <2> QED
    BY OnlyCommits, CommitKeepsProtected
<1> QED
  BY <1>1, Invariant, PTL DEF Spec, ProtectedRowsUntouched

-----------------------------------------------------------------------------
(* Plans that nothing disturbs. *)

\* After each statement of apply_domains a row has the unique values of Main's
\* row, or those that it had here; Main's were checked against all of these.
LEMMA UndisturbedApply ==
    ASSUME Inv, pc = "planned", db = plan.before, plan.kind = "apply"
    PROVE  StatementsSucceed
<1>1. PlanOK
  BY DEF Inv
<1>2. \A i \in DOMAIN plan.desired : ~Clash(plan.before, plan.desired, i)
  BY <1>1 DEF PlanOK, Conflicts
<1>3. plan.create \subseteq DOMAIN plan.desired /\ plan.create \cap DOMAIN db = {}
  BY <1>1 DEF PlanOK, Created, New
<1>4. plan.update \subseteq DOMAIN plan.desired \cap DOMAIN db
  BY <1>1 DEF PlanOK, Updated
<1>5. ASSUME NEW done \in Stages PROVE KeysUnique(Written(done))
  <2> DEFINE t == Written(done)
  <2>1. done \subseteq plan.update
    BY DEF Stages
  <2>2. DOMAIN t = DOMAIN db \cup plan.create
    BY DEF Written
  <2>3. ASSUME NEW i \in DOMAIN t
        PROVE  \/ /\ i \in DOMAIN plan.desired /\ ~Taken(plan.before, plan.desired, i)
                  /\ \A f \in UniqueFields : t[i][f] = plan.desired[i][f]
               \/ /\ i \in DOMAIN plan.before
                  /\ \A f \in UniqueFields : t[i][f] = plan.before[i][f]
    <3>1. CASE i \in plan.create
      BY <1>2, <1>3, <2>2, <3>1 DEF Written, Clash
    <3>2. CASE i \notin plan.create /\ i \in done
      <4>1. i \in DOMAIN plan.desired /\ ~Taken(plan.before, plan.desired, i)
        BY <1>2, <1>4, <2>1, <3>2 DEF Clash
      <4>2. t[i] = [f \in RowFields |-> IF f \in Changes(plan.before, plan.desired, i)
                                        THEN plan.desired[i][f] ELSE db[i][f]]
        BY <2>2, <3>2 DEF Written
      <4>3. ASSUME NEW f \in UniqueFields PROVE t[i][f] = plan.desired[i][f]
        BY <4>2, RowFieldsAre DEF Changes
      <4> QED
        BY <4>1, <4>3
    <3>3. CASE i \notin plan.create /\ i \notin done
      BY <2>2, <3>3 DEF Written
    <3> QED
      BY <3>1, <3>2, <3>3
  <2> HIDE DEF t
  <2>4. KeysUnique(t)
    BY <1>1, <2>3, MixedUnique DEF PlanOK, GoodTable
  <2> QED
    BY <2>4 DEF t
<1> QED
  BY <1>3, <1>5 DEF StatementsSucceed

\* The rows that initialize_domains leaves in place are as desired: what it
\* puts together is the desired table, whose unique columns were validated.
LEMMA UndisturbedInitialize ==
    ASSUME Inv, pc = "planned", db = plan.before, plan.kind = "initialize"
    PROVE  KeysUnique(Replaced)
<1>1. PlanOK
  BY DEF Inv
<1>2. plan.desired = Prepare(plan.before, plan.bundle.rows, config)
  BY <1>1 DEF PlanOK
<1>3. \A i \in plan.preserved : i \in DOMAIN plan.desired /\ plan.desired[i] = db[i]
  BY <1>1, <1>2 DEF PlanOK, Preserved, Prepare
<1>4. \A i \in DOMAIN Replaced : i \in DOMAIN plan.desired /\ Replaced[i] = plan.desired[i]
  BY <1>3 DEF Replaced
<1>5. KeysUnique(plan.desired)
  BY <1>1 DEF PlanOK, GoodTable
<1> QED
  BY <1>4, <1>5 DEF KeysUnique

\* A plan without conflicts never runs into a unique constraint, after any of
\* its statements, as long as the table is the one it was made from.
THEOREM UndisturbedPlansDoSucceed == Spec => []UndisturbedPlansSucceed
<1>1. Inv => UndisturbedPlansSucceed
  <2> SUFFICES ASSUME Inv, pc = "planned", db = plan.before
               PROVE  IF plan.kind = "apply" THEN StatementsSucceed ELSE KeysUnique(Replaced)
    BY DEF UndisturbedPlansSucceed
  <2>1. plan.kind \in {"apply", "initialize"}
    BY DEF Inv, PlanOK
  <2> QED
    BY <2>1, UndisturbedApply, UndisturbedInitialize
<1> QED
  BY <1>1, Invariant, PTL

-----------------------------------------------------------------------------
(* New records stay disabled. *)

\* The rows kept local are in the file an import is built from, or will be by
\* the time the next one is; a row that appears meanwhile is not one of them.
KeptInv ==
    /\ faults \in Nat
    /\ Policy # "disabled" => kept = {}
    /\ Fresh /\ faults = 0 =>
        /\ NewRecordsStayDisabled
        /\ kept \subseteq (IF pc = "committed" THEN file \cup NewDisabled ELSE file)
        /\ pc = "planned" => config = file /\ kept \cap DOMAIN db \subseteq DOMAIN plan.before

\* The rows a plan adds are inactive where the policy says so.
LEMMA NewArePlannedDisabled ==
    ASSUME Inv, pc = "planned", NEW i \in NewDisabled
    PROVE  /\ i \in DOMAIN plan.desired /\ i \notin DOMAIN plan.before
           /\ ~plan.desired[i].active
           /\ plan.kind = "apply" => i \in plan.create
           /\ i \notin plan.preserved
<1>1. /\ PlanOK /\ Policy = "disabled" /\ ~Surrogate
      /\ i \in DOMAIN plan.desired /\ i \notin DOMAIN plan.before
  BY ImportAssumption DEF Inv, NewDisabled
<1>2. plan.desired = Prepare(plan.before, plan.bundle.rows, config)
  BY <1>1 DEF PlanOK
<1>3. \A j \in DOMAIN plan.bundle.rows : IsRow(plan.bundle.rows[j])
  BY <1>1 DEF PlanOK, GoodTable
<1>4. ~plan.desired[i].active
  <2> DEFINE row == Overridden(plan.bundle.rows[i], i)
  <2>1. i \in DOMAIN plan.bundle.rows /\ plan.desired[i] = [row EXCEPT !.active = FALSE]
    BY <1>1, <1>2 DEF Prepare, New
  <2>2. IsRow(row)
    BY <1>3, <2>1, OverriddenIsRow
  <2>3. "active" \in DOMAIN row
    BY <2>2, RowFieldsAre DEF IsRow
  <2> QED
    BY <2>1, <2>3
<1>5. plan.kind = "apply" => i \in plan.create
  BY <1>1 DEF PlanOK, Conflicts, Created, New
<1>6. i \notin plan.preserved
  BY <1>1 DEF PlanOK, Preserved, Locked
<1> QED
  BY <1>1, <1>4, <1>5, <1>6

\* A commit adds the rows it imports disabled, and changes none of the others.
LEMMA CommitKeepsNewDisabled ==
    ASSUME Inv, KeptInv, CommitApply \/ CommitInitialize PROVE KeptInv'
<1>1. /\ pc = "planned" /\ pc' = "committed" /\ kept' = kept \cup NewDisabled
      /\ UNCHANGED <<file, config, plan, faults>> /\ NewDisabled' = NewDisabled
  BY DEF CommitApply, CommitInitialize, Commit, NewDisabled
<1>2. SUFFICES ASSUME Fresh, faults = 0 PROVE NewRecordsStayDisabled'
  BY <1>1 DEF KeptInv, NewDisabled
<1>3. /\ NewRecordsStayDisabled /\ kept \subseteq config
      /\ kept \cap DOMAIN db \subseteq DOMAIN plan.before
  BY <1>1, <1>2 DEF KeptInv
<1>4. ASSUME NEW i \in NewDisabled \cap DOMAIN db' PROVE ~db'[i].active
  <2>1. /\ i \in DOMAIN plan.desired /\ i \notin plan.preserved /\ ~plan.desired[i].active
        /\ plan.kind = "apply" => i \in plan.create
    BY <1>1, NewArePlannedDisabled
  <2>2. CASE CommitApply
    BY <2>1, <2>2, CommitApplyRows DEF CommitApply
  <2>3. CASE CommitInitialize
    BY <2>1, <2>3, CommitInitializeRows
  <2> QED
    BY <2>2, <2>3
<1>5. ASSUME NEW i \in kept \cap DOMAIN db PROVE i \in DOMAIN db' /\ ~db'[i].active
  BY <1>3, CommitKeepsProtected DEF NewRecordsStayDisabled
<1>6. ASSUME NEW i \in kept \cap DOMAIN db', i \notin DOMAIN db PROVE i \in NewDisabled
  <2>1. PlanOK /\ Policy = "disabled"
    BY <1>1 DEF Inv, KeptInv
  <2>2. i \in config
    BY <1>3
  <2>3. CASE CommitApply
    <3>1. i \in plan.create
      BY <1>6, <2>3, CommitApplyRows
    <3> QED
      BY <2>1, <3>1 DEF PlanOK, Created, New, NewDisabled
  <2>4. CASE CommitInitialize
    <3>1. i \in DOMAIN plan.desired \ plan.preserved
      BY <1>6, <2>4, CommitInitializeRows
    <3>2. i \notin DOMAIN plan.before
      BY <2>1, <2>2, <3>1 DEF PlanOK, Preserved
    <3> QED
      BY <2>1, <3>1, <3>2 DEF NewDisabled
  <2> QED
    BY <2>3, <2>4
<1> QED
  BY <1>1, <1>4, <1>5, <1>6 DEF NewRecordsStayDisabled

LEMMA NextKeepsNewDisabled == Inv /\ KeptInv /\ [Next]_vars => KeptInv'
<1> SUFFICES ASSUME Inv, KeptInv, [Next]_vars PROVE KeptInv'
  OBVIOUS
<1>1. CASE NewBundle
  BY <1>1 DEF NewBundle, KeptInv, NewRecordsStayDisabled, NewDisabled
<1>2. CASE EditRow
  <2>1. PICK i \in UNION {DOMAIN t : t \in Tables}, row \in Rows :
          /\ db' = [j \in DOMAIN db \cup {i} |-> IF j = i THEN row ELSE db[j]]
          /\ kept' = kept \ {i}
    BY <1>2 DEF EditRow
  <2>2. \A j \in kept' \cap DOMAIN db' : j \in kept \cap DOMAIN db /\ db'[j] = db[j]
    BY <2>1
  <2>3. UNCHANGED <<file, config, pc, plan, faults>> /\ kept' \subseteq kept
    BY <1>2, <2>1 DEF EditRow
  <2> QED
    BY <2>2, <2>3 DEF KeptInv, NewRecordsStayDisabled, NewDisabled
<1>3. CASE SaveProtection
  BY <1>3 DEF SaveProtection, KeptInv, NewRecordsStayDisabled
<1>4. CASE Restart
  BY <1>4 DEF Restart, KeptInv, NewRecordsStayDisabled
<1>5. CASE PlanApply \/ PlanInitialize
  <2>1. /\ pc = "idle" /\ pc' = "planned" /\ plan'.before = db
        /\ Fresh => config' = file
        /\ UNCHANGED <<db, file, kept, faults>>
    BY <1>5 DEF PlanApply, PlanInitialize, Begin, Planned
  <2> QED
    BY <2>1 DEF KeptInv, NewRecordsStayDisabled
<1>6. CASE CommitApply \/ CommitInitialize
  BY <1>6, CommitKeepsNewDisabled
<1>7. CASE RollBack
  BY <1>7 DEF RollBack, KeptInv, NewRecordsStayDisabled
<1>8. CASE Remember
  BY <1>8 DEF Remember, KeptInv, NewRecordsStayDisabled
<1>9. CASE RecordState
  BY <1>9 DEF RecordState, KeptInv, NewRecordsStayDisabled
<1>10. CASE Interrupt
  BY <1>10 DEF Interrupt, KeptInv
<1>11. CASE UNCHANGED vars
  BY <1>11 DEF vars, KeptInv, NewRecordsStayDisabled, NewDisabled
<1> QED
  BY <1>1, <1>2, <1>3, <1>4, <1>5, <1>6, <1>7, <1>8, <1>9, <1>10, <1>11 DEF Next

\* Where every import reads the configuration file, a row imported as new and
\* disabled stays disabled over all later imports, until the operator enables
\* it or an import is interrupted.
THEOREM NewStayDisabled == Spec => []NewStayDisabledUnlessInterrupted
<1>1. Init => KeptInv
  BY DEF Init, KeptInv, NewRecordsStayDisabled
<1>2. KeptInv => NewStayDisabledUnlessInterrupted
  BY DEF KeptInv, NewStayDisabledUnlessInterrupted
<1> QED
  BY <1>1, <1>2, Invariant, NextKeepsNewDisabled, PTL DEF Spec

-----------------------------------------------------------------------------
(* What an undisturbed import leaves. *)

\* A commit to the table that the plan was made from leaves the desired rows,
\* and of the others those that the mirroring of deletions leaves alone.
LEMMA UndisturbedCommit ==
    ASSUME Inv, CommitApply \/ CommitInitialize, db = plan.before
    PROVE  /\ \A i \in DOMAIN plan.desired :
                i \in DOMAIN db' /\ \A f \in RowFields : db'[i][f] = plan.desired[i][f]
           /\ \A i \in DOMAIN db' \cup DOMAIN plan.before :
                i \in DOMAIN plan.desired
                \/ (i \in DOMAIN db' <=>
                      plan.kind = "apply" /\ ~AllowDeletes /\ i \in DOMAIN plan.before)
<1>1. PlanOK
  BY DEF CommitApply, CommitInitialize, Commit, Inv
<1>2. CASE CommitApply
  <2>1. plan.kind = "apply"
    BY <1>2 DEF CommitApply
  <2>2. \A i \in DOMAIN plan.desired : ~Clash(plan.before, plan.desired, i)
    BY <1>1, <2>1 DEF PlanOK, Conflicts
  <2>3. /\ plan.create = DOMAIN plan.desired \ DOMAIN plan.before
        /\ plan.update = {i \in DOMAIN plan.desired \cap DOMAIN db : plan.desired[i] # db[i]}
        /\ plan.delete = (IF AllowDeletes THEN DOMAIN db \ DOMAIN plan.desired ELSE {})
    BY <1>1, <2>2 DEF PlanOK, Created, New, Updated, Deleted
  <2>4. ASSUME NEW i \in DOMAIN plan.desired
        PROVE  i \in DOMAIN db' /\ \A f \in RowFields : db'[i][f] = plan.desired[i][f]
    <3>1. i \in DOMAIN db'
      BY <1>2, <2>3, CommitApplyRows
    <3>2. CASE i \in plan.create
      BY <1>2, <3>1, <3>2, CommitApplyRows
    <3>3. CASE i \notin plan.create /\ i \in plan.update
      <4>1. db'[i] = [f \in RowFields |-> IF f \in Changes(plan.before, plan.desired, i)
                                          THEN plan.desired[i][f] ELSE db[i][f]]
        BY <1>2, <3>1, <3>3, CommitApplyRows
      <4> QED
        BY <3>1, <4>1 DEF Changes
    <3>4. CASE i \notin plan.create /\ i \notin plan.update
      BY <1>2, <2>3, <3>1, <3>4, CommitApplyRows
    <3> QED
      BY <3>2, <3>3, <3>4
  <2>5. \A i \in DOMAIN db' \cup DOMAIN plan.before :
            i \in DOMAIN plan.desired
            \/ (i \in DOMAIN db' <=> ~AllowDeletes /\ i \in DOMAIN plan.before)
    BY <1>2, <2>3, CommitApplyRows
  <2> QED
    BY <2>1, <2>4, <2>5
<1>3. CASE CommitInitialize
  <2>1. plan.kind = "initialize"
    BY <1>3 DEF CommitInitialize
  <2>2. plan.desired = Prepare(plan.before, plan.bundle.rows, config)
    BY <1>1, <2>1 DEF PlanOK
  <2>3. \A i \in plan.preserved : i \in DOMAIN plan.desired /\ plan.desired[i] = db[i]
                                  /\ i \in DOMAIN db
    BY <1>1, <2>2 DEF PlanOK, Preserved, Locked, Prepare
  <2> QED
    BY <1>3, <2>1, <2>3, CommitInitializeRows
<1> QED
  BY <1>2, <1>3

\* The plans are those that the mirroring is about: under Main's ids, or, for
\* a relation without local overrides, what the reconciliation of ids makes of
\* Main's rows.
PlansFollowMain ==
    pc = "planned" =>
        /\ plan.kind = "initialize" \/ ~Surrogate => UnderMainIds
        /\ Surrogate /\ plan.kind = "apply" /\ DOMAIN Overrides = {}
              /\ HasIdentities(plan.bundle.rows) => UnderLocalIds

\* Every plan follows Main: no policy and no protected row comes in between
\* where the rows of a relation are matched.
THEOREM PlansDoFollowMain == Spec => []PlansFollowMain
<1>1. Inv => PlansFollowMain
  <2> SUFFICES ASSUME Inv, pc = "planned" PROVE PlansFollowMain
    BY DEF PlansFollowMain
  <2>1. PlanOK
    BY DEF Inv
  <2>2. ASSUME Surrogate, plan.kind = "apply", DOMAIN Overrides = {}
        PROVE  plan.desired = Reconciled(plan.before, plan.bundle.rows)
    <3> DEFINE main == plan.bundle.rows
    <3>1. config = {} /\ Policy = "none"
      BY <2>2, ImportAssumption DEF Inv
    <3>2. Prepare(plan.before, main, config) = [i \in DOMAIN main |-> main[i]]
      BY <2>2, <3>1 DEF Prepare, Overridden
    <3>3. Prepare(plan.before, main, config) = main
      BY <2>1, <3>2 DEF PlanOK
    <3> QED
      BY <2>1, <2>2, <3>3 DEF PlanOK, Desired
  <2> QED
    BY <2>1, <2>2 DEF PlanOK, PlansFollowMain, UnderMainIds, UnderLocalIds
<1> QED
  BY <1>1, Invariant, PTL

\* The rows of an import under Main's ids.
LEMMA CommitMirrors ==
    ASSUME Inv, CommitApply \/ CommitInitialize, db = plan.before, UnderMainIds
    PROVE  MirrorOf(db', db, plan.bundle.rows, config)
<1> DEFINE main == plan.bundle.rows
           want == plan.desired
<1>1. PlanOK
  BY DEF CommitApply, CommitInitialize, Commit, Inv
<1>2. want = Prepare(db, main, config) /\ \A i \in DOMAIN main : IsRow(main[i])
  BY <1>1 DEF PlanOK, GoodTable, UnderMainIds
<1>3. PreparedAs(want, db, main, config)
  BY <1>2, PreparedRows
<1>4. /\ \A i \in DOMAIN want :
            i \in DOMAIN db' /\ \A f \in RowFields : db'[i][f] = want[i][f]
      /\ \A i \in DOMAIN db' \cup DOMAIN db :
            i \in DOMAIN want
            \/ (i \in DOMAIN db' <=> plan.kind = "apply" /\ ~AllowDeletes /\ i \in DOMAIN db)
  BY UndisturbedCommit
<1>5. \A i \in config \cap DOMAIN db : i \in DOMAIN db' /\ db'[i] = db[i]
  BY CommitKeepsProtected
<1> HIDE DEF main, want
<1>6. ASSUME NEW i \in DOMAIN db' \cup DOMAIN main \cup DOMAIN db
      PROVE  IF i \in config \cap DOMAIN db THEN i \in DOMAIN db' /\ db'[i] = db[i]
             ELSE IF i \in DOMAIN main
             THEN /\ i \in DOMAIN db'
                  /\ \A f \in RowFields \ {"active"} : db'[i][f] = Overridden(main[i], i)[f]
                  /\ db'[i].active = (Overridden(main[i], i).active
                                        /\ (Policy = "disabled" => i \in DOMAIN db))
             ELSE i \in DOMAIN db' <=> (plan.kind = "apply" /\ ~AllowDeletes
                                          /\ i \in DOMAIN db)
  <2>1. CASE i \in config \cap DOMAIN db
    BY <2>1, <1>5
  <2>2. CASE i \in DOMAIN main /\ i \notin config \cap DOMAIN db
    BY <2>2, <1>3, <1>4, RowFieldsAre DEF PreparedAs
  <2>3. CASE i \notin DOMAIN main /\ i \notin config \cap DOMAIN db
    BY <2>3, <1>3, <1>4 DEF PreparedAs
  <2> QED
    BY <2>1, <2>2, <2>3
<1> QED
  BY <1>6 DEF main, MirrorOf

\* The rows of an import of a relation. A row here that Main has too is among
\* the desired ones, under its id; one that is not, Main has not.
LEMMA CommitLinks ==
    ASSUME Inv, CommitApply \/ CommitInitialize, db = plan.before, UnderLocalIds
    PROVE  LinksOf(db', db, plan.bundle.rows)
<1> DEFINE main == plan.bundle.rows
           want == plan.desired
<1>1. PlanOK
  BY DEF CommitApply, CommitInitialize, Commit, Inv
<1>2. CommitApply /\ plan.kind = "apply"
  BY DEF UnderLocalIds, CommitInitialize
<1>3. MatchByIdentity(db, main, want)
  <2>1. /\ IsTable(db) /\ IsTable(main) /\ KeysUnique(db) /\ KeysUnique(main)
        /\ HasIdentities(main) /\ want = Reconciled(db, main)
    BY <1>1 DEF PlanOK, Inv, GoodTable, UnderLocalIds
  <2> QED
    BY <2>1, ReconciledMatches
<1>4. /\ \A i \in DOMAIN want :
            i \in DOMAIN db' /\ \A f \in RowFields : db'[i][f] = want[i][f]
      /\ \A i \in DOMAIN db' \cup DOMAIN db :
            i \in DOMAIN want \/ (i \in DOMAIN db' <=> ~AllowDeletes /\ i \in DOMAIN db)
  BY <1>2, UndisturbedCommit
<1>5. /\ \A i \in DOMAIN db' : IsRow(db'[i])
      /\ \A i \in DOMAIN want : IsRow(want[i])
  BY <1>1, CommitKeepsInv DEF Inv, PlanOK, GoodTable
<1>6. \A i \in DOMAIN db' : i \in DOMAIN want \/ db'[i] = db[i]
  BY <1>1, <1>2, CommitApplyRows DEF PlanOK, Created, New, Updated
<1> HIDE DEF main, want
<1>7. \A i \in DOMAIN want : i \in DOMAIN db' /\ db'[i] = want[i]
  BY <1>4, <1>5 DEF IsRow
<1>8. ASSUME NEW i \in DOMAIN main PROVE \E j \in DOMAIN db' : db'[j] = main[i]
  BY <1>3, <1>7 DEF MatchByIdentity
<1>9. ASSUME NEW i \in DOMAIN db \cap DOMAIN db' PROVE db'[i].key = db[i].key
  BY <1>3, <1>6, <1>7 DEF MatchByIdentity
<1>10. ASSUME NEW i \in DOMAIN db
       PROVE  i \in DOMAIN db' <=> (AllowDeletes => \E j \in DOMAIN main : main[j].key = db[i].key)
  <2>1. i \in DOMAIN want <=> \E j \in DOMAIN main : main[j].key = db[i].key
    BY <1>3 DEF MatchByIdentity
  <2> QED
    BY <1>4, <2>1
<1> QED
  BY <1>8, <1>9, <1>10 DEF main, LinksOf

\* An import to the table it was planned for leaves Main's rows, under Main's
\* ids except for what is protected here, or, for a relation, under the ids
\* known here; and of the other rows those that mirroring leaves alone.
THEOREM ImportsMirror == Spec => ImportMirrorsMain
<1>1. Inv /\ [Next]_vars => [MirrorStep]_vars
  <2> SUFFICES ASSUME Inv, Next, pc = "planned", pc' = "committed", db = plan.before
               PROVE  /\ UnderMainIds => MirrorOf(db', db, plan.bundle.rows, config)
                      /\ UnderLocalIds => LinksOf(db', db, plan.bundle.rows)
    BY DEF MirrorStep
  <2> QED
    BY OnlyCommits, CommitMirrors, CommitLinks
<1> QED
  BY <1>1, Invariant, PTL DEF Spec, ImportMirrorsMain

\* Whatever rows and ids both sides have, the rows of a relation are matched by
\* identity, and the ids that are given to the new ones are free.
THEOREM LinksDoMatch == Spec => []LinksMatchByIdentity
<1>1. Inv => LinksMatchByIdentity
  <2> SUFFICES ASSUME Inv, HasIdentities(bundle.rows)
               PROVE  MatchByIdentity(db, bundle.rows, Reconciled(db, bundle.rows))
    BY DEF LinksMatchByIdentity
  <2>1. /\ IsTable(db) /\ IsTable(bundle.rows)
        /\ KeysUnique(db) /\ KeysUnique(bundle.rows)
    BY DEF Inv, BundleOK, GoodTable
  <2> QED
    BY <2>1, ReconciledMatches
<1> QED
  BY <1>1, Invariant, PTL

\* Only a concurrent writer comes between the plan and its transaction.
UndisturbedInv == ~Concurrent => (pc = "planned" => db = plan.before)

LEMMA NextKeepsUndisturbed == UndisturbedInv /\ [Next]_vars => UndisturbedInv'
<1> SUFFICES ASSUME UndisturbedInv, [Next]_vars PROVE UndisturbedInv'
  OBVIOUS
<1>1. CASE NewBundle \/ EditRow \/ SaveProtection \/ Restart
  BY <1>1 DEF NewBundle, EditRow, SaveProtection, Restart, UndisturbedInv
<1>2. CASE PlanApply \/ PlanInitialize
  <2>1. plan'.before = db /\ db' = db
    BY <1>2 DEF PlanApply, PlanInitialize, Planned
  <2> QED
    BY <2>1 DEF UndisturbedInv
<1>3. CASE CommitApply \/ CommitInitialize \/ RollBack \/ Remember \/ RecordState \/ Interrupt
  BY <1>3 DEF CommitApply, CommitInitialize, Commit, RollBack, Remember, RecordState, Interrupt,
              UndisturbedInv
<1>4. CASE UNCHANGED vars
  BY <1>4 DEF vars, UndisturbedInv
<1> QED
  BY <1>1, <1>2, <1>3, <1>4 DEF Next

LEMMA UndisturbedInvariant == Spec => []UndisturbedInv
<1>1. Init => UndisturbedInv
  BY DEF Init, UndisturbedInv
<1> QED
  BY <1>1, NextKeepsUndisturbed, PTL DEF Spec

\* Where nothing else writes the table meanwhile, no import changes or deletes
\* a locked row. The runs show how a row locked after the plan is lost.
THEOREM LockedRowsStay == ASSUME ~Concurrent PROVE Spec => LockedRowsUntouched
<1>1. Inv /\ UndisturbedInv /\ [Next]_vars => [LockedStep]_vars
  <2> SUFFICES ASSUME Inv, UndisturbedInv, Next, pc = "planned", pc' = "committed",
                      NEW i \in Locked(db)
               PROVE  i \in DOMAIN db' /\ db'[i] = db[i]
    BY DEF LockedStep
  <2>1. PlanOK /\ db = plan.before /\ i \in DOMAIN db
    BY DEF Inv, UndisturbedInv, Locked
  <2>2. CASE CommitApply
    <3>1. i \notin plan.create /\ i \notin plan.update /\ i \notin plan.delete
      BY <2>1, <2>2 DEF CommitApply, PlanOK, Conflicts, Created, New
    <3> QED
      BY <2>1, <2>2, <3>1, CommitApplyRows
  <2>3. CASE CommitInitialize
    <3>1. i \in plan.preserved
      BY <2>1, <2>3 DEF CommitInitialize, PlanOK, ReplaceConflicts
    <3> QED
      BY <2>1, <2>3, <3>1, CommitInitializeRows
  <2> QED
    BY <2>2, <2>3, OnlyCommits
<1> QED
  BY <1>1, Invariant, UndisturbedInvariant, PTL DEF Spec, LockedRowsUntouched

-----------------------------------------------------------------------------
(* Recordings. *)

\* The recordings after each of the remaps.
RemapSteps(after, from, order, mapping, n) ==
    after = [k \in 0..n |->
                IF k = 0 THEN from ELSE Redirected(after[k - 1], order[k], mapping[order[k]])]

\* There are such steps: the least number of remaps without them would follow
\* one with them.
LEMMA RemapStepsExist ==
    ASSUME NEW from, NEW order, NEW mapping, NEW n \in Nat
    PROVE  \E after : RemapSteps(after, from, order, mapping, n)
<1> DEFINE Bad == {m \in Nat : ~\E after : RemapSteps(after, from, order, mapping, m)}
<1> SUFFICES ASSUME Bad # {} PROVE FALSE
  OBVIOUS
<1>1. PICK m \in Bad : \A l \in Bad : m <= l
  BY LeastNumber
<1>2. CASE m = 0
  <2>1. RemapSteps([k \in 0..0 |-> from], from, order, mapping, 0)
    BY DEF RemapSteps
  <2> QED
    BY <1>1, <1>2, <2>1
<1>3. CASE m # 0
  <2>1. m - 1 \in Nat /\ m - 1 \notin Bad
    BY <1>1, <1>3
  <2>2. PICK f : RemapSteps(f, from, order, mapping, m - 1)
    BY <2>1
  <2> DEFINE g == [k \in 0..m |->
                     IF k = m THEN Redirected(f[m - 1], order[m], mapping[order[m]]) ELSE f[k]]
  <2>3. \A k \in 0..(m - 1) :
          f[k] = IF k = 0 THEN from ELSE Redirected(f[k - 1], order[k], mapping[order[k]])
    BY <2>2 DEF RemapSteps
  <2>4. \A k \in 0..(m - 1) : g[k] = f[k]
    BY <2>1
  <2>5. g[m] = Redirected(f[m - 1], order[m], mapping[order[m]])
    BY <2>1
  <2>6. DOMAIN g = 0..m /\ g = [k \in 0..m |-> g[k]]
    OBVIOUS
  <2> HIDE DEF g
  <2>7. \A k \in 0..m :
          g[k] = IF k = 0 THEN from ELSE Redirected(g[k - 1], order[k], mapping[order[k]])
    <3> TAKE k \in 0..m
    <3>1. k - 1 \in 0..(m - 1) \/ k = 0
      BY <2>1
    <3>2. k \in 0..(m - 1) \/ k = m
      BY <2>1
    <3> QED
      BY <1>3, <2>1, <2>3, <2>4, <2>5, <3>1, <3>2
  <2>8. RemapSteps(g, from, order, mapping, m)
    BY <2>6, <2>7 DEF RemapSteps
  <2> QED
    BY <1>1, <2>8
<1> QED
  BY <1>2, <1>3

\* A recording ends on the target of one of the ids, or stays where it is and
\* that is none of them.
LEMMA MovedResolves ==
    ASSUME NEW order, Len(order) \in Nat, NEW mapping,
           refs = [r \in DOMAIN refs |-> refs[r]]
    PROVE  LET moved == Moved(order, mapping) IN
           /\ moved = [r \in DOMAIN refs |-> moved[r]]
           /\ \A r \in DOMAIN refs :
                \/ \E k \in 1..Len(order) : moved[r] = mapping[order[k]]
                \/ moved[r] = refs[r] /\ \A k \in 1..Len(order) : refs[r] # order[k]
<1> DEFINE after[k \in 0..Len(order)] ==
              IF k = 0 THEN refs ELSE Redirected(after[k - 1], order[k], mapping[order[k]])
           Resolved(m) ==
              /\ after[m] = [s \in DOMAIN refs |-> after[m][s]]
              /\ \A s \in DOMAIN refs :
                    \/ \E k \in 1..Len(order) : after[m][s] = mapping[order[k]]
                    \/ after[m][s] = refs[s] /\ \A k \in 1..m : refs[s] # order[k]
           Bad == {m \in 0..Len(order) : ~Resolved(m)}
<1>1. Moved(order, mapping) = after[Len(order)]
  BY DEF Moved
<1>2. after = [k \in 0..Len(order) |-> IF k = 0 THEN refs
                              ELSE Redirected(after[k - 1], order[k], mapping[order[k]])]
  <2>1. \E f : RemapSteps(f, refs, order, mapping, Len(order))
    BY RemapStepsExist
  <2> QED
    BY <2>1 DEF RemapSteps
<1> HIDE DEF after
<1>3. after[0] = refs /\ \A k \in 1..Len(order) :
          after[k] = Redirected(after[k - 1], order[k], mapping[order[k]])
  <2>1. after[0] = refs
    BY <1>2
  <2>2. ASSUME NEW k \in 1..Len(order)
        PROVE  after[k] = Redirected(after[k - 1], order[k], mapping[order[k]])
    <3>1. k \in 0..Len(order) /\ k # 0
      OBVIOUS
    <3> HIDE DEF Bad
    <3> QED
      BY <1>2, <3>1
  <2> QED
    BY <2>1, <2>2
<1>4. ASSUME Bad # {} PROVE FALSE
  <2>1. PICK m \in Bad : \A l \in Bad : m <= l
    <3>1. Bad \in SUBSET Nat
      OBVIOUS
    <3> HIDE DEF Bad
    <3> QED
      BY <1>4, <3>1, LeastNumber
  <2>2. Resolved(0)
    BY <1>3
  <2>3. m \in 1..Len(order) /\ m - 1 \in 0..Len(order) /\ m - 1 \notin Bad
    <3>1. m \in 0..Len(order) /\ ~Resolved(m)
      BY <2>1
    <3>2. m # 0
      BY <2>2, <3>1
    <3>3. \A l \in Bad : m <= l /\ l \in Nat
      BY <2>1
    <3> HIDE DEF Bad
    <3> QED
      BY <3>1, <3>2, <3>3
  <2>4. Resolved(m - 1)
    BY <2>3
  <2>5. after[m] = Redirected(after[m - 1], order[m], mapping[order[m]])
    BY <1>3, <2>3
  <2>6. after[m] = [s \in DOMAIN refs |-> after[m][s]]
    BY <2>4, <2>5 DEF Redirected
  <2>7. ASSUME NEW s \in DOMAIN refs
        PROVE  \/ \E k \in 1..Len(order) : after[m][s] = mapping[order[k]]
               \/ after[m][s] = refs[s] /\ \A k \in 1..m : refs[s] # order[k]
    <3>1. after[m][s] = IF after[m - 1][s] = order[m] THEN mapping[order[m]] ELSE after[m - 1][s]
      BY <2>4, <2>5 DEF Redirected
    <3>2. \A k \in 1..m : k = m \/ k \in 1..(m - 1)
      BY <2>3
    <3> QED
      BY <2>3, <2>4, <3>1, <3>2
  <2> QED
    BY <2>1, <2>6, <2>7
<1>5. Resolved(Len(order))
  BY <1>4
<1> QED
  BY <1>1, <1>5

\* A sequence of all elements of a finite set has each of them.
LEMMA SetToSeqsCover ==
    ASSUME NEW S, IsFiniteSet(S), NEW order \in SetToSeqs(S)
    PROVE  /\ Cardinality(S) \in Nat /\ Len(order) = Cardinality(S)
           /\ \A k \in 1..Len(order) : order[k] \in S
           /\ \A i \in S : \E k \in 1..Len(order) : order[k] = i
<1> DEFINE n == Cardinality(S)
<1>1. n \in Nat
  BY FS_CardinalityType
<1>2. order \in [1..n -> S] /\ \A i, j \in 1..n : i # j => order[i] # order[j]
  BY DEF SetToSeqs
<1> HIDE DEF n
<1>3. IsFiniteSet(1..n) /\ Cardinality(1..n) = n
  BY <1>1, FS_Interval
<1>4. order \in Injection(1..n, S)
  BY <1>2 DEF Injection, IsInjective
<1>5. order \in Surjection(1..n, S)
  BY <1>3, <1>4, FS_Injection DEF n
<1>6. order \in Seq(S) /\ Len(order) = n
  BY <1>1, <1>2
<1> QED
  BY <1>1, <1>2, <1>5, <1>6 DEF Surjection, n

\* A row that a recording refers to is one that the plan saw, and the rows the
\* plan saw are still there; a plan of an initialization has a successor for
\* each that goes.
ResolveInv ==
    /\ \A r \in DOMAIN refs : refs[r] \in DOMAIN db
    /\ DOMAIN refs \subseteq Recordings
    /\ refs = [r \in DOMAIN refs |-> refs[r]]
    /\ pc = "planned" =>
        /\ DOMAIN plan.before \subseteq DOMAIN db
        /\ \A r \in DOMAIN refs : refs[r] \in DOMAIN plan.before
        /\ plan.kind = "initialize" =>
            \A i \in (Referenced \cap DOMAIN plan.before) \ plan.preserved :
                Successors(plan.before, plan.desired, i) # {}

LEMMA InitializeResolves ==
    ASSUME Inv, ResolveInv, CommitInitialize PROVE ResolveInv'
<1> DEFINE ids == {i \in Referenced \cap DOMAIN plan.before : i \notin plan.preserved}
           mapping == Remap(plan.before, plan.desired, ids)
<1>1. /\ pc = "planned" /\ pc' = "committed" /\ plan.kind = "initialize" /\ PlanOK
  BY DEF CommitInitialize, Commit, Inv
<1>2. PICK order \in SetToSeqs(ids) : refs' = Moved(order, mapping)
  BY DEF CommitInitialize
<1>3. IsFiniteSet(ids)
  <2>1. IsFiniteSet(DOMAIN refs)
    BY ImportAssumption, FS_Subset DEF ResolveInv
  <2>2. refs \in Surjection(DOMAIN refs, Referenced)
    BY DEF ResolveInv, Surjection, Referenced
  <2>3. IsFiniteSet(Referenced)
    BY <2>1, <2>2, FS_Surjection
  <2> QED
    BY <2>3, FS_Subset
<1>4. \A i \in ids : mapping[i] \in DOMAIN plan.desired
  BY <1>1 DEF ResolveInv, Remap, Successors
<1>5. plan.preserved \subseteq DOMAIN plan.before
  BY <1>1 DEF PlanOK, Preserved, Locked
<1>6. DOMAIN plan.desired \cup plan.preserved \subseteq DOMAIN db'
  BY <1>1, <1>5, CommitInitializeRows DEF ResolveInv
<1> HIDE DEF mapping
<1>7. /\ DOMAIN refs' = DOMAIN refs /\ refs' = [r \in DOMAIN refs' |-> refs'[r]]
      /\ \A r \in DOMAIN refs' :
            \/ refs'[r] \in DOMAIN plan.desired
            \/ refs'[r] = refs[r] /\ refs[r] \notin ids
  <2>1. /\ Len(order) \in Nat /\ \A k \in 1..Len(order) : order[k] \in ids
        /\ \A i \in ids : \E k \in 1..Len(order) : order[k] = i
    BY <1>3, SetToSeqsCover
  <2>2. /\ refs' = [r \in DOMAIN refs |-> refs'[r]]
        /\ \A r \in DOMAIN refs :
             \/ refs'[r] \in DOMAIN plan.desired
             \/ refs'[r] = refs[r] /\ \A k \in 1..Len(order) : refs[r] # order[k]
    <3> HIDE DEF ids
    <3>1. refs = [r \in DOMAIN refs |-> refs[r]]
      BY DEF ResolveInv
    <3>2. \A k \in 1..Len(order) : mapping[order[k]] \in DOMAIN plan.desired
      BY <1>4, <2>1
    <3> DEFINE moved == Moved(order, mapping)
    <3>3. /\ moved = [r \in DOMAIN refs |-> moved[r]]
          /\ \A r \in DOMAIN refs :
               \/ \E k \in 1..Len(order) : moved[r] = mapping[order[k]]
               \/ moved[r] = refs[r] /\ \A k \in 1..Len(order) : refs[r] # order[k]
      BY <2>1, <3>1, MovedResolves
    <3>4. refs' = moved
      BY <1>2
    <3> HIDE DEF moved
    <3> QED
      BY <3>2, <3>3, <3>4
  <2> QED
    BY <2>1, <2>2
<1>8. \A r \in DOMAIN refs' : refs'[r] \in DOMAIN db'
  BY <1>1, <1>6, <1>7 DEF ResolveInv, Referenced
<1> QED
  BY <1>1, <1>7, <1>8 DEF ResolveInv

LEMMA NextKeepsResolve == Inv /\ ResolveInv /\ [Next]_vars => ResolveInv'
<1> SUFFICES ASSUME Inv, ResolveInv, [Next]_vars PROVE ResolveInv'
  OBVIOUS
<1> USE DEF ResolveInv
<1>1. CASE NewBundle
  BY <1>1 DEF NewBundle, Referenced
<1>2. CASE EditRow
  <2>1. DOMAIN db \subseteq DOMAIN db'
    BY <1>2 DEF EditRow
  <2>2. UNCHANGED <<refs, pc, plan>>
    BY <1>2 DEF EditRow
  <2> QED
    BY <2>1, <2>2 DEF Referenced
<1>3. CASE SaveProtection
  BY <1>3 DEF SaveProtection
<1>4. CASE Restart
  BY <1>4 DEF Restart
<1>5. CASE PlanApply
  <2>1. plan'.kind = "apply" /\ plan'.before = db /\ UNCHANGED <<db, refs>>
    BY <1>5 DEF PlanApply, Planned
  <2> QED
    BY <2>1
<1>6. CASE PlanInitialize
  <2> DEFINE desired == Prepare(db, bundle.rows, config')
  <2>1. /\ plan'.before = db /\ plan'.desired = desired
        /\ plan'.preserved = Preserved(db, desired, config')
        /\ UNCHANGED <<db, refs>>
        /\ \A i \in Referenced \cap (DOMAIN db \ Preserved(db, desired, config')) :
              Successors(db, desired, i) # {}
    BY <1>6 DEF PlanInitialize, Planned
  <2> HIDE DEF desired
  <2> QED
    BY <2>1 DEF Referenced
<1>7. CASE CommitApply
  <2>1. /\ pc' = "committed"
        /\ refs' = Restrict(refs, {r \in DOMAIN refs : refs[r] \notin plan.delete})
        /\ DOMAIN db' = (DOMAIN db \cup plan.create) \ plan.delete
    BY <1>7, CommitApplyRows DEF CommitApply, Commit
  <2> QED
    BY <2>1 DEF Restrict
<1>8. CASE CommitInitialize
  BY <1>8, InitializeResolves
<1>9. CASE RollBack
  BY <1>9 DEF RollBack
<1>10. CASE Remember
  BY <1>10 DEF Remember
<1>11. CASE RecordState
  BY <1>11 DEF RecordState
<1>12. CASE Interrupt
  BY <1>12 DEF Interrupt
<1>13. CASE UNCHANGED vars
  BY <1>13 DEF vars, Referenced
<1> QED
  BY <1>1, <1>2, <1>3, <1>4, <1>5, <1>6, <1>7, <1>8, <1>9, <1>10, <1>11, <1>12, <1>13 DEF Next

\* A recording always refers to a row that exists: through deletions, through
\* rows edited while an import runs, and through the replacement of the whole
\* table with its remaps, in whatever order these are made.
THEOREM RecordingsDoResolve == Spec => []RecordingsResolve
<1>1. Init => ResolveInv
  BY DEF Init, ResolveInv
<1>2. Inv /\ ResolveInv => RecordingsResolve
  <2> SUFFICES ASSUME Inv, ResolveInv PROVE RecordingsResolve
    OBVIOUS
  <2>1. bundle.seq \in Nat \ {0} /\ applied \in 0..bundle.seq
    BY ImportAssumption DEF Inv, BundleOK
  <2>2. GoodTable(db) /\ GoodTable(bundle.rows)
    BY DEF Inv, BundleOK
  <2>3. ASSUME NEW t \in {db, bundle.rows}
        PROVE  /\ KeysUnique(t) /\ DOMAIN t \subseteq Nat \ {0}
               /\ \A i \in DOMAIN t : DOMAIN t[i] = RowFields
    <3>1. \A i \in DOMAIN t : t[i] = [f \in RowFields |-> t[i][f]]
      BY <2>2 DEF GoodTable, IsRow
    <3> QED
      BY <2>2, <3>1 DEF GoodTable, IsTable
  <2>4. TypeOK
    BY <2>1, <2>3 DEF TypeOK, Inv
  <2> QED
    BY <2>4 DEF ResolveInv, RecordingsResolve
<1> QED
  BY <1>1, <1>2, Invariant, NextKeepsResolve, PTL DEF Spec

=============================================================================
