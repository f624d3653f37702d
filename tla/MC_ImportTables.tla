--------------------------- MODULE MC_ImportTables ---------------------------
(* Small tables for model checking FollowerImport.                           *)
EXTENDS FollowerImport

CONSTANTS a, b, c, x, y

TablesOver(ids, rows) ==
    {t \in UNION {[S -> rows] : S \in SUBSET ids} : KeysUnique(t)}

Row(keys, uniqs, flags, locks, bodies) ==
    [key : keys, uniq : uniqs, active : flags, locked : locks, body : bodies]

\* Rows that differ in their identity and in whether they are active.
PolicyRows == Row({a, b}, {NoValue}, BOOLEAN, {FALSE}, {x})
PolicyTables == TablesOver({1, 2}, PolicyRows)

\* Rows with a second unique column, locks and two contents.
PlanRows == Row({a, b}, {NoValue, c}, {TRUE}, {FALSE}, {x}) \cup Row({a, b}, {NoValue}, {TRUE}, BOOLEAN, {x, y})
PlanTables == TablesOver({1, 2}, PlanRows)

\* Rows of a relation: an identity and an order.
LinkRows == Row({a, b, c}, {NoValue}, {TRUE}, {FALSE}, {x})
LinkTables == TablesOver({1, 2, 3}, LinkRows)

\* Rows that differ in their locks, of which one changes its content.
LockRows == Row({a}, {NoValue}, {TRUE}, BOOLEAN, {x, y}) \cup Row({b}, {NoValue}, {TRUE}, BOOLEAN, {x})
LockTables == TablesOver({1, 2}, LockRows)

LocalBody == 2 :> [body |-> y]
NoOverrides == <<>>

=============================================================================
