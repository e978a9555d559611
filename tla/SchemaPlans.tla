---------------------------- MODULE SchemaPlans ----------------------------
(***************************************************************************)
(* schema_evolution.py: the difference between the schema there is and the *)
(* one desired, the SQL generated from it, the migrations applied and      *)
(* marked as rolled back, and the health of the database.                  *)
(***************************************************************************)
EXTENDS Naturals, Sequences, FiniteSets, FiniteSetsExt

CONSTANTS
    Tables,        \* user tables
    MigrationIds,  \* identifiers of migrations
    MaxVersion,    \* bound: version numbers
    MaxChecks      \* bound: rows of the health table

ASSUME PlanAssumption == IsFiniteSet(Tables) /\ MaxVersion \in Nat /\ MaxChecks \in Nat

VARIABLES
    db,       \* what each table is
    applied,  \* __tektos_migrations__
    health,   \* __tektos_health__: scores in percent
    left      \* history: what the last plan on record left to change, and whether it
              \* made the table

planVars == <<db, applied, health, left>>

\* A table has a primary key and at most a column that refers to another table, of some
\* type, and an index on it.  For a key that is no INTEGER, or a UNIQUE column, SQLite makes
\* an index by itself (auto).
NoTable == [ref |-> "none", index |-> FALSE, auto |-> FALSE]
TableStates == {s \in [ref : {"no", "TEXT", "INTEGER"}, index : BOOLEAN, auto : BOOLEAN] :
                    s.index => s.ref # "no"}
Schemas == [Tables -> TableStates \union {NoTable}]
Unmigrated == [version |-> 0, standing |-> FALSE]

PlanInit ==
    /\ db = [t \in Tables |-> NoTable]
    /\ applied = [m \in MigrationIds |-> Unmigrated]
    /\ health = <<>> /\ left = {}

Change(action, t) == [action |-> action, table |-> t]

\* Indexes are compared for tables that are there already, and those SQLite made are listed
\* with the others; types are compared only by name.
DiffSchemas(desired, current) ==
    LET has(t) == current[t] # NoTable
        wants(t) == desired[t] # NoTable
        both == {t \in Tables : has(t) /\ wants(t)}
        when(action, S) == {Change(action, t) : t \in S}
    IN
    when("create", {t \in Tables : wants(t) /\ ~has(t)})
    \union when("drop", {t \in Tables : has(t) /\ ~wants(t)})
    \union when("add_column", {t \in both : desired[t].ref # "no" /\ current[t].ref = "no"})
    \union when("drop_column", {t \in both : desired[t].ref = "no" /\ current[t].ref # "no"})
    \union when("modify_column", {t \in both :
            \/ "no" \notin {desired[t].ref, current[t].ref} /\ desired[t].ref # current[t].ref
            \/ desired[t].auto # current[t].auto})
    \union when("create_index", {t \in both : desired[t].index /\ ~current[t].index})
    \union when("drop_index", {t \in both : current[t].index /\ ~desired[t].index})
    \union when("drop_auto", {t \in both : current[t].auto})

\* Mutant: dropping a column is left to a comment, as modifying one is.
OnlyAdditions(diff) == {c \in diff : c.action \notin {"modify_column", "drop_column"}}

\* A change of a type is a comment in the SQL, not a statement.
Statements(diff) == {c \in diff : c.action # "modify_column"}

\* The statements are lines without a semicolon: two of them are not SQL.  A column with
\* an index cannot be dropped, nor can an index SQLite made.
Executable(diff) ==
    /\ Cardinality(Statements(diff)) <= 1
    /\ \A c \in Statements(diff) : /\ c.action = "drop_column" => ~db[c.table].index
                                  /\ c.action # "drop_auto"

\* The table after a statement; a new table has no index yet.
AfterStatement(action, desired, current) ==
    CASE action = "create" -> [desired EXCEPT !.index = FALSE]
      [] action = "drop" -> NoTable
      [] action \in {"add_column", "drop_column"} -> [current EXCEPT !.ref = desired.ref]
      [] action = "create_index" -> [current EXCEPT !.index = TRUE]
      [] action = "drop_index" -> [current EXCEPT !.index = FALSE]

Executed(desired, diff) ==
    [t \in Tables |->
        LET here == {c \in Statements(diff) : c.table = t} IN
        IF here = {} THEN db[t]
        ELSE AfterStatement((CHOOSE c \in here : TRUE).action, desired[t], db[t])]

\* An identifier that is on record, rolled back or not, is not applied again; SQL that
\* fails raises and leaves no record.
ApplyPlan(m, version, desired) ==
    LET diff == DiffSchemas(desired, db) IN
    /\ applied[m] = Unmigrated
    /\ Executable(diff)
    /\ db' = Executed(desired, diff)
    /\ applied' = [applied EXCEPT ![m] = [version |-> version, standing |-> TRUE]]
    /\ left' = {[action |-> c.action, fresh |-> db[c.table] = NoTable] :
                    c \in DiffSchemas(desired, Executed(desired, diff))}
    /\ UNCHANGED health

\* A script of the caller's that creates one table and then another: each statement
\* commits, and when the second fails the first stays and nothing is on record.
ApplyScript(m, version, t, u) ==
    /\ t # u /\ applied[m] = Unmigrated
    /\ db[t] = NoTable
    /\ LET created == [ref |-> "no", index |-> FALSE, auto |-> FALSE]
           fails == db[u] # NoTable
       IN
       /\ db' = [db EXCEPT ![t] = created, ![u] = IF fails THEN @ ELSE created]
       /\ applied' = IF fails THEN applied
                     ELSE [applied EXCEPT ![m] = [version |-> version, standing |-> TRUE]]
    /\ UNCHANGED <<health, left>>

\* A migration is marked; no SQL is run.
RollbackMigration(m) ==
    /\ applied[m].version > 0
    /\ applied' = [applied EXCEPT ![m].standing = FALSE]
    /\ UNCHANGED <<db, health, left>>

SchemaVersion == Max({applied[m].version : m \in {n \in MigrationIds : applied[n].standing}}
                     \union {0})

\* Pairs of tables of which the first has a column named for the second.
DetectRelationships ==
    {pair \in Tables \X Tables :
        LET s == pair[1]  t == pair[2]
        IN  s # t /\ db[s] # NoTable /\ db[t] # NoTable /\ db[s].ref # "no"}

MissingIndexes == {t \in Tables : db[t] # NoTable /\ db[t].ref # "no" /\ ~db[t].index}

\* free is the share of free pages in percent, half of which the score loses.
HealthScore(free, corrupt, bloated) ==
    LET lost == free \div 2 + (IF corrupt THEN 50 ELSE 0) + (IF bloated THEN 10 ELSE 0)
    IN IF lost > 100 THEN 0 ELSE 100 - lost

\* Reading the history records the health there is.
GetHealthHistory(free, corrupt, bloated) ==
    /\ Len(health) < MaxChecks
    /\ health' = Append(health, [score |-> HealthScore(free, corrupt, bloated),
                                 suggestion |-> free > 20 \/ corrupt \/ MissingIndexes # {}])
    /\ UNCHANGED <<db, applied, left>>

PlanNext ==
    \/ \E m \in MigrationIds, version \in 1..MaxVersion :
           \/ \E desired \in Schemas : ApplyPlan(m, version, desired)
           \/ \E t, u \in Tables : ApplyScript(m, version, t, u)
    \/ \E m \in MigrationIds : RollbackMigration(m)
    \/ \E free \in {0, 40, 100}, corrupt, bloated \in BOOLEAN :
           GetHealthHistory(free, corrupt, bloated)

PlanSpec == PlanInit /\ [][PlanNext]_planVars

-----------------------------------------------------------------------------

\* The types of the schema's state.
PlanTypeOK ==
    /\ db \in Schemas
    /\ applied \in [MigrationIds -> [version : 0..MaxVersion, standing : BOOLEAN]]
    /\ health \in Seq([score : 0..100, suggestion : BOOLEAN]) /\ Len(health) <= MaxChecks
    /\ SchemaVersion <= MaxVersion
    /\ DetectRelationships \subseteq Tables \X Tables

\* Three translations in a row (difference, SQL, database): a plan that went through
\* leaves nothing to change but types and, of the tables it made, the indexes: those wanted
\* are not there yet, and those SQLite made are to be dropped.
PlansConverge ==
    \A c \in left :
        \/ c.action = "modify_column"
        \/ c.fresh /\ c.action \in {"create_index", "drop_auto"}

\* Expected from "SQL string with all migration statements" (schema_evolution.py).
PlansArrive == left = {}

\* Expected from "Compare schemas and generate migration SQL." (schema_evolution.py): for
\* a schema that differs by one statement and the names of types there is a plan.  Once a
\* table has an index that SQLite made, every plan that keeps the table drops it, and fails.
PlansStayPossible ==
    \A desired \in Schemas :
        Cardinality({c \in Statements(DiffSchemas(desired, db)) : c.action # "drop_auto"}) = 1 =>
            \A c \in Statements(DiffSchemas(desired, db)) : c.action # "drop_auto"
=============================================================================
