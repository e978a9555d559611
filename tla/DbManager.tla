----------------------------- MODULE DbManager -----------------------------
(***************************************************************************)
(* db_manager.py: SchemaManager, QueryExecutor and the table import of     *)
(* DatabaseManager.  A statement of the schema commits by itself, so a     *)
(* column is dropped in three steps (copy, drop, rename), and the process  *)
(* may die or a statement raise between them.  Foreign keys are enforced:  *)
(* rows go with those they refer to where a table says ON DELETE CASCADE.  *)
(* (SET NULL leaves the rows; a RESTRICT that bites raises.)  A call that  *)
(* raises at its only statement changes nothing and is no action here.     *)
(***************************************************************************)
EXTENDS Naturals, FiniteSets

CONSTANTS
    DbTables,      \* table names
    DbColumns,     \* column names
    DbIndexes,     \* index names
    MaxTableRows,       \* bound: rows of a table
    MaxCopies      \* bound: copies a crash left behind

ASSUME DbAssumption == MaxTableRows \in Nat /\ MaxCopies \in Nat

VARIABLES
    stored,     \* per table: {} or its one [cols, rows, keyed,
                \* follows: the tables whose deletions cascade to it]
    indexes,    \* per index: the table it is on, as a set
    copies,     \* tables named after a table and a second, of a drop or rename
    altering,   \* the table whose columns are changed, and how far it is, as a set
    owed        \* history: rows of a table that no caller deleted and no cascade took

dbVars == <<stored, indexes, copies, altering, owed>>

Exists(t) == stored[t] # {}
DbIdle == altering = {}
Follow(t) == {u \in DbTables \ {t} : \E d \in stored[u] : t \in d.follows}
Holds(t) == \E d \in stored[t] : d.keyed /\ d.rows > 0

\* Rows of other tables that go with rows of t: a key that is none (a foreign key
\* mismatch) takes nothing along.
GoesWith(t, lost) ==
    \A u \in DbTables : lost[u] > 0 =>
        /\ u # t /\ \A d \in stored[u] : lost[u] <= d.rows
        /\ \E v \in DbTables : u \in Follow(v) /\ Holds(v) /\ (v = t \/ lost[v] > 0)

Left(lost) == [u \in DbTables |-> {[d EXCEPT !.rows = @ - lost[u]] : d \in stored[u]}]
OwedLeft(lost) == [u \in DbTables |-> owed[u] - lost[u]]

DbInit ==
    /\ stored = [t \in DbTables |-> {}] /\ indexes = [i \in DbIndexes |-> {}]
    /\ copies = {} /\ altering = {}
    /\ owed = [t \in DbTables |-> 0]

\* A primary key that is no column is an error of the statement.  The type of a column may
\* say what it references.
CreateTable(t, cols, keyed, follows) ==
    /\ DbIdle /\ ~Exists(t)
    /\ cols # {}
    /\ stored' = [stored EXCEPT ![t] = {[cols |-> cols, rows |-> 0, keyed |-> keyed,
                                               follows |-> follows]}]
    /\ owed' = [owed EXCEPT ![t] = 0]
    /\ UNCHANGED <<indexes, copies, altering>>

WithoutIndexesOf(t) == [i \in DbIndexes |-> indexes[i] \ {t}]

DropTable(t, lost) ==
    /\ DbIdle /\ Exists(t) /\ GoesWith(t, lost)
    /\ stored' = [Left(lost) EXCEPT ![t] = {}] /\ owed' = [OwedLeft(lost) EXCEPT ![t] = 0]
    /\ indexes' = WithoutIndexesOf(t)
    /\ UNCHANGED <<copies, altering>>

\* NOT NULL without a default is an error, of any column that has no default.
AddColumn(t, c, follows) ==
    /\ DbIdle
    /\ \E d \in stored[t] :
           /\ c \notin d.cols
           /\ stored' = [stored EXCEPT ![t] = {[d EXCEPT !.cols = @ \union {c},
                                                         !.follows = @ \union follows]}]
    /\ UNCHANGED <<indexes, copies, altering, owed>>

\* CREATE TABLE .. AS SELECT: the rows, and neither keys nor index.  The last column
\* cannot be dropped; a copy of the same second is in the way, one of another is not.
CopyWithout(t, c) ==
    /\ DbIdle /\ Cardinality(copies) < MaxCopies
    /\ \E d \in stored[t] :
           LET copy == [d EXCEPT !.cols = @ \ {c}, !.keyed = FALSE, !.follows = {}] IN
           /\ c \in d.cols /\ copy.cols # {}
           /\ altering' = {[table |-> t, copy |-> copy, pc |-> "copied"]}
    /\ UNCHANGED <<stored, indexes, copies, owed>>

\* rename_column where SQLite knows no RENAME COLUMN: the copy has the columns of the
\* table, with their old names.
CopyRenamed(t) ==
    /\ DbIdle /\ Cardinality(copies) < MaxCopies
    /\ \E d \in stored[t] :
           altering' = {[table |-> t, copy |-> [d EXCEPT !.keyed = FALSE, !.follows = {}],
                         pc |-> "copied"]}
    /\ UNCHANGED <<stored, indexes, copies, owed>>

RenameColumn(t, old, new) ==
    /\ DbIdle
    /\ \E d \in stored[t] :
           /\ old \in d.cols /\ new \notin d.cols
           /\ stored' = [stored EXCEPT ![t] = {[d EXCEPT !.cols = (@ \ {old}) \union {new}]}]
    /\ UNCHANGED <<indexes, copies, altering, owed>>

\* DROP TABLE deletes the rows first, and the rows that follow them go, though nobody
\* deleted anything.
DropOriginal(lost) ==
    \E a \in altering :
        /\ a.pc = "copied" /\ GoesWith(a.table, lost)
        /\ stored' = [Left(lost) EXCEPT ![a.table] = {}]
        /\ owed' = OwedLeft(lost)
        /\ indexes' = WithoutIndexesOf(a.table)
        /\ altering' = {[a EXCEPT !.pc = "dropped"]}
        /\ UNCHANGED copies

RenameCopy ==
    \E a \in altering :
        /\ a.pc = "dropped"
        /\ stored' = [stored EXCEPT ![a.table] = {a.copy}]
        /\ altering' = {}
        /\ UNCHANGED <<indexes, copies, owed>>

\* Mutant: the statements run in a transaction that is only begun at the drop, so the
\* copy goes with the process.
DbCrashLosesCopy ==
    /\ ~DbIdle
    /\ altering' = {}
    /\ UNCHANGED <<stored, indexes, copies, owed>>

\* The process dies, or the next statement raises (a lock, a full disk, a row that
\* restricts the drop): what was copied stays, under the name of the copy.
DbCrash ==
    /\ ~DbIdle
    /\ copies' = copies \union {[table |-> a.table, rows |-> a.copy.rows] : a \in altering}
    /\ altering' = {}
    /\ UNCHANGED <<stored, indexes, owed>>

\* SQLite renames the table in what refers to it as well.
RenameTable(old, new) ==
    LET renamed(t) == IF t = old THEN new ELSE t
        known == [u \in DbTables |->
                     {[d EXCEPT !.follows = {renamed(t) : t \in @}] : d \in stored[u]}]
    IN
    /\ DbIdle /\ Exists(old) /\ ~Exists(new)
    /\ stored' = [known EXCEPT ![new] = known[old], ![old] = {}]
    /\ owed' = [owed EXCEPT ![new] = owed[old], ![old] = 0]
    /\ indexes' = [i \in DbIndexes |-> IF old \in indexes[i] THEN {new} ELSE indexes[i]]
    /\ UNCHANGED <<copies, altering>>

\* The limits (64 indexes on a table, 256 columns) are not reached here.
CreateIndex(i, t) ==
    /\ DbIdle /\ Exists(t) /\ indexes[i] = {}
    /\ indexes' = [indexes EXCEPT ![i] = {t}]
    /\ UNCHANGED <<stored, copies, altering, owed>>

DropIndex(i) ==
    /\ DbIdle /\ indexes[i] # {}
    /\ indexes' = [indexes EXCEPT ![i] = {}]
    /\ UNCHANGED <<stored, copies, altering, owed>>

\* execute_dml, an import, or a transaction, of so many rows.  An import commits each row
\* by itself, so one that fails leaves the rows before the bad one; asked to replace, or
\* to clear first, it raises before it has read a row, because DELETE has no WHERE.  A row
\* that refers to a table with no key raises.
Insert(t, n) ==
    /\ DbIdle
    /\ \E d \in stored[t] :
           /\ d.rows + n <= MaxTableRows
           /\ \A u \in d.follows : \E e \in stored[u] : e.keyed
           /\ stored' = [stored EXCEPT ![t] = {[d EXCEPT !.rows = @ + n]}]
           /\ owed' = [owed EXCEPT ![t] = @ + n]
    /\ UNCHANGED <<indexes, copies, altering>>

\* With a WHERE, or confirmed.
DeleteRows(t, n, lost) ==
    /\ DbIdle /\ GoesWith(t, lost)
    /\ \E d \in stored[t] :
           /\ n <= d.rows
           /\ Follow(t) # {} => d.keyed
           /\ stored' = [Left(lost) EXCEPT ![t] = {[d EXCEPT !.rows = @ - n]}]
           /\ owed' = [OwedLeft(lost) EXCEPT ![t] = @ - n]
    /\ UNCHANGED <<indexes, copies, altering>>

DbNext ==
    \/ \E t \in DbTables, cols \in SUBSET DbColumns, k \in BOOLEAN, f \in SUBSET DbTables :
           CreateTable(t, cols, k, f)
    \/ \E t \in DbTables, c \in DbColumns, f \in SUBSET DbTables : AddColumn(t, c, f)
    \/ \E t \in DbTables, c \in DbColumns : CopyWithout(t, c)
    \/ \E t \in DbTables : CopyRenamed(t)
    \/ \E t \in DbTables, old, new \in DbColumns : RenameColumn(t, old, new)
    \/ \E lost \in [DbTables -> 0..MaxTableRows] :
           \/ DropOriginal(lost)
           \/ \E t \in DbTables : DropTable(t, lost)
           \/ \E t \in DbTables, n \in 1..MaxTableRows : DeleteRows(t, n, lost)
    \/ RenameCopy \/ DbCrash
    \/ \E old, new \in DbTables : RenameTable(old, new)
    \/ \E i \in DbIndexes, t \in DbTables : CreateIndex(i, t)
    \/ \E i \in DbIndexes : DropIndex(i)
    \/ \E t \in DbTables, n \in 1..MaxTableRows : Insert(t, n)

DbSpec == DbInit /\ [][DbNext]_dbVars

-----------------------------------------------------------------------------

StoredTables == [cols : SUBSET DbColumns, rows : 0..MaxTableRows, keyed : BOOLEAN,
                 follows : SUBSET DbTables]

DbTypeOK ==
    /\ stored \in [DbTables -> SUBSET StoredTables]
    /\ \A t \in DbTables : Cardinality(stored[t]) <= 1
    /\ indexes \in [DbIndexes -> SUBSET DbTables]
    /\ copies \subseteq [table : DbTables, rows : 0..MaxTableRows]
    /\ altering \subseteq [table : DbTables, copy : StoredTables, pc : {"copied", "dropped"}]
    /\ owed \in [DbTables -> 0..MaxTableRows]

\* Whatever sequence of column changes, crashes, cascades and renames: the rows that nobody
\* deleted and no cascade took are in the table, or, while it is missing, in a copy made of
\* it; and no index is on a table that is not there.
RowsSurvive ==
    /\ \A t \in DbTables :
           IF Exists(t) THEN \A d \in stored[t] : d.rows = owed[t]
           ELSE owed[t] > 0 => \/ \E a \in altering : a.table = t /\ a.copy.rows = owed[t]
                               \/ \E c \in copies : c.table = t /\ c.rows = owed[t]
    /\ \A i \in DbIndexes : \A t \in indexes[i] : Exists(t)

\* "Drop a column from a table." (db_manager.py): a change of a table's columns leaves the
\* rows of the others.  Those that follow its rows go with the original.
OthersKeepRows ==
    [][~DbIdle => \A u \in DbTables \ {a.table : a \in altering} : stored'[u] = stored[u]]_dbVars

\* "This is done atomically with a backup." (db_manager.py): no death or error leaves the
\* copy, or no table.
DropsAreAtomic == copies = {}
=============================================================================
