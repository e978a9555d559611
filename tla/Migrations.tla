----------------------------- MODULE Migrations -----------------------------
(***************************************************************************)
(* migrations: the engine of numbered migrations with those the program    *)
(* ships (initial.py), and the engine that evolves a schema by proposals.  *)
(* SQLite lets one connection write at a time: the record of a migration   *)
(* is a transaction that stays open while the next migration runs, and     *)
(* each migration writes through a connection of its own.                  *)
(***************************************************************************)
EXTENDS Naturals, Sequences, FiniteSets, FiniteSetsExt, Selection

CONSTANTS
    Versions,     \* version numbers
    Columns,      \* columns that proposals add to tables there are
    NewTables,    \* tables that proposals create
    MaxLog        \* bound: rows of the evolution log

ASSUME MigrationAssumption == Versions \subseteq Nat \ {0} /\ IsFiniteSet(Versions) /\ MaxLog \in Nat

VARIABLES
    registered, \* _migrations and _reversible: the kind of each version's function
    recorded,   \* the versions in _schema_migrations
    schema,     \* the versions whose changes the database has in full
    parted,     \* history: versions whose record and whose changes a run parted
    objects,    \* the columns and new tables that the database has
    evolution,  \* _schema_evolution_log
    meddled     \* history: objects that raw SQL has dropped since a proposal added them

versionVars == <<registered, recorded, schema, parted>>
evolutionVars == <<objects, evolution, meddled>>
migrationVars == <<registered, recorded, schema, parted, objects, evolution, meddled>>

\* A function may raise what it meets ("loud"), log it and return ("quiet", as those of
\* initial.py do), or be loud and take the argument reverse ("undoes").
MigrationKinds == {"loud", "quiet", "undoes"}
Registered == {v \in Versions : registered[v] # "no"}
Ascending(S) == Only([v \in 1..Max(Versions \union {0}) |-> v], S)
CurrentVersion == Max(recorded \union {0})

MigrationInit ==
    /\ registered = [v \in Versions |-> "no"]
    /\ recorded = {} /\ schema = {} /\ parted = {}
    /\ objects = {} /\ evolution = <<>> /\ meddled = {}

RegisterMigration(v, kind) ==
    /\ registered[v] = "no"
    /\ registered' = [registered EXCEPT ![v] = kind]
    /\ UNCHANGED <<recorded, schema, parted>> /\ UNCHANGED evolutionVars

\* Where a run has come to: the versions whose function wrote, those recorded although it
\* did not; locked from the first record on.
Run(rec, sch) ==
    [recorded |-> rec, schema |-> sch, wrote |-> {}, missed |-> {}, locked |-> FALSE, failed |-> FALSE]

\* What a quiet function meets it keeps to itself.
Swallowed(v) == registered[v] = "quiet"

\* One migration; bad is a version that fails by itself.
Migrate(run, v, bad) ==
    LET refused == run.locked \/ v = bad IN
    IF run.failed THEN run
    ELSE IF refused /\ ~Swallowed(v) THEN [run EXCEPT !.failed = TRUE]
    ELSE IF refused THEN [run EXCEPT !.recorded = @ \union {v}, !.locked = TRUE,
                                     !.missed = @ \union {v}]
    ELSE [run EXCEPT !.recorded = @ \union {v}, !.locked = TRUE,
                     !.schema = @ \union {v}, !.wrote = @ \union {v}]

\* One reversal.  A function without the argument raises a TypeError, the version bad in
\* the middle of its work.
\* Mutant: the record of a reversed version stays.
Reverse1KeepsRecord(run, v, bad) ==
    IF run.failed THEN run
    ELSE IF run.locked \/ registered[v] # "undoes" THEN [run EXCEPT !.failed = TRUE]
    ELSE IF v = bad THEN [run EXCEPT !.failed = TRUE, !.schema = @ \ {v}, !.wrote = @ \union {v}]
    ELSE [run EXCEPT !.locked = TRUE, !.schema = @ \ {v}, !.wrote = @ \union {v}]

Reverse1(run, v, bad) ==
    IF run.failed THEN run
    ELSE IF run.locked \/ registered[v] # "undoes" THEN [run EXCEPT !.failed = TRUE]
    ELSE IF v = bad THEN [run EXCEPT !.failed = TRUE, !.schema = @ \ {v}, !.wrote = @ \union {v}]
    ELSE [run EXCEPT !.recorded = @ \ {v}, !.locked = TRUE,
                     !.schema = @ \ {v}, !.wrote = @ \union {v}]

\* The records are one transaction: a failure takes all of them back, and nothing of what
\* the functions have written.
Finished(run) ==
    /\ recorded' = IF run.failed THEN recorded ELSE run.recorded
    /\ schema' = run.schema
    /\ parted' = IF run.failed THEN parted \union run.wrote
                 ELSE (parted \ run.wrote) \union run.missed
    /\ UNCHANGED registered /\ UNCHANGED evolutionVars

Pending(target) == {v \in Registered : v <= target /\ v > CurrentVersion}

ApplyMigrations(target, bad) ==
    Finished(FoldLeft(LAMBDA run, v : Migrate(run, v, bad), Run(recorded, schema),
                      Ascending(Pending(target))))

\* Every version above the target must be reversible, although none is reversed.
MigrateTo(target, bad) ==
    /\ target \in Registered
    /\ \A v \in Registered : v > target => registered[v] # "loud"
    /\ ApplyMigrations(target, bad)

\* All registered versions above the target, applied or not, from the lowest up.
DowngradeTo(target, bad) ==
    /\ target \in Registered
    /\ Finished(FoldLeft(LAMBDA run, v : Reverse1(run, v, bad), Run(recorded, schema),
                         Ascending({v \in Registered : v > target})))

-----------------------------------------------------------------------------
(* The evolution engine: the schema is altered at once, the log later.     *)

EvolutionVersion == Max({evolution[i].version : i \in DOMAIN evolution} \union {0})

\* A row, and the object it names, if any.
Logged(version, action, names, undo) ==
    [version |-> version, action |-> action, names |-> names, undo |-> undo]
ActionFor(o) == IF o \in Columns THEN "add_column" ELSE "create_table"

\* A valid proposal.  ALTER and CREATE commit by themselves; the version and the log row,
\* one transaction, may be refused by another writer.
ApplyProposal(o, undo, refused) ==
    LET next == EvolutionVersion + 1 IN
    /\ o \notin objects
    /\ Len(evolution) + 2 <= MaxLog
    /\ objects' = objects \union {o} /\ meddled' = meddled \ {o}
    /\ evolution' = IF refused THEN evolution
                    ELSE evolution \o <<Logged(next, "version_increment", {}, FALSE),
                                        Logged(next, ActionFor(o), {o}, undo)>>
    /\ UNCHANGED versionVars

\* Any one statement, after which the schema has the objects after; its row has the version
\* there is, no name and no way back.  Rows that it writes go with a refused row.
ApplyRaw(after, refused) ==
    /\ Len(evolution) < MaxLog
    /\ objects' = after /\ meddled' = meddled \union (objects \ after)
    /\ evolution' = IF refused THEN evolution
                    ELSE Append(evolution, Logged(EvolutionVersion, "custom", {}, FALSE))
    /\ UNCHANGED versionVars

\* The row with the highest version, of these the youngest.
LastChange ==
    LET changes == {i \in DOMAIN evolution : evolution[i].action # "version_increment"}
        newest == {i \in changes : \A j \in changes : evolution[j].version <= evolution[i].version}
    IN IF changes = {} THEN 0 ELSE Max(newest)

\* What the refusal of the rollback's own row leaves of it.
\* Mutant: the rollback is not one transaction.
RefusedRollbackDrops(o) == objects' = objects \ {o} /\ UNCHANGED evolution

RefusedRollback(o) == UNCHANGED <<objects, evolution>>

\* The statement and the row of the rollback are one transaction.  DROP COLUMN fails
\* without the column, DROP TABLE IF EXISTS does not.
RollbackLast(refused) ==
    LET row == evolution[LastChange] IN
    /\ LastChange # 0 /\ Len(evolution) < MaxLog
    /\ row.undo
    /\ \E o \in Columns \union NewTables :
          /\ row.names = {o}
          /\ IF refused \/ o \in Columns \ objects
             THEN RefusedRollback(o)
             ELSE /\ objects' = objects \ {o}
                  /\ evolution' = Append(evolution, Logged(EvolutionVersion + 1, "rollback", {o}, FALSE))
    /\ UNCHANGED meddled /\ UNCHANGED versionVars

VersionNext ==
    \/ \E v \in Versions, kind \in MigrationKinds : RegisterMigration(v, kind)
    \/ \E target \in Versions, bad \in Versions \union {0} :
           \/ ApplyMigrations(target, bad)
           \/ MigrateTo(target, bad)
           \/ DowngradeTo(target, bad)

EvolutionNext ==
    \E refused \in BOOLEAN :
        \/ \E o \in Columns \union NewTables, undo \in BOOLEAN : ApplyProposal(o, undo, refused)
        \/ \E after \in SUBSET (Columns \union NewTables) : ApplyRaw(after, refused)
        \/ RollbackLast(refused)

\* The two engines share no table.
MigrationNext == VersionNext \/ EvolutionNext

MigrationSpec == MigrationInit /\ [][MigrationNext]_migrationVars

-----------------------------------------------------------------------------

\* The types of the migrations' state.
MigrationTypeOK ==
    /\ registered \in [Versions -> MigrationKinds \union {"no"}]
    /\ recorded \subseteq Versions /\ schema \subseteq Versions /\ parted \subseteq Versions
    /\ objects \subseteq Columns \union NewTables /\ meddled \subseteq Columns \union NewTables
    /\ evolution \in Seq([version : Nat, names : SUBSET (Columns \union NewTables), undo : BOOLEAN,
                          action : {"version_increment", "add_column", "create_table", "custom",
                                    "rollback"}])

\* Runs and downgrades that stop half way, functions that swallow what they meet: the record
\* of a version and its changes part only where one of these parted them, and a run that
\* succeeds brings them together again.
BooksMatchSchema ==
    \A v \in Versions : (v \in recorded) # (v \in schema) => v \in parted

\* Statements that commit by themselves and rows that are refused: the last row that names
\* an object is never ahead of the schema.  What it says was added is there, unless raw SQL
\* has dropped it.
LogNeverAhead ==
    \A i \in DOMAIN evolution :
        (/\ evolution[i].action \in {"add_column", "create_table"}
         /\ \A j \in DOMAIN evolution :
                j > i => evolution[j].names \intersect evolution[i].names = {})
        => evolution[i].names \subseteq objects \union meddled

\* Expected from "applied atomically": a version on record is in the schema.
RecordedIsApplied == recorded \subseteq schema

\* Expected from the same: a version in the schema is on record.
AppliedIsRecorded == schema \subseteq recorded

\* Expected from "Apply changes atomically with rollback": a change of the schema has a row.
ChangesAreLogged == objects # {} => evolution # <<>>
=============================================================================
