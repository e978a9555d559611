-------------------------- MODULE BackupScheduler --------------------------
(***************************************************************************)
(* memory/backup_scheduler.py: BackupScheduler.  One call backs up four    *)
(* databases by their own tools, records each outcome and then deletes the *)
(* files that are older than the retention, by the time they were last     *)
(* modified.  A restore of Redis empties it first.                         *)
(***************************************************************************)
EXTENDS Naturals, Sequences, FiniteSets, Selection

CONSTANTS
    retention_days,   \* as in the configuration
    MaxDays,          \* bound: days that pass
    MaxRounds         \* bound: calls of backup_all

ASSUME SchedulerAssumption == retention_days \in Nat /\ MaxDays \in Nat /\ MaxRounds \in Nat

VARIABLES
    today,
    sqliteDay,      \* the day the SQLite file was last modified
    dumps,          \* files of the directory: [db, at, mtime]
    backup_records, \* as in the code, a round of four at a time: [db, at, status, how]
    live,           \* per database: what it holds
    restores        \* history: the last restore of each database, as a set

schedulerVars == <<today, sqliteDay, dumps, backup_records, live, restores>>

Databases == <<"postgres", "redis", "sqlite", "neo4j">>

\* What a backup may come to.  A tool that is missing, fails or times out is an error.
\* redis-cli and neo4j-admin may succeed and leave no file of the expected name; the
\* one of neo4j-admin never has it.  SQLite is copied when its tool fails.
Comes(db) ==
    CASE db = "postgres" -> {"error", "dump"}
      [] db = "redis"    -> {"error", "nothing", "dump"}
      [] db = "sqlite"   -> {"error", "dump", "copy"}
      [] db = "neo4j"    -> {"error", "nothing"}

SchedulerInit ==
    /\ today = 0 /\ sqliteDay = 0 /\ dumps = {} /\ backup_records = <<>>
    /\ live = [db \in Range(Databases) |-> "own"] /\ restores = {}

DayPasses ==
    /\ today < MaxDays /\ today' = today + 1
    /\ sqliteDay' \in {sqliteDay, today + 1}
    /\ UNCHANGED <<dumps, backup_records, live, restores>>

RecordOf(db, how) ==
    [db |-> db, at |-> today, status |-> IF how = "error" THEN "error" ELSE "success", how |-> how]

\* A copy has the modification time of what it copies.
FileOf(r) == [db |-> r.db, at |-> r.at, mtime |-> IF r.how = "copy" THEN sqliteDay ELSE r.at]

\* Mutant: what is as old as the retention goes as well.
ExpiredToo(f) == f.mtime + retention_days <= today

Expired(f) == f.mtime + retention_days < today

\* backup_all, the retention at its end included, whatever the four came to.  A file is
\* named after the second: a round takes longer than a tick.
BackupAll(how) ==
    LET round == [i \in 1..4 |-> RecordOf(Databases[i], how[Databases[i]])]
        made  == {FileOf(r) : r \in {r \in Range(round) : r.how \in {"dump", "copy"}}}
    IN
    /\ Len(backup_records) < 4 * MaxRounds
    /\ \A r \in Range(backup_records) : r.at # today
    /\ \A db \in Range(Databases) : how[db] \in Comes(db)
    /\ backup_records' = backup_records \o round
    /\ dumps' = {f \in dumps \union made : ~Expired(f)}
    /\ UNCHANGED <<today, sqliteDay, live, restores>>

\* pg_restore, cp and neo4j-admin load: one command, and its exit code is the status, even
\* of one that complains and restores; one that times out raises, which is an error too.
\* Redis: emptied, its dump file replaced, then shut down to read it again; each of the
\* three may fail, the last one after it took effect, and what was done stays done.
Restores(db) ==
    {<<"success", "restored">>, <<"error", "own">>, <<"error", "restored">>}
        \union (IF db = "redis" THEN {<<"error", "empty">>} ELSE {})

\* A file that is not there is an error, and nothing is done.
RestoreDatabase(f, outcome) ==
    /\ f \in dumps /\ outcome \in Restores(f.db)
    /\ live' = [live EXCEPT ![f.db] = IF outcome[2] = "own" THEN @ ELSE outcome[2]]
    /\ restores' = {r \in restores : r.db # f.db} \union {[db |-> f.db, status |-> outcome[1]]}
    /\ UNCHANGED <<today, sqliteDay, dumps, backup_records>>

\* list_backups and get_backup_health read the records, never the files.
Health(db) ==
    LET of == Only(backup_records, {r \in Range(backup_records) : r.db = db}) IN
    IF of = <<>> THEN "no_backups"
    ELSE IF Last(of).status = "success" THEN "healthy" ELSE "error"

SchedulerNext ==
    \/ DayPasses
    \/ \E how \in [Range(Databases) -> {"error", "nothing", "dump", "copy"}] : BackupAll(how)
    \/ \E f \in dumps, s \in {"success", "error"}, l \in {"own", "empty", "restored"} :
           RestoreDatabase(f, <<s, l>>)

SchedulerSpec == SchedulerInit /\ [][SchedulerNext]_schedulerVars

-----------------------------------------------------------------------------

SchedulerTypeOK ==
    /\ today \in 0..MaxDays /\ sqliteDay \in 0..today
    /\ dumps \subseteq [db : Range(Databases), at : 0..MaxDays, mtime : 0..MaxDays]
    /\ backup_records \in Seq([db : Range(Databases), at : 0..MaxDays,
                               status : {"success", "error"},
                               how : {"error", "nothing", "dump", "copy"}])
    /\ live \in [Range(Databases) -> {"own", "empty", "restored"}]
    /\ restores \subseteq [db : Range(Databases), status : {"success", "error"}]

\* "a non-zero return code here is expected when redis exits cleanly": the restore that
\* filled Redis again says so.  It does not (see the README).
RestoredIsSuccess ==
    [][live["redis"] # "restored" /\ live'["redis"] = "restored" =>
         \E r \in restores' : r.db = "redis" /\ r.status = "success"]_schedulerVars

\* A dump that was recorded as a success is in the directory until it is older than the
\* retention, whatever was backed up, failed or deleted since; what says success of no
\* file, or of a copy that has the date of its source, is not.
DumpsAreKept ==
    \A r \in Range(backup_records) :
        r.how = "dump" /\ r.at + retention_days >= today =>
            \E f \in dumps : f.db = r.db /\ f.at = r.at
=============================================================================
