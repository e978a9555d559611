------------------------------ MODULE Backups ------------------------------
(***************************************************************************)
(* db_manager.py: BackupManager.  A backup is a file named after the       *)
(* second, beside it a metadata file that listing and cleanup go by.  A    *)
(* restore writes the current database to a pre_restore file, removes it   *)
(* and copies the backup in its place; the process may die in between, and *)
(* the next connection then creates an empty database.                     *)
(***************************************************************************)
EXTENDS Naturals, FiniteSets

CONSTANTS
    Retention,     \* retention_days, in ticks
    MaxContents,   \* bound: contents the database takes by being written
    MaxTicks       \* bound: the clock

ASSUME BackupAssumption == Retention \in Nat /\ MaxContents \in Nat /\ MaxTicks \in Nat

VARIABLES
    tick,       \* the clock that names files
    database,   \* content of the database file, as a set: empty when it is missing
    contents,   \* contents written so far
    backups,    \* files of the directory: [kind, at, content, whole]
    metas,      \* metadata files: their second, which names a .db file
    restoring,  \* the restore in progress: pc and the content it restores
    held        \* history: what the database held when the last restore began

backupVars == <<tick, database, contents, backups, metas, restoring, held>>

Empty == 0
NotRestoring == [pc |-> "no", from |-> Empty]

BackupInit ==
    /\ tick = 0 /\ database = {} /\ contents = 0
    /\ backups = {} /\ metas = {} /\ restoring = NotRestoring /\ held = {}

\* sqlite3.connect makes the file that is not there.
Connected == IF database = {} THEN {Empty} ELSE database

BackupIdle == restoring.pc = "no"

BackupTicks == tick < MaxTicks /\ tick' = tick + 1
            /\ UNCHANGED <<database, contents, backups, metas, restoring, held>>

WriteDatabase ==
    /\ BackupIdle /\ contents < MaxContents
    /\ contents' = contents + 1 /\ database' = {contents + 1}
    /\ UNCHANGED <<tick, backups, metas, restoring, held>>

File(kind, content) == [kind |-> kind, at |-> tick, content |-> content]
Without(files, f) == {g \in files : g.kind # f.kind \/ g.at # f.at}

\* A file of the same second is written over; its content is copied into the new one
\* page by page, but nothing else reads it before it is complete.
Backup(compress) ==
    /\ BackupIdle
    /\ database' = Connected
    /\ \E c \in Connected :
           LET plain == File("db", c)
               f == IF compress THEN File("gz", c) ELSE plain
           IN  backups' = Without(Without(backups, plain), f) \union {f}
    /\ metas' = metas \union {tick}
    /\ UNCHANGED <<tick, contents, restoring, held>>

PreRestore(c) ==
    backups' = Without(backups, File("pre", c)) \union {File("pre", c)}

\* Mutant: the copy of the database is left out.
BeginRestoreUnsaved(f) ==
    /\ BackupIdle /\ f \in backups
    /\ restoring' = [pc |-> "saved", from |-> f.content]
    /\ database' = Connected /\ held' = Connected
    /\ UNCHANGED <<tick, contents, backups, metas>>

\* A compressed backup is decompressed beside itself, which leaves one more file that
\* nothing lists.  A backup made by an earlier restore can be restored as well, and is
\* written over when it is of this second: what is restored then is the database.
BeginRestore(f) ==
    /\ BackupIdle /\ f \in backups
    /\ \E c \in Connected :
           /\ PreRestore(c)
           /\ restoring' = [pc |-> "saved",
                            from |-> IF f.kind = "pre" /\ f.at = tick THEN c ELSE f.content]
    /\ database' = Connected /\ held' = Connected
    /\ UNCHANGED <<tick, contents, metas>>

\* The database and its -wal and -shm files, after a checkpoint.
RemoveDatabase ==
    /\ restoring.pc = "saved"
    /\ database' = {} /\ restoring' = [restoring EXCEPT !.pc = "removed"]
    /\ UNCHANGED <<tick, contents, backups, metas, held>>

CopyIn ==
    /\ restoring.pc = "removed"
    /\ database' = {restoring.from} /\ restoring' = NotRestoring
    /\ UNCHANGED <<tick, contents, backups, metas, held>>

BackupCrash ==
    /\ ~BackupIdle
    /\ restoring' = NotRestoring
    /\ UNCHANGED <<tick, database, contents, backups, metas, held>>

\* What is listed is what has metadata, and the file it names is the .db, which a
\* compressed backup no longer is.
ListBackups == {[at |-> m, file |-> {f \in backups : f.kind = "db" /\ f.at = m}] : m \in metas}

\* cleanup_old_backups removes the metadata and the file it names.
CleanupOldBackups ==
    LET old == {m \in metas : m + Retention < tick} IN
    /\ BackupIdle
    /\ metas' = metas \ old
    /\ backups' = backups \ UNION {b.file : b \in {b \in ListBackups : b.at \in old}}
    /\ UNCHANGED <<tick, database, contents, restoring, held>>

BackupNext ==
    \/ BackupTicks \/ WriteDatabase
    \/ \E compress \in BOOLEAN : Backup(compress)
    \/ \E f \in backups : BeginRestore(f)
    \/ RemoveDatabase \/ CopyIn \/ BackupCrash \/ CleanupOldBackups

BackupSpec == BackupInit /\ [][BackupNext]_backupVars

-----------------------------------------------------------------------------

BackupTypeOK ==
    /\ tick \in 0..MaxTicks /\ contents \in 0..MaxContents
    /\ database \subseteq 0..MaxContents /\ Cardinality(database) <= 1
    /\ backups \subseteq [kind : {"db", "gz", "pre"}, at : 0..MaxTicks, content : 0..MaxContents]
    /\ metas \subseteq 0..MaxTicks
    /\ restoring \in [pc : {"no", "saved", "removed"}, from : 0..MaxContents]
    /\ held \subseteq 0..MaxContents

\* Wherever a restore dies, and whatever is cleaned up or restored again after that: as
\* long as the database is missing, a file still holds what it held.
MissingIsSaved ==
    database = {} => \A c \in held : \E f \in backups : f.content = c
=============================================================================
