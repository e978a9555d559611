------------------------------ MODULE MCContinuity ------------------------------
(***************************************************************************)
(* The parts that carry state across restarts: recovery of sessions from   *)
(* the event log, the state file, checkpoints, backups and their           *)
(* scheduler, the tiers of the memory, migrations and schema plans, the    *)
(* tables, and snapshots in git.  They share no state, so one run takes    *)
(* their sum: the first state names the part that moves.                   *)
(***************************************************************************)
EXTENDS SessionRecovery, KnownState, Checkpoints, Backups, BackupScheduler, MemoryTiers,
        Migrations, SchemaPlans, DbManager, GitOps

VARIABLE part

MCCapacity == [sensory |-> 1, working |-> 1, long_term |-> 2, procedural |-> 2]
MCLoadLimit == [working |-> 1, long_term |-> 1, procedural |-> 2]

Init ==
    /\ part \in {"recovery", "known", "checkpoints", "backups", "scheduler", "memory",
                 "migrations", "evolution", "plans", "db", "git"}
    /\ RecoveryInit /\ KnownInit /\ CkptInit /\ BackupInit /\ SchedulerInit /\ MemoryInit
    /\ MigrationInit /\ PlanInit /\ DbInit /\ GitInit
    /\ part # "recovery" => /\ rows = <<>> /\ stateFile = "none"
                            /\ \A option \in DOMAIN config : config[option]

continuityVars == <<part, recoveryVars, knownVars, ckptVars, backupVars, schedulerVars,
                    memoryVars, migrationVars, planVars, dbVars, gitVars>>

RecoveryPart ==
    /\ part = "recovery" /\ RecoveryNext
    /\ UNCHANGED <<part, knownVars, ckptVars, backupVars, schedulerVars, memoryVars,
                   migrationVars, planVars, dbVars, gitVars>>

KnownPart ==
    /\ part = "known" /\ KnownNext
    /\ UNCHANGED <<part, recoveryVars, ckptVars, backupVars, schedulerVars, memoryVars,
                   migrationVars, planVars, dbVars, gitVars>>

CkptPart ==
    /\ part = "checkpoints" /\ CkptNext
    /\ UNCHANGED <<part, recoveryVars, knownVars, backupVars, schedulerVars, memoryVars,
                   migrationVars, planVars, dbVars, gitVars>>

BackupPart ==
    /\ part = "backups" /\ BackupNext
    /\ UNCHANGED <<part, recoveryVars, knownVars, ckptVars, schedulerVars, memoryVars,
                   migrationVars, planVars, dbVars, gitVars>>

SchedulerPart ==
    /\ part = "scheduler" /\ SchedulerNext
    /\ UNCHANGED <<part, recoveryVars, knownVars, ckptVars, backupVars, memoryVars,
                   migrationVars, planVars, dbVars, gitVars>>

MemoryPart ==
    /\ part = "memory" /\ MemoryNext
    /\ UNCHANGED <<part, recoveryVars, knownVars, ckptVars, backupVars, schedulerVars,
                   migrationVars, planVars, dbVars, gitVars>>

MigrationPart ==
    /\ \/ part = "migrations" /\ VersionNext
       \/ part = "evolution" /\ EvolutionNext
    /\ UNCHANGED <<part, recoveryVars, knownVars, ckptVars, backupVars, schedulerVars,
                   memoryVars, planVars, dbVars, gitVars>>

PlanPart ==
    /\ part = "plans" /\ PlanNext
    /\ UNCHANGED <<part, recoveryVars, knownVars, ckptVars, backupVars, schedulerVars,
                   memoryVars, migrationVars, dbVars, gitVars>>

DbPart ==
    /\ part = "db" /\ DbNext
    /\ UNCHANGED <<part, recoveryVars, knownVars, ckptVars, backupVars, schedulerVars,
                   memoryVars, migrationVars, planVars, gitVars>>

GitPart ==
    /\ part = "git" /\ GitNext
    /\ UNCHANGED <<part, recoveryVars, knownVars, ckptVars, backupVars, schedulerVars,
                   memoryVars, migrationVars, planVars, dbVars>>

Next == RecoveryPart \/ KnownPart \/ CkptPart \/ BackupPart \/ SchedulerPart \/ MemoryPart \/
        MigrationPart \/ PlanPart \/ DbPart \/ GitPart

Spec == Init /\ [][Next]_continuityVars

-----------------------------------------------------------------------------
\* Every part keeps its types and bounds.
ContinuityTypeOK ==
    CASE part = "recovery" -> RecoveryTypeOK
      [] part = "known" -> KnownTypeOK
      [] part = "checkpoints" -> CkptTypeOK
      [] part = "backups" -> BackupTypeOK
      [] part = "scheduler" -> SchedulerTypeOK
      [] part = "memory" -> MemoryTypeOK
      [] part \in {"migrations", "evolution"} -> MigrationTypeOK
      [] part = "plans" -> PlanTypeOK
      [] part = "db" -> DbTypeOK
      [] part = "git" -> GitTypeOK

\* A restart goes on from the right place.  A session is restarted no more often than
\* allowed, over any number of deaths (RestartsStayLimited); the agent resumes from the
\* checkpoint it began last, or not at all (ResumesFromLatest); what a manager reads of the
\* state file is what it was told (ReadFieldsSurvive); memory and disk hold the same entries,
\* but for those a failure, a decay or a limit set apart (DiskFollowsMemory).
RestartsGoOn ==
    CASE part = "recovery" -> RestartsStayLimited
      [] part = "known" -> ReadFieldsSurvive
      [] part = "checkpoints" -> ResumesFromLatest
      [] part = "memory" -> DiskFollowsMemory
      [] OTHER -> TRUE

\* What was saved is there.  While a restore leaves no database, a file holds what it held
\* (MissingIsSaved); a dump recorded as a success stays until it expires (DumpsAreKept); the
\* rows of a table survive the changes of its columns, unless a cascade takes them
\* (RowsSurvive); a snapshot holds the
\* files it was taken of (SnapshotsHold).
SavedIsThere ==
    CASE part = "backups" -> MissingIsSaved
      [] part = "scheduler" -> DumpsAreKept
      [] part = "db" -> RowsSurvive
      [] part = "git" -> SnapshotsHold
      [] OTHER -> TRUE

\* The schema is what the books say.  A version's record and its changes part only where a
\* run parted them (BooksMatchSchema), the log of the evolution is not ahead of the schema,
\* unless raw SQL dropped the object (LogNeverAhead), and a plan that went through leaves only
\* types and, of the tables it made, indexes (PlansConverge).
SchemaFollowsBooks ==
    CASE part = "migrations" -> BooksMatchSchema
      [] part = "evolution" -> LogNeverAhead
      [] part = "plans" -> PlansConverge
      [] OTHER -> TRUE
================================================================================
