----------------------------- MODULE Checkpoints ----------------------------
(***************************************************************************)
(* runtime/long_running_agent.py: LongRunningAgent and CheckpointManager.  *)
(* A checkpoint is a file named after the second it was made in, written   *)
(* in place; the directory is read back by modification time.  The process *)
(* may die between two operations or while a file is written, and what is  *)
(* to be written may not serialise; an agent made anew resumes from the    *)
(* files.                                                                  *)
(***************************************************************************)
EXTENDS Naturals, Sequences, FiniteSets, FiniteSetsExt, Selection

CONSTANTS
    Interval,      \* _checkpoint_interval, in seconds
    MaxClock,      \* bound: seconds
    MaxSteps       \* bound: results an agent collects

ASSUME CkptAssumption == Interval \in Nat /\ MaxClock \in Nat /\ MaxSteps \in Nat

VARIABLES
    now,       \* the clock, in whole seconds
    agent,     \* state, status (of progress), results, lastAt (_last_checkpoint_time)
    ckptFiles, \* checkpoint files of the session, the last written last:
               \* [at, state, results, whole: written to its end]
    begun      \* history: the last checkpoint begun and not deleted, as a set

ckptVars == <<now, agent, ckptFiles, begun>>

AgentStates == {"idle", "running", "paused", "completed", "failed"}
FreshAgent == [state |-> "idle", status |-> "running", results |-> 0, lastAt |-> now]

CkptInit ==
    /\ now = 0
    /\ agent = [state |-> "idle", status |-> "running", results |-> 0, lastAt |-> 0]
    /\ ckptFiles = <<>> /\ begun = {}

Ticks == now < MaxClock /\ now' = now + 1 /\ UNCHANGED <<agent, ckptFiles, begun>>

Start ==
    /\ agent' = [agent EXCEPT !.state = "running", !.status = "running"]
    /\ UNCHANGED <<now, ckptFiles, begun>>

Stop(reason) ==
    /\ agent' = [agent EXCEPT !.state = reason, !.status = reason]
    /\ UNCHANGED <<now, ckptFiles, begun>>

\* set_error: reported as a failure of the progress as well.
SetError ==
    /\ agent' = [agent EXCEPT !.state = "failed", !.status = "failed"]
    /\ UNCHANGED <<now, ckptFiles, begun>>

\* update_progress, set_context and add_tool_result, in whatever state.
AddToolResult ==
    /\ agent.results < MaxSteps
    /\ agent' = [agent EXCEPT !.results = @ + 1]
    /\ UNCHANGED <<now, ckptFiles, begun>>

\* A file of the same second is written over, and is the newest then.
WriteCheckpoint(c) ==
    ckptFiles' = Append(Only(ckptFiles, {f \in Range(ckptFiles) : f.at # c.at}), c)

\* The file is opened for writing, which empties it, and dumped into: a value that does not
\* serialise raises half-way, and so does a full disk; the process may die there.
Outcomes == {"written", "unopened", "raised", "died"}

CreateCheckpoint(a, outcome) ==
    LET c == [at |-> now, state |-> a.state, results |-> a.results,
              whole |-> outcome = "written"] IN
    /\ IF outcome = "unopened" THEN UNCHANGED <<ckptFiles, begun>>
       ELSE WriteCheckpoint(c) /\ begun' = {c}
    /\ agent' = CASE outcome = "written" -> [a EXCEPT !.lastAt = now]
                  [] outcome = "died" -> FreshAgent
                  [] OTHER -> a
    /\ UNCHANGED now

Pause(outcome) ==
    CreateCheckpoint([agent EXCEPT !.state = "paused", !.status = "paused"], outcome)

CheckpointIfNeeded(outcome) ==
    now > agent.lastAt + Interval /\ CreateCheckpoint(agent, outcome)

\* Read by modification time.
Latest == Last(ckptFiles)

\* The checkpoint's state comes back, a pause too, and the progress says "running".  A file
\* that was cut raises here, and nothing changes.
Resume ==
    /\ ckptFiles # <<>> /\ Latest.whole
    /\ agent' = [agent EXCEPT !.state = Latest.state, !.status = "running",
                              !.results = Latest.results]
    /\ UNCHANGED <<now, ckptFiles, begun>>

\* Mutant: sorted the other way round, the oldest are kept.
KeepOldest(n) == SubSeq(ckptFiles, 1, Min({n, Len(ckptFiles)}))

KeepLast(n) == SubSeq(ckptFiles, Max({1, Len(ckptFiles) + 1 - n}), Len(ckptFiles))

CleanupOldCheckpoints(n) ==
    /\ Len(ckptFiles) > n
    /\ ckptFiles' = KeepLast(n)
    /\ UNCHANGED <<now, agent, begun>>

DeleteSessionCheckpoints ==
    /\ ckptFiles # <<>>
    /\ ckptFiles' = <<>> /\ begun' = {}
    /\ UNCHANGED <<now, agent>>

ProcessDies ==
    /\ agent' = FreshAgent
    /\ UNCHANGED <<now, ckptFiles, begun>>

CkptNext ==
    \/ Ticks \/ Start \/ SetError \/ AddToolResult \/ Resume
    \/ \E outcome \in Outcomes : Pause(outcome) \/ CheckpointIfNeeded(outcome)
    \/ \E reason \in {"completed", "failed"} : Stop(reason)
    \/ \E n \in 1..2 : CleanupOldCheckpoints(n)
    \/ DeleteSessionCheckpoints \/ ProcessDies

CkptSpec == CkptInit /\ [][CkptNext]_ckptVars

-----------------------------------------------------------------------------

CkptFile == [at : 0..now, state : AgentStates, results : 0..MaxSteps, whole : BOOLEAN]

CkptTypeOK ==
    /\ now \in 0..MaxClock
    /\ agent \in [state : AgentStates, status : AgentStates, results : 0..MaxSteps, lastAt : 0..now]
    /\ ckptFiles \in Seq(CkptFile)
    /\ begun \subseteq CkptFile

\* Two checkpoints of a second, cut ones, clean-ups and restarts in any order: what resume
\* opens is the last checkpoint that was begun.  It goes on from there, or raises if the
\* writing was cut; it never goes back to an older one unnoticed.
ResumesFromLatest == \A c \in begun : ckptFiles # <<>> /\ Latest = c

\* "automatic recovery from interruptions" (long_running_agent.py): while some checkpoint
\* is whole, resume can read the one it opens.  A death or an error while a file is written
\* leaves the newest one cut, and resume raises on it.
InterruptionsAreRecovered == (\E f \in Range(ckptFiles) : f.whole) => Latest.whole

=============================================================================
