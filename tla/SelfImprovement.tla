--------------------------- MODULE SelfImprovement ---------------------------
(***************************************************************************)
(* self_improvement/engine.py without the optional openhands engine: what  *)
(* is learnt when a session ends is written to three files, one after the  *)
(* other, between two awaits: the meta-learning file is read, changed and  *)
(* rewritten, the benchmark of the session is replaced, and a line is      *)
(* appended to the experience.                                             *)
(***************************************************************************)
EXTENDS Integers, Sequences, FiniteSetsExt, Functions, Selection

CONSTANTS
    LearntSessions,   \* the sessions that end
    LearntModels,     \* the models they used
    Endings,          \* how they end, of those in Ended
    MaxLines,         \* bound: lines of experience, and sessions counted
    MaxTornWrites     \* bound: writes a process died in

ASSUME ImprovementAssumption == MaxLines \in Nat /\ MaxTornWrites \in Nat /\ IsFiniteSet(LearntModels)

VARIABLES
    meta,         \* the meta-learning file, or Torn
    benchmarks,   \* the benchmark of each session: Absent, Torn or its result
    experience,   \* the lines of the experience, each a record or Torn
    handling,     \* where the handler of each session is
    tornWrites,   \* writes a process died in
    relearnt      \* the meta-learning file was torn and started anew

improvementVars == <<meta, benchmarks, experience, handling, tornWrites, relearnt>>

Torn == [torn |-> TRUE]
Absent == [absent |-> TRUE]
NewMeta == [tasks |-> [m \in LearntModels |-> 0], successes |-> [m \in LearntModels |-> 0],
            total |-> 0, improvements |-> 0]

\* What a session brings: its score is in percent, and a failed session has none.
Sessions == [model : LearntModels, success : BOOLEAN, passed : {0, 1}, spec : BOOLEAN, failed : BOOLEAN]
Ended == {s \in Sessions : s.failed => ~s.success /\ s.passed = 0 /\ s.spec}

\* _evaluate, of all tests passed or none.
Score(s) == IF s.failed THEN 0 ELSE 50 * s.passed + (IF s.spec THEN 0 ELSE 30) + 20

ImprovementInit ==
    /\ meta = NewMeta /\ benchmarks = [s \in LearntSessions |-> Absent] /\ experience = <<>>
    /\ handling = [s \in LearntSessions |-> [at |-> "open"]] /\ tornWrites = 0 /\ relearnt = FALSE

\* on_session_completed and on_session_failed, to their first tick.
SessionEnds(s, what) ==
    /\ handling[s].at = "open"
    /\ handling' = [handling EXCEPT ![s] = [at |-> IF what.failed THEN "evaluated" ELSE "started", of |-> what]]
    /\ UNCHANGED <<meta, benchmarks, experience, tornWrites, relearnt>>

\* The second tick of a completed session.
Evaluated(s) ==
    /\ handling[s].at = "started"
    /\ handling' = [handling EXCEPT ![s].at = "evaluated"]
    /\ UNCHANGED <<meta, benchmarks, experience, tornWrites, relearnt>>

\* An emitter that raises ends the handler where it is.
TickFails(s) ==
    /\ handling[s].at \in {"started", "evaluated", "recorded"}
    /\ handling' = [handling EXCEPT ![s] = [at |-> "open"]]
    /\ UNCHANGED <<meta, benchmarks, experience, tornWrites, relearnt>>

(***************************************************************************)
(* The writes.                                                             *)
(***************************************************************************)

\* _record_meta_learning: a file that cannot be parsed is started anew.
Learnt(what) ==
    LET read == IF meta = Torn THEN NewMeta ELSE meta
        one(b) == IF b THEN 1 ELSE 0
    IN  [tasks |-> [read.tasks EXCEPT ![what.model] = @ + 1],
         successes |-> [read.successes EXCEPT ![what.model] = @ + one(what.success)],
         total |-> read.total + 1, improvements |-> read.improvements + one(Score(what) > 50)]

\* A line is appended to whatever the file ends with: after a torn line both are lost.
Appended(lines, line) ==
    IF lines # <<>> /\ Last(lines) = Torn THEN lines ELSE Append(lines, line)

\* Mutant: the experience is saved first.
WritesExperienceFirst(what) == IF what.failed THEN <<"experience", "meta">> ELSE <<"experience", "meta", "benchmark">>

\* The order of the writes; a failed session has no benchmark.
Writes(what) == IF what.failed THEN <<"meta", "experience">> ELSE <<"meta", "benchmark", "experience">>

Room == Len(experience) < MaxLines /\ (meta # Torn => meta.total < MaxLines)

\* What the files are when the writes in done are complete and the one in torn is not.
Written(s, done, torn) ==
    LET what == handling[s].of IN
    /\ meta' = IF "meta" \in torn THEN Torn ELSE IF "meta" \in done THEN Learnt(what) ELSE meta
    /\ relearnt' = (relearnt \/ (meta = Torn /\ "meta" \in done))
    /\ benchmarks' = IF "benchmark" \in torn THEN [benchmarks EXCEPT ![s] = Torn]
                     ELSE IF "benchmark" \in done THEN [benchmarks EXCEPT ![s] = [success |-> what.success]]
                     ELSE benchmarks
    /\ experience' = IF "experience" \in torn THEN Appended(experience, Torn)
                     ELSE IF "experience" \in done
                          THEN Appended(experience, [session |-> s, success |-> what.success, failed |-> what.failed])
                     ELSE experience

RecordSession(s) ==
    /\ handling[s].at = "evaluated" /\ Room
    /\ Written(s, Range(Writes(handling[s].of)), {})
    /\ handling' = [handling EXCEPT ![s].at = "recorded"]
    /\ UNCHANGED tornWrites

\* The last tick; the session may be prompted again and end again.
SessionLearnt(s) ==
    /\ handling[s].at = "recorded"
    /\ handling' = [handling EXCEPT ![s] = [at |-> "open"]]
    /\ UNCHANGED <<meta, benchmarks, experience, tornWrites, relearnt>>

\* The process dies after n of the writes of a session, or in the next one.
ImprovementCrash ==
    /\ \/ UNCHANGED <<meta, benchmarks, experience, tornWrites, relearnt>>
       \/ \E s \in LearntSessions, n \in 0..2, in \in BOOLEAN :
             /\ handling[s].at = "evaluated" /\ Room
             /\ n < Len(Writes(handling[s].of)) /\ (in => tornWrites < MaxTornWrites)
             /\ LET writes == Writes(handling[s].of) IN
                Written(s, Range(SubSeq(writes, 1, n)), IF in THEN {writes[n + 1]} ELSE {})
             /\ tornWrites' = tornWrites + (IF in THEN 1 ELSE 0)
    /\ handling' = [s \in LearntSessions |-> [at |-> "open"]]
    /\ handling' # handling

ImprovementNext ==
    \/ \E s \in LearntSessions :
          \/ \E what \in Endings \intersect Ended : SessionEnds(s, what)
          \/ Evaluated(s) \/ TickFails(s) \/ RecordSession(s) \/ SessionLearnt(s)
    \/ ImprovementCrash

ImprovementSpec == ImprovementInit /\ [][ImprovementNext]_improvementVars

-----------------------------------------------------------------------------
\* get_experience: what can be parsed, and of it the first top_k.
Readable(lines) == Only(lines, Range(lines) \ {Torn})
GetExperience(top_k) ==
    LET lines == Readable(experience) IN SubSeq(lines, 1, IF Len(lines) < top_k THEN Len(lines) ELSE top_k)

\* query_experience.
QueryExperience(success, top_k) ==
    LET loaded == GetExperience(2 * top_k)
        found == Only(loaded, {l \in Range(loaded) : l.success = success})
    IN  SubSeq(found, 1, IF Len(found) < top_k THEN Len(found) ELSE top_k)

\* get_learning_metrics: the model with the best average of successes, over all it did.
Rankings == IF meta = Torn THEN {} ELSE {m \in LearntModels : meta.tasks[m] > 0}

ImprovementTypeOK ==
    /\ meta # Torn => /\ meta.total = FoldSet(LAMBDA m, n : n + meta.tasks[m], 0, LearntModels)
                      /\ \A m \in LearntModels : meta.successes[m] <= meta.tasks[m]
                      /\ meta.improvements <= meta.total
                      /\ (Rankings = {}) = (meta.total = 0)
    /\ \A s \in LearntSessions : handling[s].at \in {"open", "started", "evaluated", "recorded"}
    /\ Len(experience) <= MaxLines /\ tornWrites \in 0..MaxTornWrites
    /\ \A success \in BOOLEAN, k \in 1..2 :
          Range(QueryExperience(success, k)) \subseteq Range(GetExperience(2 * k))

\* What is in the experience was counted by the meta-learning before, and a completed
\* session of it has a benchmark: across handlers that interleave, handlers that end at a
\* tick, crashes between two writes and crashes in one.  Only a torn meta-learning file,
\* which the next session starts anew, loses counts.
ExperienceIsCounted ==
    LET lines == Readable(experience) IN
    /\ meta # Torn /\ ~relearnt => Len(lines) <= meta.total
    /\ \A l \in Range(lines) : ~l.failed => benchmarks[l.session] # Absent

\* engine.py:402: get_experience loads recent experience records.
RecentIsLoaded == experience # <<>> /\ Last(experience) # Torn => Last(experience) \in Range(GetExperience(1))
=============================================================================
