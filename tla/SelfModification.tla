--------------------------- MODULE SelfModification ---------------------------
(***************************************************************************)
(* runtime/self_modification.py: SelfModificationEngine.  A request to     *)
(* change a file is checked when it is submitted, carried out later, and   *)
(* rolled back with the content its author saved when it failed.           *)
(***************************************************************************)
EXTENDS Integers, FiniteSets

CONSTANTS
    Requests,     \* request ids
    Targets,      \* the files
    NoFile,      \* a file that is not there
    MaxRisk,      \* max_risk_level: 0 low, 1 medium, 2 high
    MaxSelfTests  \* bound: runs of the self-tests

ASSUME ModificationAssumption == MaxRisk \in 0..2 /\ NoFile \notin Requests /\ MaxSelfTests \in Nat

VARIABLES
    requests,     \* _requests of the engine in use
    contents,     \* what is in each file: "original", "broken", NoFile or who wrote it
    completed,    \* requests in _completed_modifications
    selfTests     \* _self_tests: how often each passed and failed

modificationVars == <<requests, contents, completed, selfTests>>

\* Code is given whole or as a patch; the five other kinds are written alike, and no
\* rollback is known for them.  A plan is none, one with the content to restore, or any other
\* dictionary: nobody looks into it before it is needed.
Forms == {"content", "patch", "other"}
NoPlan == [original |-> "none"]
Lacking == [original |-> "lacking"]
SelfTests == {"import_check", "file_access", "memory_persistence", "tool_execution"}

ModificationInit ==
    /\ requests = << >> /\ contents \in [Targets -> {"original", NoFile}]
    /\ completed = {} /\ selfTests = [t \in SelfTests |-> [passed |-> 0, failed |-> 0]]

Stored(id) == id \in DOMAIN requests

\* submit_modification: what is too risky or names a file of code that is not there is
\* rejected, and not stored.
Accepted(risk, form, target) ==
    risk <= MaxRisk /\ (form # "other" => contents[target] # NoFile)

\* The rollback plan is what the author read, now or before.
Submit(id, risk, form, target, plan) ==
    /\ Accepted(risk, form, target)
    /\ requests' = [i \in DOMAIN requests \union {id} |->
                      IF i = id THEN [form |-> form, target |-> target, plan |-> plan, status |-> "pending"]
                      ELSE requests[i]]
    /\ UNCHANGED <<contents, completed, selfTests>>

\* A write: it succeeds, the file cannot be opened, or it fails after the file was emptied.
WriteOutcomes == {"written", "refused", "broken"}
AfterWrite(content, outcome, old) ==
    IF outcome = "written" THEN content ELSE IF outcome = "broken" THEN "broken" ELSE old

\* The handler of each kind.  A patch needs the file, and changes it only if it finds its
\* place ("unmatched" if not); the other kinds leave a file that is not there alone.
Modified(r, id, outcome) ==
    LET old == contents[r.target] IN
    CASE r.form = "patch" /\ old = NoFile -> [fails |-> TRUE, content |-> old]
      [] outcome = "unmatched" \/ (r.form = "other" /\ old = NoFile) -> [fails |-> FALSE, content |-> old]
      [] OTHER -> [fails |-> outcome # "written", content |-> AfterWrite(id, outcome, old)]

\* What is written back: the content of a file of code, if the plan has it.
WritesBack(r) == r.form # "other" /\ r.plan \notin {NoPlan, Lacking}

\* Mutant: the status is set before the file is written.
RollbackClaimed(r, content, outcome) ==
    [status |-> IF r.plan = NoPlan THEN "failed" ELSE "rolled_back",
     content |-> IF WritesBack(r) THEN AfterWrite(r.plan.original, outcome, content) ELSE content]

\* _rollback_modification: a rollback that fails is logged, and a plan with nothing to write
\* succeeds.
RolledBack(r, content, outcome) ==
    [status |-> IF r.plan = NoPlan \/ (WritesBack(r) /\ outcome # "written") THEN "failed" ELSE "rolled_back",
     content |-> IF WritesBack(r) THEN AfterWrite(r.plan.original, outcome, content) ELSE content]

\* execute_modification: whatever the status is, also of a request that was carried out.
Execute(id, outcome) ==
    LET r == requests[id]
        did == Modified(r, id, outcome)
    IN
    /\ Stored(id) /\ (outcome = "unmatched" => r.form = "patch")
    /\ IF did.fails
       THEN \E rollback \in WriteOutcomes :
               LET undone == RolledBack(r, did.content, rollback) IN
               /\ requests' = [requests EXCEPT ![id].status = undone.status]
               /\ contents' = [contents EXCEPT ![r.target] = undone.content]
               /\ UNCHANGED completed
       ELSE /\ requests' = [requests EXCEPT ![id].status = "completed"]
            /\ contents' = [contents EXCEPT ![r.target] = did.content]
            /\ completed' = completed \union {id}
    /\ UNCHANGED selfTests

\* Somebody else removes or restores a file.
Edited(target, content) ==
    /\ content # contents[target]
    /\ contents' = [contents EXCEPT ![target] = content]
    /\ UNCHANGED <<requests, completed, selfTests>>

\* run_self_tests: each is tried, and one that raises has failed.
RunSelfTests(passing) ==
    /\ \A t \in SelfTests : selfTests[t].passed + selfTests[t].failed < MaxSelfTests
    /\ selfTests' = [t \in SelfTests |-> IF t \in passing THEN [selfTests[t] EXCEPT !.passed = @ + 1]
                                         ELSE [selfTests[t] EXCEPT !.failed = @ + 1]]
    /\ UNCHANGED <<requests, contents, completed>>

\* get_self_modification_engine for another root: the engine is replaced, and what the old
\* one knew is gone also when its root is asked for again.
OtherRoot ==
    /\ requests # << >> /\ requests' = << >> /\ completed' = {}
    /\ selfTests' = [t \in SelfTests |-> [passed |-> 0, failed |-> 0]]
    /\ UNCHANGED contents

ModificationNext ==
    \/ \E id \in Requests :
          \/ \E risk \in 0..2, form \in Forms, target \in Targets :
                \E plan \in {NoPlan, Lacking, [original |-> contents[target]], [original |-> "original"]} :
                    plan.original # NoFile /\ Submit(id, risk, form, target, plan)
          \/ \E outcome \in WriteOutcomes \union {"unmatched"} : Execute(id, outcome)
    \/ \E target \in Targets, content \in {"original", NoFile} : Edited(target, content)
    \* The first test imports nothing, so it cannot fail; the others fail alike.
    \/ \E failing \in {{}, {"file_access", "memory_persistence"}} : RunSelfTests(SelfTests \ failing)
    \/ OtherRoot

ModificationSpec == ModificationInit /\ [][ModificationNext]_modificationVars

-----------------------------------------------------------------------------
ModificationTypeOK ==
    /\ DOMAIN requests \subseteq Requests /\ completed \subseteq Requests
    /\ \A id \in DOMAIN requests : /\ requests[id].target \in Targets /\ requests[id].form \in Forms
                                   /\ requests[id].status \in {"pending", "completed", "failed", "rolled_back"}
    /\ \A target \in Targets : contents[target] \in Requests \union {"original", "broken", NoFile}

\* A request that becomes "rolled_back" had a plan.  If that held the content of a file of
\* code, the file is what its author had saved, also when the change broke it half-way, the
\* file was gone, or the first attempt to write the old content failed; if it did not, the
\* file is what it was before, or what the change broke.  And one that fails for good had no
\* plan, or its content could not be written.
RolledBackIsRestored ==
    [][\A id \in Requests \intersect DOMAIN requests \intersect DOMAIN requests' :
          LET r == requests'[id]
              becomes(status) == r.status = status /\ requests[id].status # status
          IN
          /\ becomes("rolled_back") =>
                /\ r.plan # NoPlan
                /\ IF WritesBack(r) THEN contents'[r.target] = r.plan.original
                   ELSE contents'[r.target] \in {contents[r.target], "broken"}
          /\ becomes("failed") => r.plan = NoPlan \/ WritesBack(r)]_modificationVars

\* self_modification.py:287: "Rollback a modification."  A request that reads "rolled_back" has
\* left its file as it was, or as its author had saved it.
RolledBackIsUndone ==
    [][\A id \in Requests \intersect DOMAIN requests \intersect DOMAIN requests' :
          LET r == requests'[id] IN
          r.status = "rolled_back" /\ requests[id].status # "rolled_back" =>
              contents'[r.target] \in {contents[r.target], r.plan.original}]_modificationVars
=============================================================================
