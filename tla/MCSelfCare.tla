------------------------------- MODULE MCSelfCare -------------------------------
(***************************************************************************)
(* The parts by which the program looks after itself: services and threats *)
(* are watched and repaired, heat and resources measured, experience kept, *)
(* code changed and contexts made smaller.  They share no state, so one    *)
(* run takes their sum: the first state names the part that moves.         *)
(***************************************************************************)
EXTENDS AutoRecovery, SelfRepair, ImmuneSystem, Thermal, Metabolism, SelfImprovement,
        SelfModification, ContextCompaction, ContextConstraints

VARIABLE part

MCContexts ==
    LET Running == [QuietContext EXCEPT !.model = TRUE] IN
    {Running, [Running EXCEPT !.temp = 85, !.vram = 97], [Running EXCEPT !.usage = 92],
     [QuietContext EXCEPT !.loops = 10, !.repeats = 3, !.errors = 5],
     [Running EXCEPT !.input = "wipe"], [Running EXCEPT !.input = "secret"]}
MCReadings == {[gpu |-> 60, vram |-> 85, power |-> 50, disk |-> 50],
               [gpu |-> 83, vram |-> 10, power |-> 96, disk |-> 50],
               [gpu |-> 91, vram |-> 10, power |-> 50, disk |-> 91]}
MCEndings == {[model |-> "m1", success |-> TRUE, passed |-> 1, spec |-> TRUE, failed |-> FALSE],
              [model |-> "m1", success |-> FALSE, passed |-> 0, spec |-> FALSE, failed |-> FALSE],
              [model |-> "m1", success |-> FALSE, passed |-> 0, spec |-> TRUE, failed |-> TRUE]}
MCTokens == [c \in Critical \union Optional \union Contexts |-> IF c = "long" THEN 3 ELSE 1]

Init ==
    /\ part \in {"recovery", "repair", "immune", "thermal", "metabolism", "improvement",
                 "modification", "compaction", "constraints"}
    /\ RecInit /\ RepairInit /\ ImmuneInit /\ ThermalInit /\ MetabolismInit /\ ImprovementInit
    /\ ModificationInit /\ CompactionInit /\ ConstraintInit
    /\ part = "modification" \/ contents = [t \in Targets |-> NoFile]

careVars == <<part, recVars, repairVars, immuneVars, thermalVars, metabolismVars,
              improvementVars, modificationVars, compactionVars, constraintVars>>

RecPart ==
    /\ part = "recovery" /\ RecNext
    /\ UNCHANGED <<part, repairVars, immuneVars, thermalVars, metabolismVars, improvementVars,
                   modificationVars, compactionVars, constraintVars>>

RepairPart ==
    /\ part = "repair" /\ RepairNext
    /\ UNCHANGED <<part, recVars, immuneVars, thermalVars, metabolismVars, improvementVars,
                   modificationVars, compactionVars, constraintVars>>

ImmunePart ==
    /\ part = "immune" /\ ImmuneNext
    /\ UNCHANGED <<part, recVars, repairVars, thermalVars, metabolismVars, improvementVars,
                   modificationVars, compactionVars, constraintVars>>

ThermalPart ==
    /\ part = "thermal" /\ ThermalNext
    /\ UNCHANGED <<part, recVars, repairVars, immuneVars, metabolismVars, improvementVars,
                   modificationVars, compactionVars, constraintVars>>

MetabolismPart ==
    /\ part = "metabolism" /\ MetabolismNext
    /\ UNCHANGED <<part, recVars, repairVars, immuneVars, thermalVars, improvementVars,
                   modificationVars, compactionVars, constraintVars>>

ImprovementPart ==
    /\ part = "improvement" /\ ImprovementNext
    /\ UNCHANGED <<part, recVars, repairVars, immuneVars, thermalVars, metabolismVars,
                   modificationVars, compactionVars, constraintVars>>

ModificationPart ==
    /\ part = "modification" /\ ModificationNext
    /\ UNCHANGED <<part, recVars, repairVars, immuneVars, thermalVars, metabolismVars,
                   improvementVars, compactionVars, constraintVars>>

CompactionPart ==
    /\ part = "compaction" /\ CompactionNext
    /\ UNCHANGED <<part, recVars, repairVars, immuneVars, thermalVars, metabolismVars,
                   improvementVars, modificationVars, constraintVars>>

ConstraintPart ==
    /\ part = "constraints" /\ ConstraintNext
    /\ UNCHANGED <<part, recVars, repairVars, immuneVars, thermalVars, metabolismVars,
                   improvementVars, modificationVars, compactionVars>>

Next == RecPart \/ RepairPart \/ ImmunePart \/ ThermalPart \/ MetabolismPart \/
        ImprovementPart \/ ModificationPart \/ CompactionPart \/ ConstraintPart

Spec == Init /\ [][Next]_careVars

-----------------------------------------------------------------------------
\* Every part keeps its types and bounds.
CareTypeOK ==
    CASE part = "recovery" -> RecTypeOK
      [] part = "repair" -> RepairTypeOK
      [] part = "immune" -> ImmuneTypeOK
      [] part = "thermal" -> ThermalTypeOK
      [] part = "metabolism" -> MetabolismTypeOK
      [] part = "improvement" -> ImprovementTypeOK
      [] part = "modification" -> ModificationTypeOK
      [] part = "compaction" -> CompactionTypeOK
      [] part = "constraints" -> ConstraintTypeOK

\* What is broken is attended to, and what is said of it is true.  Overlapping checks
\* restart a service no more often than allowed (RestartsBounded) and leave none
\* "recovering" that nobody recovers (RecoveringIsTrue); the repairs that were counted are
\* those of the history (LedgersAgree), and a thermal repair that completes is cool
\* (CompletedIsCool); a CRITICAL threat is answered by the check that meets it
\* (CriticalIsAnswered).
FaultsAreAttended ==
    CASE part = "recovery" -> RestartsBounded /\ RecoveringIsTrue
      [] part = "repair" -> LedgersAgree /\ CompletedIsCool
      [] part = "immune" -> CriticalIsAnswered
      [] OTHER -> TRUE

\* What was learnt or summed up is not lost on the way.  Listeners know the last levels
\* (ListenersKnow); experience was counted before it was written (ExperienceIsCounted); no
\* event falls between the summaries and the events that are kept, when a compression
\* returns (NoGapAtTheCut).
KnowledgeIsKept ==
    CASE part = "metabolism" -> ListenersKnow
      [] part = "improvement" -> ExperienceIsCounted
      [] part = "compaction" -> NoGapAtTheCut
      [] OTHER -> TRUE

\* Corrections correct.  A GPU that is too hot is throttled at once, three degrees above the
\* target while one loop runs and six whatever runs (HotIsThrottled); a change that comes to
\* read "rolled_back" is undone as far as its plan says how (RolledBackIsRestored); and an
\* update that loses constraints records which (LossIsRecorded).
CorrectionsHold == HotIsThrottled /\ RolledBackIsRestored /\ LossIsRecorded
================================================================================
