-------------------------- MODULE ContextConstraints --------------------------
(***************************************************************************)
(* runtime/context_engineering.py: ACEFramework, the one object of the     *)
(* process that holds the constraints of the session, compares them with   *)
(* those of the next update, and builds the text the model is given.       *)
(***************************************************************************)
EXTENDS Integers, Sequences, SequencesExt, FiniteSetsExt

CONSTANTS
    Critical,     \* constraints that say NEVER or MUST
    Optional,     \* the others
    TokensOf,     \* tokens of a constraint or a context: characters \div 4
    Contexts,     \* contexts
    MaxContext,   \* max_context_tokens
    KeptMetrics,  \* metrics kept: 100
    HealthWindow, \* metrics the health is judged by: 10
    MaxUpdates    \* bound: drifts and updates

ASSUME ConstraintAssumption ==
    /\ Critical \intersect Optional = {} /\ IsFiniteSet(Critical \union Optional)
    /\ TokensOf \in [Critical \union Optional \union Contexts -> Nat]
    /\ {MaxContext, KeptMetrics, HealthWindow, MaxUpdates} \subseteq Nat

VARIABLES
    constraints,   \* _session_constraints
    context,       \* _session_context
    curated,       \* _critical_constraints and _optional_constraints of the curator
    metrics,       \* _metrics, names and values
    drifts,        \* _drifts
    shown          \* what the last get_curated_context returned

constraintVars == <<constraints, context, curated, metrics, drifts, shown>>

Constraints == Critical \union Optional
NotShown == [constraints |-> {}, context |-> "none", asked |-> FALSE]

ConstraintInit ==
    /\ constraints = {} /\ context = "none" /\ curated = [critical |-> {}, optional |-> {}]
    /\ metrics = <<>> /\ drifts = <<>> /\ shown = NotShown

Tokens(S) == FoldSet(LAMBDA c, n : n + TokensOf[c], 0, S)

\* start_session: what the curator knows of earlier sessions stays, and so do the metrics.
StartSession(initial) ==
    /\ constraints' = initial /\ context' = "none"
    /\ curated' = [critical |-> curated.critical \union (initial \intersect Critical),
                   optional |-> curated.optional \union (initial \intersect Optional)]
    /\ shown' = NotShown
    /\ UNCHANGED <<metrics, drifts>>

\* detect_drift: the first that applies.  The overflow compares characters with tokens.
Drift(current, previous) ==
    IF previous \ current # {}
    THEN <<[type |-> "constraint_loss", lost |-> previous \ current]>>
    ELSE IF 40 * Tokens(current) > 9 * MaxContext THEN <<[type |-> "context_overflow", lost |-> {}]>>
    ELSE IF 2 * Cardinality(current) > 3 * Cardinality(previous) THEN <<[type |-> "repetition", lost |-> {}]>>
    ELSE <<>>

Newest(seq, n) == SubSeq(seq, IF Len(seq) > n THEN Len(seq) - n + 1 ELSE 1, Len(seq))

\* Mutant: the constraints are replaced before they are compared.
FoundAfter(new) == IF new = {} \/ constraints = {} THEN <<>> ELSE Drift(new, new)

\* What an update finds; no new constraints means the old ones stay.
Found(new) == IF new = {} \/ constraints = {} THEN <<>> ELSE Drift(new, constraints)

\* update_context.
UpdateContext(newContext, new) ==
    LET kept == IF new = {} THEN constraints ELSE new IN
    /\ Len(drifts) < MaxUpdates /\ Len(metrics) < 2 * MaxUpdates
    /\ drifts' = drifts \o Found(new)
    /\ context' = newContext /\ constraints' = kept
    /\ metrics' = Newest(metrics \o <<<<"context_tokens", TokensOf[newContext]>>,
                                      <<"constraint_count", Cardinality(kept)>>>>, KeptMetrics)
    /\ shown' = NotShown
    /\ UNCHANGED curated

\* assess_health: the average of the last values, whatever they measure, in hundredths.
\* A long context with many constraints is the healthiest.
ConstraintHealth ==
    LET last == Newest(metrics, HealthWindow)
        sum == FoldSeq(LAMBDA m, n : n + m[2], 0, last)
    IN  IF metrics = <<>> \/ 10 * sum >= 7 * Len(last) THEN "healthy"
        ELSE IF 2 * sum >= Len(last) THEN "warning" ELSE "critical"

\* curate_context: every critical constraint of the session, of the others as many as fit
\* in the order they come, and the context, without its short lines when there is little
\* room.
GetCuratedContext(order) ==
    LET critical == constraints \intersect curated.critical
        optional == constraints \ critical
        taken(i) == critical \union {order[j] : j \in 1..i}
        fits == {i \in 1..Len(order) : \A j \in 1..i : 10 * Tokens(taken(j - 1)) < 7 * MaxContext}
        n == Max({0} \union fits)
        room == 10 * Tokens(taken(n)) < 8 * MaxContext
    IN
    /\ Range(order) = optional /\ Len(order) = Cardinality(optional)
    /\ shown' = [constraints |-> taken(n), asked |-> TRUE,
                 context |-> IF context = "none" THEN "none" ELSE IF room THEN "whole" ELSE "compressed"]
    /\ UNCHANGED <<constraints, context, curated, metrics, drifts>>

ConstraintNext ==
    \/ \E initial \in SUBSET Constraints : StartSession(initial)
    \/ \E newContext \in Contexts, new \in SUBSET Constraints : UpdateContext(newContext, new)
    \/ \E order \in SetToAllKPermutations(Constraints) : GetCuratedContext(order)

ConstraintSpec == ConstraintInit /\ [][ConstraintNext]_constraintVars

-----------------------------------------------------------------------------
ConstraintTypeOK ==
    /\ constraints \subseteq Constraints /\ shown.constraints \subseteq constraints
    /\ curated.critical \subseteq Critical /\ curated.optional \subseteq Optional
    /\ Len(metrics) <= KeptMetrics /\ ConstraintHealth \in {"healthy", "warning", "critical"}

\* A constraint of the session gets lost only in an update that records which: whatever
\* else drifted, and however often the session was started anew before.
LossIsRecorded ==
    [][context' # "none" /\ constraints \ constraints' # {}
       => /\ drifts' # drifts /\ Last(drifts').lost = constraints \ constraints']_constraintVars

\* context_engineering.py:240: a critical constraint is always preserved.
CriticalIsShown == shown.asked => curated.critical \subseteq shown.constraints
=============================================================================
