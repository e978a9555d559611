------------------------------- MODULE Metabolism -------------------------------
(***************************************************************************)
(* metabolism.py: MetabolismEngine, which watches the GPU, the disk and    *)
(* the context, publishes a change of the level of alert once, and is      *)
(* asked by the runtime before a prompt.                                   *)
(***************************************************************************)
EXTENDS Integers, Sequences, FiniteSetsExt, Selection

CONSTANTS
    Readings,      \* records gpu, vram, power, disk: degrees and percents
    TokenCounts,   \* percents of the context window that are in use
    MaxPublished,  \* bound: events, and snapshots
    MaxPercent     \* bound: what is recorded as in use

ASSUME MetabolismAssumption ==
    MaxPublished \in Nat /\ MaxPercent \in Nat /\ TokenCounts \subseteq 0..MaxPercent

VARIABLES
    tokens,        \* _token_count, in percent of the window
    lastHealth,    \* _last_gpu_alert
    lastContext,   \* _last_context_alert
    published,     \* events on the bus
    metabolism_snapshots,     \* _metrics_history
    warned         \* resource.warning events the runtime stored

metabolismVars == <<tokens, lastHealth, lastContext, published, metabolism_snapshots, warned>>

Levels == <<"normal", "warning", "critical", "emergency">>
Rank(level) == CHOOSE n \in 1..4 : Levels[n] = level
Worst(alerts) == Levels[Max({1} \union {Rank(a) : a \in alerts})]

\* A query that fails reads as zero.
NoReading == [gpu |-> 0, vram |-> 0, power |-> 0, disk |-> 0]

MetabolismInit ==
    /\ tokens = 0 /\ lastHealth = "normal" /\ lastContext = "normal"
    /\ published = <<>> /\ metabolism_snapshots = 0 /\ warned = 0

Level(value, warning, critical) ==
    IF value >= critical THEN "critical" ELSE IF value >= warning THEN "warning" ELSE "normal"

\* assess_health: the worst of the alerts.
ResourceHealth(r) ==
    Worst({IF r.gpu >= 90 THEN "emergency" ELSE Level(r.gpu, 70, 85),
           Level(r.vram, 80, 90), Level(r.power, 95, 1000), Level(r.disk, 80, 90)})

\* Mutant: an alert is published only when it gets worse.
ChangedIfWorse(level, last) == Rank(level) > Rank(last)

\* Events are published on change.
Changed(level, last) == level # last

\* assess_health, called by _check_resources: the runtime stores a warning for an alert,
\* and one more for a GPU above 80 degrees.
AssessHealth(r) ==
    /\ Len(published) < MaxPublished /\ metabolism_snapshots < MaxPublished
    /\ published' = IF Changed(ResourceHealth(r), lastHealth) THEN Append(published, <<"resource.health", ResourceHealth(r)>>)
                    ELSE published
    /\ lastHealth' = ResourceHealth(r) /\ metabolism_snapshots' = metabolism_snapshots + 1
    /\ warned' = warned + (IF ResourceHealth(r) = "normal" THEN 0 ELSE 1) + (IF r.gpu > 80 THEN 1 ELSE 0)
    /\ UNCHANGED <<tokens, lastContext>>

\* ContextBudget.
ContextLevel(percent) == IF percent >= 95 THEN "emergency" ELSE Level(percent, 80, 90)
Recommended(level) == CASE level = "emergency" -> "reject" [] level = "critical" -> "compress"
                        [] level = "warning" -> "trim" [] OTHER -> "none"

UpdateContextBudget(percent) ==
    LET level == ContextLevel(percent) IN
    /\ Len(published) < MaxPublished
    /\ tokens' = percent /\ lastContext' = level
    /\ published' = IF level # lastContext THEN Append(published, <<"context", level, Recommended(level)>>) ELSE published
    /\ UNCHANGED <<lastHealth, metabolism_snapshots, warned>>

\* record_tokens: the same counter, and no threshold is looked at.
RecordTokens(percent) ==
    /\ tokens + percent <= MaxPercent /\ tokens' = tokens + percent
    /\ UNCHANGED <<lastHealth, lastContext, published, metabolism_snapshots, warned>>

MetabolismNext ==
    \/ \E r \in Readings \union {NoReading} : AssessHealth(r)
    \/ \E percent \in TokenCounts : UpdateContextBudget(percent) \/ RecordTokens(percent)

MetabolismSpec == MetabolismInit /\ [][MetabolismNext]_metabolismVars

-----------------------------------------------------------------------------
EventsOf(kind) == Only(published, {e \in Range(published) : e[1] = kind})
Announced(kind) == IF EventsOf(kind) = <<>> THEN "normal" ELSE Last(EventsOf(kind))[2]

MetabolismTypeOK ==
    /\ tokens \in 0..MaxPercent /\ {lastHealth, lastContext} \subseteq Range(Levels)
    /\ Len(published) <= MaxPublished /\ metabolism_snapshots <= MaxPublished /\ warned <= 2 * metabolism_snapshots

\* Who listens on the bus knows the level of the last assessment and of the last context
\* update: each change is published, to the better too, and none twice.
ListenersKnow ==
    /\ Announced("resource.health") = lastHealth /\ Announced("context") = lastContext
    /\ \A kind \in {"resource.health", "context"} :
          \A i \in 1..(Len(EventsOf(kind)) - 1) : EventsOf(kind)[i][2] # EventsOf(kind)[i + 1][2]

\* Tokens that are recorded outside an update change the level unnoticed.
ContextLevelIsKnown == Announced("context") = ContextLevel(tokens)
=============================================================================
