----------------------------- MODULE SelfRepair -----------------------------
(***************************************************************************)
(* self_repair: the engine, its workflows and strategies, the effectiveness*)
(* tracker and the health monitor.  A repair works on a context that each  *)
(* attempt changes; it leaves the event loop only in its callbacks, where  *)
(* another repair may run.                                                 *)
(***************************************************************************)
EXTENDS Naturals, Sequences, FiniteSets, FiniteSetsExt, Selection

CONSTANTS
    RepairTasks,   \* callers of repair_threat
    Temps,         \* temperatures a context may have, in degrees
    Vrams,         \* shares of VRAM, in percent
    MissingKey,       \* a key the context does not have
    MaxRepairs,    \* bound: repairs recorded
    MaxLoops,      \* bound: monitoring loops of an owner
    MaxSnapshots   \* max_snapshots

ASSUME RepairAssumption ==
    /\ Temps \ {MissingKey} \subseteq Nat /\ Vrams \ {MissingKey} \subseteq 0..100
    /\ MissingKey \notin Nat /\ IsFiniteSet(RepairTasks)
    /\ MaxRepairs \in Nat /\ MaxLoops \in Nat /\ MaxSnapshots \in Nat \ {0}

VARIABLES
    repair,    \* the repairs in progress
    history,   \* _repair_history: [category, status]
    counts,    \* _by_category of the tracker
    loops,     \* monitoring loops, of the engine and of its health monitor
    repair_snapshots, \* _snapshots, by status
    calmed,    \* history: per thermal repair that completed, whether the context is safe
    unverified \* history: categories completed although the strategy's verify denies it

repairVars == <<repair, history, counts, loops, repair_snapshots, calmed, unverified>>

\* One category of threats per way in which strategies and workflows take them on.
Categories == {"resource_exhaustion", "vram_oom", "context_overflow", "self_degradation",
               "performance_degradation", "guardrail_violation", "unknown"}
Thermal == {"resource_exhaustion", "vram_oom"}
Severities == 0..3
Outcomes == {"completed", "degraded", "failed"}

\* The keys of a context that decide; crowded: the conversation fills 80% of its window.
RepairContexts == [temp : Temps, vram : Vrams, crowded : BOOLEAN]
Owners == {"engine", "monitor"}
None == [pc |-> "none", category |-> "unknown", status |-> "failed"]

RepairInit ==
    /\ repair = [t \in RepairTasks |-> None]
    /\ history = <<>>
    /\ counts = [c \in Categories |-> [o \in Outcomes |-> 0]]
    /\ loops = [o \in Owners |-> [running |-> FALSE, alive |-> 0]]
    /\ repair_snapshots = <<>>
    /\ calmed = {} /\ unverified = {}

\* The first strategy that takes the category at the severity; the registries' order.
HasStrategy(c, sev) ==
    /\ c # "unknown"
    /\ sev >= IF c \in {"self_degradation", "guardrail_violation"} THEN 2 ELSE 1

HasWorkflow(c, sev) ==
    \/ c = "resource_exhaustion" /\ sev >= 2
    \/ c = "context_overflow" /\ sev >= 1
    \/ c = "self_degradation" /\ sev >= 2

\* context.get with a default of 0, and the larger of a value and a floor.
Got(x) == IF x = MissingKey THEN 0 ELSE x
Down(x, by, floor) == Max({floor, IF x > by THEN x - by ELSE 0})

\* An attempt: how it ends, "ok", "no" or "raises", and the context after it.
Attempt(end, ctx) == [end |-> end, ctx |-> ctx]
Safe(ctx) == Got(ctx.temp) < 70 /\ Got(ctx.vram) < 85

\* Mutant: what was throttled is taken for cool.
CalmAnyway(ctx) == "ok"

Calm(ctx) == IF Safe(ctx) THEN "ok" ELSE "no"

\* Throttle, free VRAM, switch the model; a key that the context lacks and that was not
\* set on the way raises a KeyError.
CoolDown(ctx) ==
    LET hot == Got(ctx.temp) >= 70
        full == Got(ctx.vram) >= 85
        switch == Got(ctx.temp) >= 80 \/ Got(ctx.vram) >= 95
        one == [ctx EXCEPT !.temp = IF hot THEN Down(@, 20, 45) ELSE @,
                           !.vram = IF full THEN Down(@, 20, 50) ELSE @]
        two == [one EXCEPT !.temp = Down(@, 15, 45), !.vram = Down(@, 15, 40)]
    IN
    IF MissingKey \in {one.temp, one.vram} THEN Attempt("raises", one)
    ELSE IF switch THEN Attempt(Calm(two), two) ELSE Attempt(Calm(one), one)

\* The plan to compress is noted in the context; the conversation stays as long as it is.
CompressContext(ctx) == Attempt("ok", ctx)

\* The others set flags in the context, and succeed.
SetFlags(ctx) == Attempt("ok", ctx)

RunStrategy(c, sev, ctx) ==
    CASE ~HasStrategy(c, sev) -> Attempt("no", ctx)
      [] HasStrategy(c, sev) /\ c \in Thermal -> CoolDown(ctx)
      [] HasStrategy(c, sev) /\ c = "context_overflow" -> CompressContext(ctx)
      [] OTHER -> SetFlags(ctx)

\* The thermal workflow cools in three steps and looks at the temperature only.
RunWorkflow(c, sev, ctx) ==
    LET cooled == IF Got(ctx.temp) >= 80
                    THEN Down(Down(Down(ctx.temp, 25, 45), 10, 45), 15, 45)
                    ELSE Down(Got(ctx.temp), 25, 45)
    IN
    IF ~HasWorkflow(c, sev) THEN Attempt("no", ctx)
    ELSE IF c \in Thermal
           THEN Attempt(IF cooled < 70 THEN "ok" ELSE "no", [ctx EXCEPT !.temp = cooled])
           ELSE Attempt("ok", ctx)

\* The workflow, then the strategy in any case, and, when what counts of the two failed,
\* the strategy once more, on the context the first attempts left.
Lifecycle(c, sev, ctx, workflows) ==
    LET w == IF workflows THEN RunWorkflow(c, sev, ctx) ELSE Attempt("no", ctx)
        s == RunStrategy(c, sev, w.ctx)
        first == IF workflows THEN w.end ELSE s.end
    IN
    IF s.end = "raises" THEN s
    ELSE IF first = "ok" THEN Attempt("ok", s.ctx) ELSE RunStrategy(c, sev, s.ctx)

\* What the strategy's verify would say, which the engine does not ask.
Verify(c, ctx) == (c \in Thermal => Safe(ctx)) /\ (c = "context_overflow" => ~ctx.crowded)

\* How the repair of a threat of any severity, in any context, may end.
RepairEndings == {[category |-> c, result |-> Lifecycle(c, sev, ctx, workflows)] :
                c \in Categories, sev \in Severities, ctx \in RepairContexts, workflows \in BOOLEAN}

\* An exception leaves repair_threat: nothing is recorded.  A failure is degraded,
\* with the callbacks of degradation awaited; a success is awaited in its own.
RepairThreat(t, e) ==
    LET c == e.category
        ok == e.result.end = "ok"
    IN
    /\ repair[t].pc = "none" /\ e.result.end # "raises"
    /\ Len(history) + Cardinality({u \in RepairTasks : repair[u].pc # "none"}) < MaxRepairs
    /\ repair' = [repair EXCEPT ![t] =
           [pc |-> IF ok THEN "finalizing" ELSE "degrading", category |-> c,
            status |-> IF ok THEN "completed" ELSE "degraded"]]
    /\ calmed' = IF ok /\ c \in Thermal THEN calmed \union {Safe(e.result.ctx)} ELSE calmed
    /\ unverified' = IF ok /\ ~Verify(c, e.result.ctx) THEN unverified \union {c} ELSE unverified
    /\ UNCHANGED <<history, counts, loops, repair_snapshots>>

DegradationTold(t) ==
    /\ repair[t].pc = "degrading"
    /\ repair' = [repair EXCEPT ![t].pc = "finalizing"]
    /\ UNCHANGED <<history, counts, loops, repair_snapshots, calmed, unverified>>

\* Mutant: a degraded repair is not told to the tracker.
CountedUnlessDegraded(c, status) ==
    IF status = "degraded" THEN counts ELSE [counts EXCEPT ![c][status] = @ + 1]

Counted(c, status) == [counts EXCEPT ![c][status] = @ + 1]

\* The tracker hears of it, then the callbacks; a degraded one has none any more.
Finalize(t) ==
    LET r == repair[t] IN
    /\ r.pc = "finalizing"
    /\ counts' = Counted(r.category, r.status)
    /\ IF r.status = "degraded"
         THEN /\ history' = Append(history, [category |-> r.category, status |-> r.status])
              /\ repair' = [repair EXCEPT ![t] = None]
         ELSE /\ repair' = [repair EXCEPT ![t].pc = "reporting"]
              /\ UNCHANGED history
    /\ UNCHANGED <<loops, repair_snapshots, calmed, unverified>>

RepairReturns(t) ==
    LET r == repair[t] IN
    /\ r.pc = "reporting"
    /\ history' = Append(history, [category |-> r.category, status |-> r.status])
    /\ repair' = [repair EXCEPT ![t] = None]
    /\ UNCHANGED <<counts, loops, repair_snapshots, calmed, unverified>>

\* Nothing asks whether a loop is already there: its task is forgotten.
StartLoop(o) ==
    /\ loops[o].alive < MaxLoops
    /\ loops' = [loops EXCEPT ![o] = [running |-> TRUE, alive |-> @.alive + 1]]
    /\ UNCHANGED <<repair, history, counts, repair_snapshots, calmed, unverified>>

\* The last loop is cancelled; those before it end when they wake and find _running
\* false.
StopLoop(o) ==
    /\ loops[o].running
    /\ loops' = [loops EXCEPT ![o] = [running |-> FALSE, alive |-> @.alive - 1]]
    /\ UNCHANGED <<repair, history, counts, repair_snapshots, calmed, unverified>>

\* Scores of 0 or 1, weighed, and a penalty of a tenth for each active threat.
WeightedScore(good) ==
    LET weight == [gpu |-> 25, context |-> 20, loop_safety |-> 15, inference |-> 20,
                   threat_level |-> 20]
    IN MapThenSumSet(LAMBDA g : weight[g], good)

Status(good, threats) ==
    LET overall == WeightedScore(good) * (10 - Min({threats, 5})) IN
    IF overall >= 700 THEN "healthy" ELSE IF overall >= 500 THEN "warning" ELSE "critical"

Record(status) ==
    repair_snapshots' = SubSeq(Append(repair_snapshots, status),
                        Max({1, Len(repair_snapshots) + 2 - MaxSnapshots}), Len(repair_snapshots) + 1)

\* A loop checks with the scores it has by default.
LoopTurns(o) ==
    /\ loops[o].alive > 0
    /\ IF loops[o].running
         THEN Record("healthy") /\ UNCHANGED loops
         ELSE loops' = [loops EXCEPT ![o].alive = @ - 1] /\ UNCHANGED repair_snapshots
    /\ UNCHANGED <<repair, history, counts, calmed, unverified>>

\* What the scores and threats of a manual check can come to.
Statuses ==
    {Status(good, threats) :
        good \in SUBSET {"gpu", "context", "loop_safety", "inference", "threat_level"},
        threats \in {0, 2, 9}}

ManualHealthCheck(status) ==
    /\ Record(status)
    /\ UNCHANGED <<repair, history, counts, loops, calmed, unverified>>

RepairNext ==
    \/ \E t \in RepairTasks :
           \/ \E e \in RepairEndings : RepairThreat(t, e)
           \/ DegradationTold(t) \/ Finalize(t) \/ RepairReturns(t)
    \/ \E o \in Owners : StartLoop(o) \/ StopLoop(o) \/ LoopTurns(o)
    \/ \E status \in Statuses : ManualHealthCheck(status)

RepairSpec == RepairInit /\ [][RepairNext]_repairVars

-----------------------------------------------------------------------------

RepairTypeOK ==
    /\ repair \in [RepairTasks -> [pc : {"none", "degrading", "finalizing", "reporting"},
                                   category : Categories, status : Outcomes]]
    /\ history \in Seq([category : Categories, status : Outcomes])
    /\ counts \in [Categories -> [Outcomes -> Nat]]
    /\ loops \in [Owners -> [running : BOOLEAN, alive : 0..MaxLoops]]
    /\ repair_snapshots \in Seq({"healthy", "warning", "critical"}) /\ Len(repair_snapshots) <= MaxSnapshots
    /\ calmed \subseteq BOOLEAN /\ unverified \subseteq Categories

\* Repairs that overlap in their callbacks: what the tracker counted and what the
\* history holds differ by exactly the repairs whose callbacks are running.
LedgersAgree ==
    \A c \in Categories, o \in Outcomes :
        counts[c][o] = Len(Only(history, {[category |-> c, status |-> o]}))
            + Cardinality({t \in RepairTasks : repair[t].pc = "reporting" /\ repair[t].category = c
                                                /\ repair[t].status = o})

\* Up to three attempts change one context: a thermal repair that completes leaves
\* temperature and VRAM within the strategy's limits.
CompletedIsCool == calmed \subseteq {TRUE}

\* Expected from "Verification - confirm the repair worked".
CompletedIsVerified == unverified = {}
=============================================================================
