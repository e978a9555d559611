---------------------------- MODULE ImmuneSystem ----------------------------
(***************************************************************************)
(* runtime/immune_system: the detectors, the health score their threats    *)
(* weigh on, the responses, the memory of threats and the monitoring loop. *)
(* No detector and no response suspends, so a check is one step.           *)
(***************************************************************************)
EXTENDS Integers, Sequences, SequencesExt, FiniteSets, FiniteSetsExt

CONSTANTS
    ImmuneContexts, \* the contexts checked: records of the fields of QuietContext
    MaxEntries,     \* max_entries of the memory
    MaxResponses,   \* bound: responses taken
    MaxMonitors     \* bound: monitoring loops

\* ImmuneContext(): temp in degrees, vram and usage in percent, input what the prompt or
\* the tool call holds.
QuietContext == [temp |-> 0, vram |-> 0, usage |-> 0, loops |-> 0, repeats |-> 0,
                 errors |-> 0, degraded |-> 0, model |-> FALSE, input |-> "plain"]

ASSUME ImmuneAssumption ==
    /\ \A ctx \in ImmuneContexts : DOMAIN ctx = DOMAIN QuietContext
    /\ MaxEntries \in Nat \ {0} /\ MaxResponses \in Nat /\ MaxMonitors \in Nat

VARIABLES
    active,        \* _active_threats
    threats,       \* _threats of the memory, the last MaxEntries
    effectiveness, \* _response_effectiveness: how often each action resolved a category
    responses,     \* the length of _responses
    monitor        \* _running, and the monitoring loops alive

immuneVars == <<active, threats, effectiveness, responses, monitor>>

LOW == 0
MEDIUM == 1
HIGH == 2
CRITICAL == 3

Inputs == {"plain", "inject1", "inject2", "secret", "wipe", "download", "eval", "kill",
           "stop", "protected"}

Threat(category, severity) == [category |-> category, severity |-> severity, resolved |-> FALSE]
Raise(found, category, severity) == IF found THEN <<Threat(category, severity)>> ELSE <<>>

ThreatCategories ==
    {"prompt_injection", "context_overflow", "resource_exhaustion", "vram_oom", "loop_detected",
     "repetition", "performance_degradation", "self_degradation", "secret_exposure",
     "guardrail_violation", "inference_engine_kill", "model_switch_violation", "body_harm"}

PromptInjection(ctx) ==
    Raise(ctx.input \in {"inject1", "inject2"}, "prompt_injection",
          IF ctx.input = "inject2" THEN HIGH ELSE MEDIUM)

ContextCollapse(ctx) ==
    Raise(ctx.usage >= 90, "context_overflow", IF ctx.usage >= 95 THEN HIGH ELSE MEDIUM)

ResourceExhaustion(ctx) ==
    Raise(ctx.temp >= 70, "resource_exhaustion",
          IF ctx.temp >= 88 THEN CRITICAL ELSE IF ctx.temp >= 80 THEN HIGH ELSE MEDIUM)
    \o Raise(ctx.vram >= 95, "vram_oom", HIGH)

LoopDetection(ctx) ==
    Raise(ctx.loops >= 5, "loop_detected", IF ctx.loops >= 10 THEN HIGH ELSE MEDIUM)
    \o Raise(ctx.repeats >= 3, "repetition", MEDIUM)

PerformanceDegradation(ctx) ==
    Raise(ctx.errors >= 5, "performance_degradation", IF ctx.errors >= 10 THEN HIGH ELSE MEDIUM)

SelfDegradation(ctx) == Raise(ctx.degraded > 10, "self_degradation", HIGH)
SecretExposure(ctx) == Raise(ctx.input = "secret", "secret_exposure", HIGH)

\* A wipe of a system directory matches two of the patterns.
DangerousCommand(ctx) ==
    CASE ctx.input = "wipe" -> [i \in 1..2 |-> Threat("guardrail_violation", CRITICAL)]
      [] ctx.input = "download" -> <<Threat("guardrail_violation", HIGH)>>
      [] ctx.input = "eval" -> <<Threat("guardrail_violation", MEDIUM)>>
      [] OTHER -> <<>>

SelfModification(ctx) == Raise(ctx.input = "protected", "guardrail_violation", HIGH)
InferenceEngineProtection(ctx) == Raise(ctx.input = "kill", "inference_engine_kill", CRITICAL)
ModelFailover(ctx) == Raise(ctx.input = "stop", "model_switch_violation", HIGH)

BodyProtection(ctx) ==
    CASE ctx.input = "wipe" -> [i \in 1..2 |-> Threat("body_harm", CRITICAL)]
      [] ctx.input = "download" -> <<Threat("body_harm", HIGH)>>
      [] OTHER -> <<>>

\* The detectors in the order of their registration.
Detected(ctx) ==
    PromptInjection(ctx) \o ContextCollapse(ctx) \o ResourceExhaustion(ctx)
    \o LoopDetection(ctx) \o PerformanceDegradation(ctx) \o SelfDegradation(ctx)
    \o SecretExposure(ctx) \o DangerousCommand(ctx) \o SelfModification(ctx)
    \o InferenceEngineProtection(ctx) \o ModelFailover(ctx) \o BodyProtection(ctx)

\* The component scores, in 300ths.
GpuScore(ctx) ==
    300 - (IF ctx.temp >= 88 THEN 150 ELSE IF ctx.temp >= 80 THEN 90
           ELSE IF ctx.temp >= 70 THEN 45 ELSE 0)
        - (IF ctx.vram >= 95 THEN 90 ELSE IF ctx.vram >= 85 THEN 45 ELSE 0)

ContextScore(ctx) ==
    IF ctx.usage >= 95 THEN 90 ELSE IF ctx.usage >= 85 THEN 180
    ELSE IF ctx.usage >= 75 THEN 240 ELSE 300

LoopScore(ctx) ==
    300 - (IF ctx.loops >= 5 THEN 120 ELSE 0) - (IF ctx.repeats >= 3 THEN 90 ELSE 0)

InferenceScore(ctx) == (IF ctx.model THEN 140 ELSE 0) + (IF ctx.errors = 0 THEN 90 ELSE 0)

\* In tenths: a fifth for each degree of severity, at most four fifths.
Penalty(found) ==
    Min({8, FoldLeft(LAMBDA sum, t : sum + 2 * t.severity, 0, found)})

\* Mutant: the threats weigh in their own component only.
WeighedOnce(ctx, found) ==
    10 * (25 * GpuScore(ctx) + 20 * ContextScore(ctx) + 15 * LoopScore(ctx)
          + 20 * InferenceScore(ctx) + 20 * 30 * (10 - Penalty(found)))

\* The threats weigh in the component of their own and, again, on the whole; in 300000ths.
Overall(ctx, found) ==
    (25 * GpuScore(ctx) + 20 * ContextScore(ctx) + 15 * LoopScore(ctx)
     + 20 * InferenceScore(ctx) + 20 * 30 * (10 - Penalty(found))) * (10 - Penalty(found))

IsCritical(ctx, found) == Overall(ctx, found) < 150000

SelectAction(t) == CASE t.severity = CRITICAL -> "emergency_halt"
                     [] t.severity = HIGH -> "isolate_and_halt"
                     [] t.severity = MEDIUM -> "throttle_and_alert"
                     [] OTHER -> "log_and_monitor"
ThreatActions == {"log_and_monitor", "throttle_and_alert", "isolate_and_halt", "emergency_halt"}

LastEntries(s, n) == SubSeq(s, IF Len(s) > n THEN Len(s) - n + 1 ELSE 1, Len(s))
Remember(found) == LastEntries(threats \o found, MaxEntries)

\* A response and its resolution for each of them; no response says that it succeeded.
Resolve(found) ==
    /\ responses + Len(found) <= MaxResponses
    /\ responses' = responses + Len(found)
    /\ effectiveness' = [c \in ThreatCategories |-> [a \in ThreatActions |->
           effectiveness[c][a]
           + Cardinality({i \in DOMAIN found : found[i].category = c /\ SelectAction(found[i]) = a})]]

ImmuneInit ==
    /\ active = <<>> /\ threats = <<>> /\ responses = 0
    /\ effectiveness = [c \in ThreatCategories |-> [a \in ThreatActions |-> 0]]
    /\ monitor = [running |-> FALSE, alive |-> 0]

\* The threats of this check take the place of those of the last, whoever made it; they
\* are answered when the health they leave is critical.
CheckImmuneHealth(ctx) ==
    LET found == Detected(ctx)
        answered == [i \in DOMAIN found |-> [found[i] EXCEPT !.resolved = TRUE]]
    IN
    IF IsCritical(ctx, found)
      THEN Resolve(found) /\ threats' = Remember(answered) /\ active' = <<>>
      ELSE /\ threats' = Remember(found) /\ active' = found
           /\ UNCHANGED <<responses, effectiveness>>

CheckCalled(ctx) == CheckImmuneHealth(ctx) /\ UNCHANGED monitor

\* The active threats are the youngest of the memory.
RespondToThreats ==
    /\ active # <<>>
    /\ Resolve(active)
    /\ threats' = [i \in DOMAIN threats |->
           IF i > Len(threats) - Len(active) THEN [threats[i] EXCEPT !.resolved = TRUE]
           ELSE threats[i]]
    /\ active' = <<>>
    /\ UNCHANGED monitor

\* The SDK asks single detectors about a prompt, a context or a tool call, and takes a
\* response that the memory does not hear of; a tool call halted at one is not shown to
\* the next.
RespondInSdk(ctx) ==
    LET halts == \E i \in DOMAIN DangerousCommand(ctx) : DangerousCommand(ctx)[i].severity >= HIGH
        asked == IF ctx.input \in {"inject1", "inject2"} THEN PromptInjection(ctx)
                 ELSE IF ctx.usage >= 90 THEN ContextCollapse(ctx)
                 ELSE IF halts THEN <<DangerousCommand(ctx)[1]>>
                 ELSE DangerousCommand(ctx) \o SecretExposure(ctx) \o SelfModification(ctx)
    IN
    /\ asked # <<>>
    /\ responses + Len(asked) <= MaxResponses
    /\ responses' = responses + Len(asked)
    /\ UNCHANGED <<active, threats, effectiveness, monitor>>

\* Nothing asks whether a loop is already there: its task is forgotten.
StartImmuneMonitor ==
    /\ monitor.alive < MaxMonitors
    /\ monitor' = [running |-> TRUE, alive |-> monitor.alive + 1]
    /\ UNCHANGED <<active, threats, effectiveness, responses>>

StopImmuneMonitor ==
    /\ monitor.running
    /\ monitor' = [running |-> FALSE, alive |-> monitor.alive - 1]
    /\ UNCHANGED <<active, threats, effectiveness, responses>>

MonitorTurns ==
    /\ monitor.alive > 0
    /\ IF monitor.running
         THEN CheckImmuneHealth(QuietContext) /\ UNCHANGED monitor
         ELSE /\ monitor' = [monitor EXCEPT !.alive = @ - 1]
              /\ UNCHANGED <<active, threats, effectiveness, responses>>

ImmuneNext ==
    \/ \E ctx \in ImmuneContexts : CheckCalled(ctx) \/ RespondInSdk(ctx)
    \/ RespondToThreats
    \/ StartImmuneMonitor \/ StopImmuneMonitor \/ MonitorTurns

ImmuneSpec == ImmuneInit /\ [][ImmuneNext]_immuneVars

-----------------------------------------------------------------------------

Threats == [category : ThreatCategories, severity : LOW..CRITICAL, resolved : BOOLEAN]

\* The types of the immune system's state.
ImmuneTypeOK ==
    /\ active \in Seq(Threats)
    /\ threats \in Seq(Threats) /\ Len(threats) <= MaxEntries
    /\ effectiveness \in [ThreatCategories -> [ThreatActions -> 0..MaxResponses]]
    /\ responses \in 0..MaxResponses
    /\ monitor \in [running : BOOLEAN, alive : 0..MaxMonitors]

\* A check answers threats only through the health score: whatever the other scores, a
\* CRITICAL threat, or two HIGH ones at once, weigh enough to be answered at once.
CriticalIsAnswered ==
    /\ \A t \in ToSet(threats) : t.severity = CRITICAL => t.resolved
    /\ \A i, j \in DOMAIN active : active[i].severity = HIGH /\ active[j].severity = HIGH => i = j
=============================================================================
