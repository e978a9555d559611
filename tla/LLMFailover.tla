---------------------------- MODULE LLMFailover ----------------------------
(***************************************************************************)
(* runtime/llm_client.py: FailoverLLMClient and _FailoverStream.           *)
(*                                                                         *)
(* Requests of one event loop interleave at their awaits.  Each request is *)
(* a "call" (_request: get, post) or a "stream" (_FailoverStream).  What   *)
(* lies between two awaits is one action.  _primary_down_until is kept as  *)
(* the time left of the cooldown, in ticks: the code only ever compares it *)
(* with the present.  An endpoint's answer is abstracted to what the code  *)
(* tells apart: "ok" (any status below 500), "5xx", "transient" (one of    *)
(* _TRANSIENT_EXCEPTIONS), "other" (any other exception, or the caller's   *)
(* cancellation).                                                          *)
(***************************************************************************)
EXTENDS Naturals, FiniteSets

CONSTANTS
    Requests,     \* the coroutines that use the client
    Cooldown,     \* cooldown_seconds, in ticks
    CounterCap    \* bound: the two counters stop counting here

ASSUME FailoverAssumption ==
    /\ Cooldown \in Nat \ {0}
    /\ CounterCap \in Nat \ {0}

VARIABLES
    enabled,           \* _enabled, fixed by the constructor
    remaining,         \* max(0, _primary_down_until - now)
    activeIsFallback,  \* _active_is_fallback
    failoverCount,     \* _failover_count
    recoveryCount,     \* _recovery_count
    kind,              \* kind[r]: which entry point request r came through
    phase,             \* phase[r]: the await request r is suspended at
    caught,            \* history: the requests that were at the primary when the
                       \* current cooldown began
    served             \* history: the endpoint of the last successful request

core == <<enabled, remaining, activeIsFallback, failoverCount, recoveryCount>>
vars == <<enabled, remaining, activeIsFallback, failoverCount, recoveryCount,
          kind, phase, caught, served>>

Kinds == {"call", "stream"}
Answers == {"ok", "5xx", "transient", "other"}

\* The awaits of a request:
\*   plain     the primary, failover disabled
\*   direct    the fallback, chosen because the primary was cooling
\*   primary   the primary
\*   closing   __aexit__ of a primary stream that answered 5xx
\*   fallback  the fallback, after the primary failed
\*   open      a stream handed to the caller
Phases == {"idle", "plain", "direct", "primary", "closing", "fallback", "open"}

Init ==
    /\ enabled \in BOOLEAN
    /\ remaining = 0
    /\ activeIsFallback = FALSE
    /\ failoverCount = 0
    /\ recoveryCount = 0
    /\ kind = [r \in Requests |-> "call"]
    /\ phase = [r \in Requests |-> "idle"]
    /\ caught = {}
    /\ served = "none"

Bump(n) == IF n < CounterCap THEN n + 1 ELSE n

IsCooling == remaining > 0

\* A successful end: a stream stays open with the caller, a call is over.
Served(r) == IF kind[r] = "stream" THEN "open" ELSE "idle"

\* Mutant: each failure adds a cooldown to the one that runs.
MarkPrimaryDownAccumulates ==
    /\ remaining' = remaining + Cooldown
    /\ activeIsFallback' = TRUE
    /\ failoverCount' = IF activeIsFallback THEN failoverCount ELSE Bump(failoverCount)
    /\ caught' = {r \in Requests : phase[r] \in {"primary", "closing"}}
    /\ UNCHANGED <<enabled, recoveryCount>>

\* Mutant: was_up is not looked at, every failure counts as a failover.
MarkPrimaryDownCountsAll ==
    /\ remaining' = Cooldown
    /\ activeIsFallback' = TRUE
    /\ failoverCount' = Bump(failoverCount)
    /\ caught' = {r \in Requests : phase[r] \in {"primary", "closing"}}
    /\ UNCHANGED <<enabled, recoveryCount>>

MarkPrimaryDown ==
    /\ remaining' = Cooldown
    /\ activeIsFallback' = TRUE
    /\ failoverCount' = IF activeIsFallback THEN failoverCount ELSE Bump(failoverCount)
    /\ caught' = {r \in Requests : phase[r] \in {"primary", "closing"}}
    /\ UNCHANGED <<enabled, recoveryCount>>

\* Mutant: the running cooldown is not cleared.
MarkPrimaryRecoveredKeepsCooldown ==
    /\ remaining' = remaining
    /\ activeIsFallback' = FALSE
    /\ recoveryCount' = IF activeIsFallback THEN Bump(recoveryCount) ELSE recoveryCount
    /\ UNCHANGED <<enabled, failoverCount, caught>>

MarkPrimaryRecovered ==
    /\ remaining' = 0
    /\ activeIsFallback' = FALSE
    /\ recoveryCount' = IF activeIsFallback THEN Bump(recoveryCount) ELSE recoveryCount
    /\ caught' = {}
    /\ UNCHANGED <<enabled, failoverCount>>

\* Mutant: the flag is left to mark_primary_down alone.
MarkFallbackServedSilently ==
    UNCHANGED <<enabled, remaining, activeIsFallback, failoverCount, recoveryCount, caught>>

\* Mutant: a success of the fallback renews the cooldown.
MarkFallbackServedRenews ==
    /\ activeIsFallback' = TRUE
    /\ remaining' = IF IsCooling THEN Cooldown ELSE remaining
    /\ UNCHANGED <<enabled, failoverCount, recoveryCount, caught>>

\* _active_is_fallback = True, after the fallback answered.
MarkFallbackServed ==
    /\ activeIsFallback' = TRUE
    /\ UNCHANGED <<enabled, remaining, failoverCount, recoveryCount, caught>>

\* Mutant: the cooldown is not consulted.
IssueIgnoresCooldown(r, k) ==
    /\ phase[r] = "idle"
    /\ kind' = [kind EXCEPT ![r] = k]
    /\ phase' = [phase EXCEPT ![r] = IF ~enabled THEN "plain" ELSE "primary"]
    /\ caught' = caught \ {r}
    /\ UNCHANGED <<enabled, remaining, activeIsFallback, failoverCount, recoveryCount, served>>

\* Mutant: the switch is not consulted.
IssueIgnoresSwitch(r, k) ==
    /\ phase[r] = "idle"
    /\ kind' = [kind EXCEPT ![r] = k]
    /\ phase' = [phase EXCEPT ![r] = IF IsCooling THEN "direct" ELSE "primary"]
    /\ caught' = caught \ {r}
    /\ UNCHANGED <<enabled, remaining, activeIsFallback, failoverCount, recoveryCount, served>>

\* A caller starts a request; the route is chosen before the first await.
Issue(r, k) ==
    /\ phase[r] = "idle"
    /\ kind' = [kind EXCEPT ![r] = k]
    /\ phase' = [phase EXCEPT ![r] =
                    IF ~enabled THEN "plain" ELSE IF IsCooling THEN "direct" ELSE "primary"]
    /\ caught' = caught \ {r}
    /\ UNCHANGED <<core, served>>

\* Failover disabled: whatever the primary does is passed through.
PlainAnswer(r, a) ==
    /\ phase[r] = "plain"
    /\ IF a = "ok" \/ a = "5xx"
         THEN served' = "primary" /\ phase' = [phase EXCEPT ![r] = Served(r)]
         ELSE served' = served /\ phase' = [phase EXCEPT ![r] = "idle"]
    /\ UNCHANGED <<core, kind, caught>>

PrimaryOk(r) ==
    /\ phase[r] = "primary"
    /\ MarkPrimaryRecovered
    /\ phase' = [phase EXCEPT ![r] = Served(r)]
    /\ served' = "primary"
    /\ UNCHANGED kind

\* The primary is to be marked down.  A stream that did answer, with a 5xx, is
\* closed first, and that is an await of its own.
PrimaryFails(r, a) ==
    /\ phase[r] = "primary"
    /\ a \in {"5xx", "transient"}
    /\ IF kind[r] = "stream" /\ a = "5xx"
         THEN phase' = [phase EXCEPT ![r] = "closing"] /\ UNCHANGED <<core, caught>>
         ELSE MarkPrimaryDown /\ phase' = [phase EXCEPT ![r] = "fallback"]
    /\ UNCHANGED <<kind, served>>

\* Mutant: a failing stream goes on to the fallback, the primary stays up.
StreamClosedUnmarked(r) ==
    /\ phase[r] = "closing"
    /\ phase' = [phase EXCEPT ![r] = "fallback"]
    /\ UNCHANGED <<core, kind, caught, served>>

\* The 5xx stream is closed, or closing it failed like the primary does.
StreamClosed(r) ==
    /\ phase[r] = "closing"
    /\ MarkPrimaryDown
    /\ phase' = [phase EXCEPT ![r] = "fallback"]
    /\ UNCHANGED <<kind, served>>

\* An exception the client does not take for an outage leaves at once.
PrimaryRaises(r) ==
    /\ phase[r] \in {"primary", "closing"}
    /\ phase' = [phase EXCEPT ![r] = "idle"]
    /\ UNCHANGED <<core, kind, caught, served>>

\* Mutant: when the fallback fails as well, the request tries the primary again.
FallbackAnswerRetries(r, a) ==
    /\ phase[r] \in {"direct", "fallback"}
    /\ IF a = "ok"
         THEN /\ MarkFallbackServed
              /\ phase' = [phase EXCEPT ![r] = Served(r)]
              /\ served' = "fallback"
         ELSE /\ phase' = [phase EXCEPT ![r] = "primary"]
              /\ caught' = caught \union {r}
              /\ UNCHANGED <<core, served>>
    /\ UNCHANGED kind

\* The fallback answers.  _request raises its 5xx; the stream hands it over.
FallbackAnswer(r, a) ==
    /\ phase[r] \in {"direct", "fallback"}
    /\ IF a = "ok" \/ (a = "5xx" /\ kind[r] = "stream")
         THEN /\ MarkFallbackServed
              /\ phase' = [phase EXCEPT ![r] = Served(r)]
              /\ served' = "fallback"
         ELSE /\ phase' = [phase EXCEPT ![r] = "idle"]
              /\ UNCHANGED <<core, caught, served>>
    /\ UNCHANGED kind

\* The caller leaves its stream (_FailoverStream.__aexit__).
CloseStream(r) ==
    /\ phase[r] = "open"
    /\ phase' = [phase EXCEPT ![r] = "idle"]
    /\ UNCHANGED <<core, kind, caught, served>>

Tick ==
    /\ IsCooling
    /\ remaining' = remaining - 1
    /\ UNCHANGED <<enabled, activeIsFallback, failoverCount, recoveryCount,
                   kind, phase, caught, served>>

\* Some await of request r ends.
Progress(r) ==
    \/ PrimaryOk(r)
    \/ StreamClosed(r)
    \/ PrimaryRaises(r)
    \/ CloseStream(r)
    \/ \E a \in Answers : PlainAnswer(r, a) \/ PrimaryFails(r, a) \/ FallbackAnswer(r, a)

Next ==
    \/ Tick
    \/ \E r \in Requests : (\E k \in Kinds : Issue(r, k)) \/ Progress(r)

Spec == Init /\ [][Next]_vars

\* Every await of the client ends: httpx is given connect and read timeouts,
\* and the caller leaves the stream it opened.  Time passes.  Nobody is obliged
\* to issue a request.
FairSpec == Spec /\ WF_vars(Tick) /\ \A r \in Requests : WF_vars(Progress(r))

-----------------------------------------------------------------------------
(* Properties *)

\* The types of the variables; the cooldown never exceeds cooldown_seconds.
TypeOK ==
    /\ enabled \in BOOLEAN
    /\ remaining \in 0..Cooldown
    /\ activeIsFallback \in BOOLEAN
    /\ failoverCount \in 0..CounterCap
    /\ recoveryCount \in 0..CounterCap
    /\ kind \in [Requests -> Kinds]
    /\ phase \in [Requests -> Phases]
    /\ caught \subseteq Requests
    /\ served \in {"none", "primary", "fallback"}

\* base_url, model and is_on_fallback never name the primary while requests are
\* being sent past it: whatever order the answers of old and new requests come
\* in, a running cooldown and the reported endpoint agree.
CoolingIsReported == IsCooling => activeIsFallback

\* "While the primary is down, requests go straight to the fallback without
\* re-probing the primary": during a cooldown nobody waits for the primary but
\* requests that were there before it began.
NoProbeDuringCooldown ==
    IsCooling => \A r \in Requests : phase[r] \in {"primary", "closing"} => r \in caught

\* When base_url and model name the primary, no later success came from the
\* fallback: the half of the base_url docstring that holds.
PrimaryReportIsTrue == ~activeIsFallback => served # "fallback"

\* failover_count never runs ahead: every counted failover but the present one
\* has its counted recovery, however requests interleave.  (The converse does
\* not hold: a late answer of the fallback goes back to it uncounted.)
FailoversAreRecovered ==
    failoverCount <= recoveryCount + (IF activeIsFallback THEN 1 ELSE 0)

\* A client built without failover keeps no failover state and never waits on
\* the fallback.
DisabledIsPlain ==
    ~enabled => /\ remaining = 0 /\ ~activeIsFallback /\ failoverCount = 0
                /\ \A r \in Requests : phase[r] \in {"idle", "plain", "open"}

\* base_url: "URL of whichever endpoint served the most recent successful
\* request".  The code does not keep this (see the README).
FallbackReportIsTrue == activeIsFallback => served = "fallback"

\* Every request is answered or raises, and every opened stream is closed: a
\* request that is tried twice is not tried for ever.
RequestsEnd == \A r \in Requests : phase[r] # "idle" ~> phase[r] = "idle"

PrimaryMisbehaves ==
    \E r \in Requests : StreamClosed(r) \/ PrimaryRaises(r) \/ \E a \in Answers : PrimaryFails(r, a)

Issued == \E r \in Requests, k \in Kinds : Issue(r, k)

\* Once the primary serves every request it gets, and callers keep asking, the
\* client goes back to it and stays: no late answer of the fallback, no cooldown
\* that is never over, keeps it away.
ReturnsToPrimary ==
    (<>[][~PrimaryMisbehaves]_vars /\ []<><<Issued>>_vars) => <>[](~activeIsFallback)

\* Where the contract sees a request: a stream in its caller's hands no longer
\* concerns the primary or the fallback.
Place(p) ==
    CASE p \in {"primary", "closing", "plain"} -> "primary"
      [] p \in {"direct", "fallback"} -> "fallback"
      [] p \in {"idle", "open"} -> "idle"

PlaceOf == [r \in Requests |-> Place(phase[r])]

Contract == INSTANCE FailoverContract WITH down <- IsCooling, at <- PlaceOf

\* FailoverLLMClient does what FailoverContract says.
KeepsContract == Contract!CSpec
=============================================================================
