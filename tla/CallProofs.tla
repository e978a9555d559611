------------------------------ MODULE CallProofs ------------------------------
(***************************************************************************)
(* Theorems about the calls a prompt makes out of the process: to the      *)
(* model (LLMFailover, for any set of requests, any cooldown and any       *)
(* counter bound) and to tools (ToolGate, for any set of tool ids).        *)
(*                                                                         *)
(* Of the client, safety is inductive conjunct by conjunct, given TypeOK   *)
(* and the two facts that tie the phases to the flags, so the              *)
(* strengthening is the conjunction itself.  The invariants of the gate    *)
(* that the runs check say nothing of a call that is under way, so each is *)
(* strengthened by what is known of it at every stage; the strengthenings  *)
(* are the parts of GateInv, and each part is one lemma.                   *)
(***************************************************************************)
EXTENDS LLMFailover, ToolGate, TLAPS

\* The types hold initially and every action keeps them.
LEMMA InitTyped == Init => TypeOK
<1> SUFFICES ASSUME Init PROVE TypeOK
  OBVIOUS
<1>1. /\ remaining \in 0..Cooldown
      /\ failoverCount \in 0..CounterCap
      /\ recoveryCount \in 0..CounterCap
  BY FailoverAssumption DEF FailoverAssumption, Init
<1>2. kind \in [Requests -> Kinds] /\ phase \in [Requests -> Phases]
  BY DEF Init, Kinds, Phases
<1>3. enabled \in BOOLEAN /\ activeIsFallback \in BOOLEAN
  BY DEF Init
<1>4. caught \subseteq Requests /\ served \in {"none", "primary", "fallback"}
  BY DEF Init
<1> QED
  BY <1>1, <1>2, <1>3, <1>4 DEF TypeOK

\* The bounded increment stays within its bound.
LEMMA BumpTyped == ASSUME NEW n \in 0..CounterCap PROVE Bump(n) \in 0..CounterCap
  BY FailoverAssumption DEF FailoverAssumption, Bump

\* One step keeps the types.
LEMMA StepTyped == TypeOK /\ [Next]_vars => TypeOK'
<1> SUFFICES ASSUME TypeOK, [Next]_vars PROVE TypeOK'
  OBVIOUS
<1> USE FailoverAssumption DEF FailoverAssumption, TypeOK
<1>1. CASE Tick
  BY <1>1 DEF Tick, IsCooling
<1>2. ASSUME NEW r \in Requests, NEW k \in Kinds, Issue(r, k) PROVE TypeOK'
  BY <1>2 DEF Issue, Phases, core
<1>3. ASSUME NEW r \in Requests, NEW a \in Answers, PlainAnswer(r, a) PROVE TypeOK'
  BY <1>3 DEF PlainAnswer, Phases, Served, core
<1>4. ASSUME NEW r \in Requests, PrimaryOk(r) PROVE TypeOK'
  <2>1. recoveryCount' \in 0..CounterCap
    BY <1>4, BumpTyped DEF PrimaryOk, MarkPrimaryRecovered
  <2>2. phase' \in [Requests -> Phases]
    BY <1>4 DEF PrimaryOk, Phases, Served
  <2>3. remaining' \in 0..Cooldown /\ caught' \subseteq Requests
    BY <1>4 DEF PrimaryOk, MarkPrimaryRecovered
  <2> QED
    BY <1>4, <2>1, <2>2, <2>3 DEF PrimaryOk, MarkPrimaryRecovered
<1>5. ASSUME NEW r \in Requests, NEW a \in Answers, PrimaryFails(r, a) PROVE TypeOK'
  <2>1. failoverCount' \in 0..CounterCap
    BY <1>5, BumpTyped DEF PrimaryFails, MarkPrimaryDown, core
  <2>2. phase' \in [Requests -> Phases]
    BY <1>5 DEF PrimaryFails, Phases
  <2>3. remaining' \in 0..Cooldown /\ caught' \subseteq Requests
    BY <1>5 DEF PrimaryFails, MarkPrimaryDown, core
  <2> QED
    BY <1>5, <2>1, <2>2, <2>3 DEF PrimaryFails, MarkPrimaryDown, core
<1>6. ASSUME NEW r \in Requests, StreamClosed(r) PROVE TypeOK'
  BY <1>6, BumpTyped DEF StreamClosed, MarkPrimaryDown, Phases
<1>7. ASSUME NEW r \in Requests, PrimaryRaises(r) PROVE TypeOK'
  BY <1>7 DEF PrimaryRaises, Phases, core
<1>8. ASSUME NEW r \in Requests, NEW a \in Answers, FallbackAnswer(r, a) PROVE TypeOK'
  BY <1>8 DEF FallbackAnswer, MarkFallbackServed, Phases, Served, core
<1>9. ASSUME NEW r \in Requests, CloseStream(r) PROVE TypeOK'
  BY <1>9 DEF CloseStream, Phases, core
<1>10. CASE UNCHANGED vars
  BY <1>10 DEF vars
<1> QED
  BY <1>1, <1>2, <1>3, <1>4, <1>5, <1>6, <1>7, <1>8, <1>9, <1>10 DEF Next, Progress

\* Every variable of the client keeps its type, in particular the cooldown never
\* exceeds cooldown_seconds, however many failures add up.
THEOREM TypeCorrect == Spec => []TypeOK
  BY InitTyped, StepTyped, PTL DEF Spec

-----------------------------------------------------------------------------

\* What one step keeps: the five safety invariants together.
SafetyInv ==
    /\ CoolingIsReported
    /\ NoProbeDuringCooldown
    /\ PrimaryReportIsTrue
    /\ FailoversAreRecovered
    /\ DisabledIsPlain

\* The first state is safe.
LEMMA InitSafe == Init => SafetyInv
  BY DEF Init, SafetyInv, CoolingIsReported, NoProbeDuringCooldown, PrimaryReportIsTrue,
         FailoversAreRecovered, DisabledIsPlain, IsCooling

\* A counted failover is the only thing that raises failoverCount, and it turns
\* the flag on; the flag is turned off by a counted recovery only.
LEMMA AccountKept ==
  ASSUME TypeOK, FailoversAreRecovered, [Next]_vars
  PROVE  FailoversAreRecovered'
<1> USE FailoverAssumption DEF FailoverAssumption, TypeOK, FailoversAreRecovered
<1>1. CASE MarkPrimaryDown
  BY <1>1 DEF MarkPrimaryDown, Bump
<1>2. CASE MarkPrimaryRecovered
  BY <1>2 DEF MarkPrimaryRecovered, Bump
<1>3. CASE UNCHANGED <<activeIsFallback, failoverCount, recoveryCount>>
  BY <1>3
<1>4. CASE MarkFallbackServed
  BY <1>4 DEF MarkFallbackServed
<1>5. \/ MarkPrimaryDown \/ MarkPrimaryRecovered \/ MarkFallbackServed
      \/ UNCHANGED <<activeIsFallback, failoverCount, recoveryCount>>
  BY DEF Next, Progress, Tick, Issue, PlainAnswer, PrimaryOk, PrimaryFails, StreamClosed,
         PrimaryRaises, FallbackAnswer, CloseStream, vars, core
<1> QED
  BY <1>1, <1>2, <1>3, <1>4, <1>5

\* The flag, the cooldown and the last success move together.
LEMMA ReportsKept ==
  ASSUME TypeOK, CoolingIsReported, PrimaryReportIsTrue, [Next]_vars
  PROVE  CoolingIsReported' /\ PrimaryReportIsTrue'
<1> USE DEF CoolingIsReported, PrimaryReportIsTrue, IsCooling, TypeOK
<1>1. CASE Tick
  BY <1>1 DEF Tick
<1>2. ASSUME NEW r \in Requests, PrimaryOk(r)
      PROVE  CoolingIsReported' /\ PrimaryReportIsTrue'
  BY <1>2 DEF PrimaryOk, MarkPrimaryRecovered
<1>3. ASSUME NEW r \in Requests, NEW a \in Answers,
             PrimaryFails(r, a) \/ StreamClosed(r) \/ FallbackAnswer(r, a)
      PROVE  CoolingIsReported' /\ PrimaryReportIsTrue'
  BY <1>3 DEF PrimaryFails, StreamClosed, FallbackAnswer, MarkPrimaryDown,
              MarkFallbackServed, core
<1>4. ASSUME NEW r \in Requests, NEW a \in Answers, NEW k \in Kinds,
             Issue(r, k) \/ PlainAnswer(r, a) \/ PrimaryRaises(r) \/ CloseStream(r)
      PROVE  CoolingIsReported' /\ PrimaryReportIsTrue'
  BY <1>4 DEF Issue, PlainAnswer, PrimaryRaises, CloseStream, core
<1>5. CASE UNCHANGED vars
  BY <1>5 DEF vars
<1>6. "ok" \in Answers /\ "call" \in Kinds
  BY DEF Answers, Kinds
<1> QED
  BY <1>1, <1>2, <1>3, <1>4, <1>5, <1>6 DEF Next, Progress

\* Without failover no request reaches a phase that touches the state.
LEMMA DisabledKept ==
  ASSUME TypeOK, DisabledIsPlain, [Next]_vars
  PROVE  DisabledIsPlain'
<1> USE DEF DisabledIsPlain, TypeOK
<1>1. CASE Tick
  BY <1>1 DEF Tick, IsCooling
<1>2. ASSUME NEW r \in Requests, NEW k \in Kinds, Issue(r, k) PROVE DisabledIsPlain'
  BY <1>2 DEF Issue, core
<1>3. ASSUME NEW r \in Requests, NEW a \in Answers, PlainAnswer(r, a) PROVE DisabledIsPlain'
  BY <1>3 DEF PlainAnswer, Served, core
<1>4. ASSUME NEW r \in Requests, NEW a \in Answers,
             \/ PrimaryOk(r) \/ PrimaryFails(r, a) \/ StreamClosed(r)
             \/ PrimaryRaises(r) \/ FallbackAnswer(r, a)
      PROVE  DisabledIsPlain'
  <2>1. phase[r] \notin {"idle", "plain", "open"}
    BY <1>4 DEF PrimaryOk, PrimaryFails, StreamClosed, PrimaryRaises, FallbackAnswer
  <2>2. enabled
    BY <2>1
  <2>3. enabled' = enabled
    BY <1>4 DEF PrimaryOk, PrimaryFails, StreamClosed, PrimaryRaises, FallbackAnswer,
                MarkPrimaryDown, MarkPrimaryRecovered, MarkFallbackServed, core
  <2> QED
    BY <2>2, <2>3
<1>5. ASSUME NEW r \in Requests, CloseStream(r) PROVE DisabledIsPlain'
  BY <1>5 DEF CloseStream, core
<1>6. CASE UNCHANGED vars
  BY <1>6 DEF vars
<1>7. "ok" \in Answers
  BY DEF Answers
<1> QED
  BY <1>1, <1>2, <1>3, <1>4, <1>5, <1>6, <1>7 DEF Next, Progress

\* Marking the primary down records who waits for it; nobody joins them until
\* the cooldown is over.
LEMMA ProbesKept ==
  ASSUME TypeOK, NoProbeDuringCooldown, [Next]_vars
  PROVE  NoProbeDuringCooldown'
<1> USE DEF NoProbeDuringCooldown, IsCooling, TypeOK
<1>1. CASE Tick
  BY <1>1 DEF Tick
<1>2. ASSUME NEW r \in Requests, NEW k \in Kinds, Issue(r, k) PROVE NoProbeDuringCooldown'
  BY <1>2 DEF Issue, core
<1>3. ASSUME NEW r \in Requests, NEW a \in Answers, PlainAnswer(r, a)
      PROVE  NoProbeDuringCooldown'
  BY <1>3 DEF PlainAnswer, Served, core
<1>4. ASSUME NEW r \in Requests, PrimaryOk(r) PROVE NoProbeDuringCooldown'
  BY <1>4 DEF PrimaryOk, MarkPrimaryRecovered
<1>5. ASSUME NEW r \in Requests, NEW a \in Answers, PrimaryFails(r, a)
      PROVE  NoProbeDuringCooldown'
  BY <1>5 DEF PrimaryFails, MarkPrimaryDown, core
<1>6. ASSUME NEW r \in Requests, StreamClosed(r) PROVE NoProbeDuringCooldown'
  BY <1>6 DEF StreamClosed, MarkPrimaryDown
<1>7. ASSUME NEW r \in Requests, PrimaryRaises(r) \/ CloseStream(r)
      PROVE  NoProbeDuringCooldown'
  BY <1>7 DEF PrimaryRaises, CloseStream, core
<1>8. ASSUME NEW r \in Requests, NEW a \in Answers, FallbackAnswer(r, a)
      PROVE  NoProbeDuringCooldown'
  BY <1>8 DEF FallbackAnswer, MarkFallbackServed, Served, core
<1>9. CASE UNCHANGED vars
  BY <1>9 DEF vars
<1> QED
  BY <1>1, <1>2, <1>3, <1>4, <1>5, <1>6, <1>7, <1>8, <1>9 DEF Next, Progress

\* The five invariants of the client hold in every state: what base_url reports
\* agrees with the routing, no new request probes a primary that is down, and
\* the counters account for each other.
THEOREM Safety == Spec => []SafetyInv
<1>1. TypeOK /\ SafetyInv /\ [Next]_vars => SafetyInv'
  BY AccountKept, ReportsKept, DisabledKept, ProbesKept DEF SafetyInv
<1> QED
  BY InitSafe, TypeCorrect, <1>1, PTL DEF Spec

\* Each of them on its own, as the runs check them.
THEOREM CoolingIsAlwaysReported == Spec => []CoolingIsReported
<1>1. SafetyInv => CoolingIsReported
  BY DEF SafetyInv
<1> QED
  BY Safety, <1>1, PTL

\* No request is sent to a primary that is cooling down.
THEOREM NeverProbesDuringCooldown == Spec => []NoProbeDuringCooldown
<1>1. SafetyInv => NoProbeDuringCooldown
  BY DEF SafetyInv
<1> QED
  BY Safety, <1>1, PTL

\* failover_count is at most recovery_count plus the failover in progress.
THEOREM FailoversAreAlwaysRecovered == Spec => []FailoversAreRecovered
<1>1. SafetyInv => FailoversAreRecovered
  BY DEF SafetyInv
<1> QED
  BY Safety, <1>1, PTL

\* A report that names the primary is never older than a success of the fallback.
THEOREM PrimaryIsReportedTruly == Spec => []PrimaryReportIsTrue
<1>1. SafetyInv => PrimaryReportIsTrue
  BY DEF SafetyInv
<1> QED
  BY Safety, <1>1, PTL

\* Without failover the client is a plain one, for ever.
THEOREM DisabledStaysPlain == Spec => []DisabledIsPlain
<1>1. SafetyInv => DisabledIsPlain
  BY DEF SafetyInv
<1> QED
  BY Safety, <1>1, PTL

-----------------------------------------------------------------------------

\* A request that changes its phase changes its own place only.
LEMMA PlaceMoves ==
  ASSUME TypeOK, NEW r \in Requests, NEW p \in Phases,
         phase' = [phase EXCEPT ![r] = p]
  PROVE  PlaceOf' = [PlaceOf EXCEPT ![r] = Place(p)]
<1>1. ASSUME NEW q \in Requests
      PROVE  PlaceOf'[q] = [PlaceOf EXCEPT ![r] = Place(p)][q]
  BY DEF TypeOK, PlaceOf
<1> QED
  BY <1>1 DEF PlaceOf

\* The initial states are initial states of the contract.
LEMMA InitRefines == Init => Contract!CInit
  BY DEF Init, Contract!CInit, IsCooling, PlaceOf, Place

\* A request that leaves the primary or the fallback, as long as nothing else
\* the contract sees changes, is a Finish.
LEMMA EndIsFinish ==
  ASSUME TypeOK, NEW r \in Requests, NEW p \in {"idle", "open"},
         phase[r] \notin {"idle", "open"},
         phase' = [phase EXCEPT ![r] = p],
         IsCooling' = IsCooling
  PROVE  Contract!CNext
<1>1. PlaceOf' = [PlaceOf EXCEPT ![r] = "idle"]
  <2>1. p \in Phases /\ Place(p) = "idle"
    BY DEF Phases, Place
  <2> QED
    BY <2>1, PlaceMoves
<1>2. PlaceOf[r] # "idle"
  BY DEF TypeOK, Phases, PlaceOf, Place
<1>3. Contract!Finish(r)
  BY <1>1, <1>2 DEF Contract!Finish
<1> QED
  BY <1>3 DEF Contract!CNext

\* Going from the primary to the fallback while marking the primary down is a
\* Trip.
LEMMA FailureIsTrip ==
  ASSUME TypeOK, NEW r \in Requests, phase[r] \in {"primary", "closing"},
         phase' = [phase EXCEPT ![r] = "fallback"], MarkPrimaryDown
  PROVE  Contract!CNext
<1>1. PlaceOf' = [PlaceOf EXCEPT ![r] = "fallback"]
  <2>1. "fallback" \in Phases /\ Place("fallback") = "fallback"
    BY DEF Phases, Place
  <2> QED
    BY <2>1, PlaceMoves
<1>2. PlaceOf[r] = "primary"
  BY DEF PlaceOf, Place
<1>3. IsCooling' = TRUE
  BY FailoverAssumption DEF FailoverAssumption, IsCooling, MarkPrimaryDown
<1>4. Contract!Trip(r)
  BY <1>1, <1>2, <1>3 DEF Contract!Trip
<1> QED
  BY <1>4 DEF Contract!CNext

\* Each step of the client is a step of the contract or changes nothing the
\* contract sees.
LEMMA StepRefines ==
  ASSUME TypeOK, DisabledIsPlain, [Next]_vars
  PROVE  [Contract!CNext]_(Contract!cvars)
<1>1. CASE Tick
  <2>1. PlaceOf' = PlaceOf
    BY <1>1 DEF Tick, PlaceOf
  <2>2. CASE remaining = 1
    <3>1. Contract!Expire
      BY <1>1, <2>1, <2>2 DEF Tick, Contract!Expire, IsCooling
    <3> QED
      BY <3>1 DEF Contract!CNext
  <2>3. CASE remaining # 1
    BY <1>1, <2>1, <2>3 DEF Tick, Contract!cvars, IsCooling, TypeOK
  <2> QED
    BY <2>2, <2>3
<1>2. ASSUME NEW r \in Requests, NEW k \in Kinds, Issue(r, k) PROVE Contract!CNext
  <2> DEFINE p == IF ~enabled THEN "plain" ELSE IF IsCooling THEN "direct" ELSE "primary"
  <2>1. PlaceOf' = [PlaceOf EXCEPT ![r] = Place(p)]
    <3>1. p \in Phases /\ phase' = [phase EXCEPT ![r] = p]
      BY <1>2 DEF Issue, Phases
    <3> HIDE DEF p
    <3> QED
      BY <3>1, PlaceMoves
  <2>2. Place(p) = IF IsCooling THEN "fallback" ELSE "primary"
    BY DEF Place, DisabledIsPlain, IsCooling
  <2>3. PlaceOf[r] = "idle" /\ IsCooling' = IsCooling
    BY <1>2 DEF Issue, core, IsCooling, PlaceOf, Place
  <2>4. Contract!Route(r)
    BY <2>1, <2>2, <2>3 DEF Contract!Route
  <2> QED
    BY <2>4 DEF Contract!CNext
<1>3. ASSUME NEW r \in Requests, NEW a \in Answers, PlainAnswer(r, a) PROVE Contract!CNext
  <2>1. /\ phase[r] = "plain"
        /\ IsCooling' = IsCooling
        /\ phase' = [phase EXCEPT ![r] = "idle"] \/ phase' = [phase EXCEPT ![r] = "open"]
    BY <1>3 DEF PlainAnswer, Served, core, IsCooling
  <2> QED
    BY <2>1, EndIsFinish
<1>4. ASSUME NEW r \in Requests, PrimaryOk(r) PROVE Contract!CNext
  <2>1. PlaceOf' = [PlaceOf EXCEPT ![r] = "idle"]
    <3>1. Served(r) \in Phases /\ Place(Served(r)) = "idle"
      BY DEF Phases, Place, Served
    <3>2. phase' = [phase EXCEPT ![r] = Served(r)]
      BY <1>4 DEF PrimaryOk
    <3> QED
      BY <3>1, <3>2, PlaceMoves
  <2>2. PlaceOf[r] = "primary" /\ IsCooling' = FALSE
    BY <1>4 DEF PrimaryOk, PlaceOf, Place, MarkPrimaryRecovered, IsCooling
  <2>3. Contract!Settle(r)
    BY <2>1, <2>2 DEF Contract!Settle
  <2> QED
    BY <2>3 DEF Contract!CNext
<1>5. ASSUME NEW r \in Requests, NEW a \in Answers, PrimaryFails(r, a)
      PROVE  [Contract!CNext]_(Contract!cvars)
  <2>1. CASE kind[r] = "stream" /\ a = "5xx"
    <3>1. phase[r] = "primary" /\ phase' = [phase EXCEPT ![r] = "closing"]
      BY <1>5, <2>1 DEF PrimaryFails
    <3>2. PlaceOf' = [PlaceOf EXCEPT ![r] = "primary"]
      <4>1. "closing" \in Phases /\ Place("closing") = "primary"
        BY DEF Phases, Place
      <4> QED
        BY <3>1, <4>1, PlaceMoves
    <3>3. PlaceOf[r] = "primary"
      BY <3>1 DEF PlaceOf, Place
    <3>4. PlaceOf' = PlaceOf
      BY <3>2, <3>3 DEF PlaceOf
    <3>5. IsCooling' = IsCooling
      BY <1>5, <2>1 DEF PrimaryFails, core, IsCooling
    <3> QED
      BY <3>4, <3>5 DEF Contract!cvars
  <2>2. CASE ~(kind[r] = "stream" /\ a = "5xx")
    BY <1>5, <2>2, FailureIsTrip DEF PrimaryFails
  <2> QED
    BY <2>1, <2>2
<1>6. ASSUME NEW r \in Requests, StreamClosed(r) PROVE Contract!CNext
  BY <1>6, FailureIsTrip DEF StreamClosed
<1>7. ASSUME NEW r \in Requests, PrimaryRaises(r) PROVE Contract!CNext
  <2>1. phase[r] \notin {"idle", "open"} /\ phase' = [phase EXCEPT ![r] = "idle"]
    BY <1>7 DEF PrimaryRaises
  <2>2. IsCooling' = IsCooling
    BY <1>7 DEF PrimaryRaises, core, IsCooling
  <2> QED
    BY <2>1, <2>2, EndIsFinish
<1>8. ASSUME NEW r \in Requests, NEW a \in Answers, FallbackAnswer(r, a) PROVE Contract!CNext
  <2>1. /\ phase[r] \notin {"idle", "open"}
        /\ phase' = [phase EXCEPT ![r] = "idle"] \/ phase' = [phase EXCEPT ![r] = "open"]
    BY <1>8 DEF FallbackAnswer, Served
  <2>2. IsCooling' = IsCooling
    BY <1>8 DEF FallbackAnswer, MarkFallbackServed, core, IsCooling
  <2> QED
    BY <2>1, <2>2, EndIsFinish
<1>9. ASSUME NEW r \in Requests, CloseStream(r) PROVE UNCHANGED Contract!cvars
  <2>1. PlaceOf' = [PlaceOf EXCEPT ![r] = "idle"]
    <3>1. "idle" \in Phases /\ Place("idle") = "idle"
      BY DEF Phases, Place
    <3> QED
      BY <1>9, <3>1, PlaceMoves DEF CloseStream
  <2>2. PlaceOf[r] = "idle"
    BY <1>9 DEF CloseStream, PlaceOf, Place
  <2>3. PlaceOf' = PlaceOf
    BY <2>1, <2>2 DEF PlaceOf
  <2> QED
    BY <1>9, <2>3 DEF CloseStream, core, IsCooling, Contract!cvars
<1>10. CASE UNCHANGED vars
  BY <1>10 DEF vars, Contract!cvars, IsCooling, PlaceOf
<1> QED
  BY <1>1, <1>2, <1>3, <1>4, <1>5, <1>6, <1>7, <1>8, <1>9, <1>10 DEF Next, Progress

\* The failover client implements its contract, however its requests interleave:
\* a request only goes to the primary while it is not known down, and only the
\* primary's own answers, or the end of the cooldown, change what is known.
THEOREM ImplementsContract == Spec => KeepsContract
<1>1. SafetyInv => DisabledIsPlain
  BY DEF SafetyInv
<1>2. TypeOK /\ DisabledIsPlain /\ [Next]_vars => [Contract!CNext]_(Contract!cvars)
  BY StepRefines
<1> QED
  BY InitRefines, TypeCorrect, Safety, <1>1, <1>2, PTL DEF Spec, KeepsContract, Contract!CSpec

-----------------------------------------------------------------------------
(* The tool gate *)

\* The stages before the outcome of the call is settled.
Undecided == {"danger", "secret", "selfmod", "announcing", "executing"} \union Asking

\* An id is completed from the moment its outcome is settled, not before.
CompletedWhenSettled ==
    /\ stage \in Undecided => tool \notin completed
    /\ stage \in Reporting => tool \in completed

\* Only completed ids ran, and these once.
RanOnce == \A t \in Tools : runs[t] = 0 \/ (runs[t] = 1 /\ t \in completed)

\* Every completed id was delivered, but for the one being reported.
DeliveredSoFar ==
    \A t \in Tools :
        delivered[t] = IF t \in completed /\ ~(stage \in Reporting /\ tool = t) THEN 1 ELSE 0

\* Consent is there when a wait ends in approval, and stays until the prompt ends.
ConsentBeforeRun ==
    /\ stage \in Asking /\ entry[tool] = "approved" => tool \in consented
    /\ manual /\ stage = "executing" => tool \in consented
    /\ manual => \A t \in Tools : runs[t] > 0 => t \in consented

\* A refused call is still waiting to hear of it, or is over; it did not run.
RefusalSticks ==
    \A t \in refused :
        /\ runs[t] = 0
        /\ t \in completed \/ (stage \in Asking /\ tool = t /\ entry[t] = "rejected")

\* An open question has somebody waiting, or lost its waiter to a cancellation.
OpenIsAwaited ==
    \A t \in Tools : entry[t] = "pending" => Waits(t) \/ t \in abandoned

GateInv ==
    /\ CompletedWhenSettled
    /\ RanOnce
    /\ DeliveredSoFar
    /\ ConsentBeforeRun
    /\ RefusalSticks
    /\ OpenIsAwaited

-----------------------------------------------------------------------------

\* The types hold initially.
LEMMA GateInitTyped == GateInit => GateTypeOK
  BY DEF GateInit, GateTypeOK, Stages, Decisions

\* Whatever question is asked, asking it keeps the types.
LEMMA AskTyped ==
  ASSUME GateTypeOK, stage # "none", NEW question \in Asking, Ask(question),
         UNCHANGED <<manual, callback>>
  PROVE  GateTypeOK'
<1>1. stage' \in Stages /\ stage' # "none"
  BY DEF Ask, Stages, Asking
<1>2. tool \in Tools /\ tool' = tool
  BY DEF GateTypeOK, Ask
<1> QED
  BY <1>1, <1>2, GateAssumption DEF GateTypeOK, Ask, GateAssumption

\* Every action keeps the types.
LEMMA GateStepTyped == GateTypeOK /\ [GateNext]_gateVars => GateTypeOK'
<1> SUFFICES ASSUME GateTypeOK, [GateNext]_gateVars PROVE GateTypeOK'
  OBVIOUS
<1> USE GateAssumption DEF GateAssumption
<1>1. ASSUME NEW t \in Tools, StartCall(t) PROVE GateTypeOK'
  BY <1>1 DEF StartCall, GateTypeOK, Stages, registry, history
<1>2. ASSUME NEW t \in Tools, Discard(t) PROVE GateTypeOK'
  BY <1>2 DEF Discard, GateTypeOK, call, history
<1>3. ASSUME NEW t \in Tools, NEW d \in Decisions, Click(t, d) PROVE GateTypeOK'
  BY <1>3 DEF Click, GateTypeOK, call
<1>4. CASE ClearSession
  <2>1. entry' \in [Tools -> Decisions \union {"pending"}]
    BY <1>4 DEF ClearSession, GateTypeOK, Decisions
  <2>2. refused' \subseteq Tools
    BY <1>4 DEF ClearSession, GateTypeOK
  <2> QED
    BY <1>4, <2>1, <2>2 DEF ClearSession, GateTypeOK, call
<1>5. ASSUME NEW threat \in {"none", "high", "halted"}, ScreenDanger(threat) PROVE GateTypeOK'
  <2>1. CASE Ask("ask_danger")
    BY <1>5, <2>1, AskTyped DEF ScreenDanger, Asking
  <2>2. CASE Refuse /\ UNCHANGED <<registry, history>>
    BY <1>5, <2>2 DEF ScreenDanger, Refuse, GateTypeOK, Stages, Reporting, registry, history
  <2>3. CASE GoOn("secret")
    BY <1>5, <2>3 DEF ScreenDanger, GoOn, GateTypeOK, Stages, registry, history
  <2> QED
    BY <1>5, <2>1, <2>2, <2>3 DEF ScreenDanger
<1>6. ASSUME NEW threat \in BOOLEAN, ScreenSecret(threat) PROVE GateTypeOK'
  <2>1. CASE Refuse /\ UNCHANGED <<registry, history>>
    BY <1>6, <2>1 DEF ScreenSecret, Refuse, GateTypeOK, Stages, Reporting, registry, history
  <2>2. CASE GoOn("selfmod")
    BY <1>6, <2>2 DEF ScreenSecret, GoOn, GateTypeOK, Stages, registry, history
  <2> QED
    BY <1>6, <2>1, <2>2 DEF ScreenSecret
<1>7. ASSUME NEW threat \in BOOLEAN, ScreenSelfmod(threat) PROVE GateTypeOK'
  <2>1. CASE Ask("ask_selfmod")
    BY <1>7, <2>1, AskTyped DEF ScreenSelfmod, Asking
  <2>2. CASE GoOn(Permitted)
    BY <1>7, <2>2 DEF ScreenSelfmod, GoOn, Permitted, GateTypeOK, Stages, registry, history
  <2> QED
    BY <1>7, <2>1, <2>2 DEF ScreenSelfmod
<1>8. CASE Announced
  <2>1. CASE Ask("ask_manual")
    BY <1>8, <2>1, AskTyped DEF Announced, Asking
  <2>2. CASE Refuse /\ UNCHANGED <<registry, history>>
    BY <1>8, <2>2 DEF Announced, Refuse, GateTypeOK, Stages, Reporting, registry, history
  <2> QED
    BY <1>8, <2>1, <2>2 DEF Announced
<1>9. CASE Decided
  <2>1. CASE Refuse /\ UNCHANGED <<registry, history>>
    BY <1>9, <2>1 DEF Decided, Refuse, GateTypeOK, Stages, Asking, Reporting, registry, history
  <2>2. CASE GoOn(AfterApproval)
    <3>1. AfterApproval \in Stages /\ AfterApproval # "none" /\ stage # "none"
      BY <1>9 DEF Decided, AfterApproval, Permitted, Stages, Asking
    <3> QED
      BY <1>9, <2>2, <3>1 DEF Decided, GoOn, GateTypeOK, registry, history
  <2> QED
    BY <1>9, <2>1, <2>2 DEF Decided
<1>10. CASE WaitTimesOut
  BY <1>10 DEF WaitTimesOut, Refuse, GateTypeOK, Stages, Asking, Reporting, Decisions, history
<1>11. ASSUME NEW ok \in BOOLEAN, Execute(ok) PROVE GateTypeOK'
  BY <1>11 DEF Execute, GateTypeOK, Stages, Reporting, registry
<1>12. CASE Report
  BY <1>12 DEF Report, GateTypeOK, Stages, Reporting, registry
<1>13. CASE ReportRaises
  BY <1>13 DEF ReportRaises, GoOn, GateTypeOK, Stages, Reporting, registry, history
<1>14. CASE PromptReturns
  BY <1>14 DEF PromptReturns, EndPrompt, GateTypeOK, Stages, registry
<1>15. CASE PromptCut
  BY <1>15 DEF PromptCut, EndPrompt, GateTypeOK, Stages, Asking, registry
<1>16. CASE UNCHANGED gateVars
  BY <1>16 DEF gateVars, GateTypeOK
<1> QED
  BY <1>1, <1>2, <1>3, <1>4, <1>5, <1>6, <1>7, <1>8, <1>9, <1>10, <1>11, <1>12, <1>13,
     <1>14, <1>15, <1>16 DEF GateNext

\* The variables keep their types, and a tool is in hand exactly while a call is.
THEOREM GateTypeCorrect == GateSpec => []GateTypeOK
  BY GateInitTyped, GateStepTyped, PTL DEF GateSpec

-----------------------------------------------------------------------------

\* No call is under way, nothing was asked.
LEMMA GateInitSafe == GateInit => GateInv
  BY DEF GateInit, GateInv, CompletedWhenSettled, RanOnce, DeliveredSoFar, ConsentBeforeRun,
         RefusalSticks, OpenIsAwaited, Undecided, Asking, Reporting

\* Every action keeps the strengthened invariant.  Its parts need each other: that
\* a refused call does not run needs that an id whose outcome is settled is never
\* asked about again.
LEMMA GateStepSafe == GateTypeOK /\ GateInv /\ [GateNext]_gateVars => GateInv'
<1> SUFFICES ASSUME GateTypeOK, GateInv, [GateNext]_gateVars PROVE GateInv'
  OBVIOUS
<1> USE GateAssumption DEF GateAssumption, GateInv, CompletedWhenSettled, RanOnce,
        DeliveredSoFar, ConsentBeforeRun, RefusalSticks, OpenIsAwaited, Waits, GateTypeOK,
        Undecided, Asking, Reporting, Decisions
<1>1. ASSUME NEW t \in Tools, StartCall(t) PROVE GateInv'
  BY <1>1 DEF StartCall, registry, history
<1>2. ASSUME NEW t \in Tools, Discard(t) PROVE GateInv'
  BY <1>2 DEF Discard, call, history
<1>3. ASSUME NEW t \in Tools, NEW d \in Decisions, Click(t, d) PROVE GateInv'
  BY <1>3 DEF Click, call
<1>4. CASE ClearSession
  BY <1>4 DEF ClearSession, call
<1>5. ASSUME NEW threat \in {"none", "high", "halted"}, ScreenDanger(threat) PROVE GateInv'
  <2>1. CASE Ask("ask_danger")
    BY <1>5, <2>1 DEF ScreenDanger, Ask
  <2>2. CASE Refuse /\ UNCHANGED <<registry, history>>
    BY <1>5, <2>2 DEF ScreenDanger, Refuse, registry, history
  <2>3. CASE GoOn("secret")
    BY <1>5, <2>3 DEF ScreenDanger, GoOn, registry, history
  <2> QED
    BY <1>5, <2>1, <2>2, <2>3 DEF ScreenDanger
<1>6. ASSUME NEW threat \in BOOLEAN, ScreenSecret(threat) PROVE GateInv'
  BY <1>6 DEF ScreenSecret, Refuse, GoOn, registry, history
<1>7. ASSUME NEW threat \in BOOLEAN, ScreenSelfmod(threat) PROVE GateInv'
  BY <1>7 DEF ScreenSelfmod, Ask, GoOn, Permitted, registry, history
<1>8. CASE Announced
  BY <1>8 DEF Announced, Ask, Refuse, registry, history
<1>9. CASE Decided
  BY <1>9 DEF Decided, AfterApproval, Permitted, Refuse, GoOn, registry, history
<1>10. CASE WaitTimesOut
  BY <1>10 DEF WaitTimesOut, Refuse, history
<1>11. ASSUME NEW ok \in BOOLEAN, Execute(ok) PROVE GateInv'
  BY <1>11 DEF Execute, registry
<1>12. CASE Report
  BY <1>12 DEF Report, registry
<1>13. CASE ReportRaises
  BY <1>13 DEF ReportRaises, GoOn, registry, history
<1>14. CASE PromptReturns
  BY <1>14 DEF PromptReturns, EndPrompt, registry
<1>15. CASE PromptCut
  BY <1>15 DEF PromptCut, EndPrompt, registry
<1>16. CASE UNCHANGED gateVars
  BY <1>16 DEF gateVars
<1> QED
  BY <1>1, <1>2, <1>3, <1>4, <1>5, <1>6, <1>7, <1>8, <1>9, <1>10, <1>11, <1>12, <1>13,
     <1>14, <1>15, <1>16 DEF GateNext

-----------------------------------------------------------------------------

\* What is known of a call at every stage of it.
THEOREM GateSafety == GateSpec => []GateInv
  BY GateInitSafe, GateStepSafe, GateTypeCorrect, PTL DEF GateSpec

\* In manual mode no tool runs but on the human's word to its last question.
THEOREM ManualRunsAreAlwaysApproved == GateSpec => []ManualRunsAreApproved
<1>1. GateInv => ManualRunsAreApproved
  BY DEF GateInv, ConsentBeforeRun, ManualRunsAreApproved
<1> QED
  BY GateSafety, <1>1, PTL

\* A call that was once refused does not run, whatever clicks follow.
THEOREM RefusalIsAlwaysFinal == GateSpec => []RefusalIsFinal
<1>1. GateInv => RefusalIsFinal
  BY DEF GateInv, RefusalSticks, RefusalIsFinal
<1> QED
  BY GateSafety, <1>1, PTL

\* A tool id runs at most once in a prompt.
THEOREM AlwaysRunsOnce == GateSpec => []RunsOnce
<1>1. RanOnce => RunsOnce
  <2> SUFFICES ASSUME RanOnce, NEW t \in Tools PROVE runs[t] <= 1
    BY DEF RunsOnce
  <2>1. runs[t] = 0 \/ runs[t] = 1
    BY DEF RanOnce
  <2> QED
    BY <2>1
<1>2. GateInv => RanOnce
  BY DEF GateInv
<1> QED
  BY GateSafety, <1>1, <1>2, PTL

\* A call that returned has delivered exactly one tool.completed.
THEOREM AlwaysDeliveredOnce == GateSpec => []DeliveredOnce
<1>1. DeliveredSoFar => DeliveredOnce
  <2> SUFFICES ASSUME DeliveredSoFar, NEW t \in Tools
               PROVE  /\ delivered[t] <= 1
                      /\ stage = "none" /\ t \in completed => delivered[t] = 1
    BY DEF DeliveredOnce
  <2>1. delivered[t] = 0 \/ delivered[t] = 1
    BY DEF DeliveredSoFar
  <2>2. stage = "none" /\ t \in completed => delivered[t] = 1
    BY DEF DeliveredSoFar, Reporting
  <2> QED
    BY <2>1, <2>2
<1>2. GateInv => DeliveredSoFar
  BY DEF GateInv
<1> QED
  BY GateSafety, <1>1, <1>2, PTL

\* A click that is accepted has somebody waiting for it, but for cancelled waits.
THEOREM LateClicksAreNoOps == GateSpec => LateClickIsNoOp
<1>1. GateInv => \A t \in Tools, decision \in Decisions :
                   Click(t, decision) => Waits(t) \/ t \in abandoned
  BY DEF GateInv, OpenIsAwaited, Click
<1> QED
  BY GateSafety, <1>1, PTL DEF LateClickIsNoOp
===============================================================================
