--------------------------- MODULE AgentLoopProofs ---------------------------
(***************************************************************************)
(* Theorems about AgentLoop, for any number of prompts that share the      *)
(* monitor and any value of the limits.                                    *)
(***************************************************************************)
EXTENDS AgentLoop, SequenceTheorems, TLAPS

Monitor ==
    [snaps : Seq(Observation), reps : Nat, state : {"normal", "warning", "stopped"},
     reason : {"none", "limit", "repetition"}, warned : BOOLEAN, elapsed : 0..MaxWall]

\* The variables of the loop keep their types.
LoopTyped ==
    /\ turn \in [Prompts -> Nat]
    /\ needsFile \in [Prompts -> BOOLEAN]
    /\ nudges \in [Prompts -> 0..NudgeLimit]
    /\ rounds \in [Prompts -> 0..ReadonlyBudget]
    /\ asked \in [Prompts -> BOOLEAN]
    /\ prev \in [Prompts -> Observation]
    /\ phase \in [Prompts -> Phases]
    /\ closings \in [Prompts -> Nat]
    /\ ended \in [Prompts -> {"none", "returned", "raised"}]

\* What the client was told, at every await.
ClosedSoFar ==
    \A p \in Prompts :
        /\ phase[p] # "idle" => ended[p] = "none"
        /\ phase[p] \notin {"idle", "closing"} => closings[p] = 0
        /\ phase[p] = "closing" => closings[p] = 1
        /\ ended[p] = "returned" => closings[p] = 1

-----------------------------------------------------------------------------
(* The monitor *)

\* The window that check_turn keeps is a sequence of observations again.
LEMMA WindowTyped ==
  ASSUME NEW all \in Seq(Observation), Len(all) >= RepetitionWindow
  PROVE  SubSeq(all, Len(all) - RepetitionWindow + 1, Len(all)) \in Seq(Observation)
<1>1. RepetitionWindow \in Nat \ {0} /\ Len(all) \in Nat
  BY LoopAssumption DEF LoopAssumption
<1>2. \A i \in (Len(all) - RepetitionWindow + 1)..Len(all) : all[i] \in Observation
  BY <1>1
<1> QED
  BY <1>1, <1>2, SubSeqProperties

\* check_turn returns a monitor.
LEMMA CheckTurnTyped ==
  ASSUME NEW m \in Monitor, NEW turnNum \in Nat, NEW seen \in Observation
  PROVE  CheckTurn(m, turnNum, seen) \in Monitor
<1> DEFINE all == Append(m.snaps, seen)
           full == Len(all) >= RepetitionWindow
           snaps == IF full THEN SubSeq(all, Len(all) - RepetitionWindow + 1, Len(all)) ELSE all
           noted == [m EXCEPT !.snaps = snaps]
<1>1. all \in Seq(Observation)
  BY DEF Monitor
<1>2. snaps \in Seq(Observation)
  BY <1>1, WindowTyped
<1>3. noted \in Monitor
  BY <1>2 DEF Monitor
<1> HIDE DEF all, snaps
<1>5. \A n \in Monitor : Warn(n, turnNum) \in Monitor
  BY DEF Warn, Monitor
<1> HIDE DEF noted
<1>4. noted.reps + 1 \in Nat
  BY <1>3 DEF Monitor
<1>6. [noted EXCEPT !.state = "stopped", !.reason = "limit"] \in Monitor
  BY <1>3 DEF Monitor
<1>7. [noted EXCEPT !.reps = @ + 1, !.state = "stopped", !.reason = "repetition"] \in Monitor
  BY <1>3, <1>4 DEF Monitor
<1>8. [noted EXCEPT !.reps = @ + 1, !.state = "warning"] \in Monitor
  BY <1>3, <1>4 DEF Monitor
<1>9. [noted EXCEPT !.reps = 0, !.state = "normal"] \in Monitor
  BY <1>3 DEF Monitor
<1> HIDE DEF full
<1> QED
  BY <1>3, <1>5, <1>6, <1>7, <1>8, <1>9 DEF CheckTurn, all, full, snaps, noted

\* A monitor that lets a turn pass has not reached a limit.
LEMMA PassedMeansBelowLimit ==
  ASSUME NEW m \in Monitor, NEW turnNum \in Nat, NEW seen \in Observation,
         CheckTurn(m, turnNum, seen).state # "stopped"
  PROVE  ~LimitReached(m, turnNum)
<1> SUFFICES ASSUME LimitReached(m, turnNum) PROVE FALSE
  OBVIOUS
<1> QED
  BY DEF CheckTurn, Monitor

-----------------------------------------------------------------------------
(* The loop *)

\* The types hold initially, and nothing was closed.
LEMMA InitTyped == Init => TypeOK /\ TurnsBounded /\ ClosedSoFar
<1> SUFFICES ASSUME Init PROVE TypeOK /\ TurnsBounded /\ ClosedSoFar
  OBVIOUS
<1> USE LoopAssumption DEF LoopAssumption, Init
<1>1. mon \in Monitor /\ Nothing \in Observation
  BY DEF FreshMonitor, Monitor, Observation, Nothing
<1>2. TypeOK
  BY <1>1 DEF TypeOK, Monitor, Phases
<1>3. TurnsBounded /\ ClosedSoFar
  BY DEF TurnsBounded, ClosedSoFar
<1> QED
  BY <1>2, <1>3

\* A fresh monitor is one.
LEMMA FreshTyped == FreshMonitor \in Monitor
  BY LoopAssumption DEF LoopAssumption, FreshMonitor, Monitor

\* TypeOK is about the monitor and about the loop.
LEMMA TypeSplit == TypeOK <=> mon \in Monitor /\ LoopTyped
  BY DEF TypeOK, Monitor, LoopTyped

\* Every action keeps the monitor a monitor.
LEMMA StepMonitorTyped == mon \in Monitor /\ LoopTyped /\ [Next]_vars => mon' \in Monitor
<1> SUFFICES ASSUME mon \in Monitor, LoopTyped, [Next]_vars PROVE mon' \in Monitor
  OBVIOUS
<1> USE FreshTyped
<1>1. ASSUME NEW p \in Prompts, NEW file \in BOOLEAN, Begin(p, file) PROVE mon' \in Monitor
  BY <1>1 DEF Begin, GoTo
<1>2. ASSUME NEW p \in Prompts, Refuse(p) PROVE mon' \in Monitor
  BY <1>2 DEF Refuse, Leave, GoTo
<1>3. ASSUME NEW p \in Prompts, NextTurn(p) PROVE mon' \in Monitor
  <2>1. CheckTurn(mon, turn[p] + 1, prev[p]) \in Monitor
    BY CheckTurnTyped DEF LoopTyped
  <2> QED
    BY <1>3, <2>1 DEF NextTurn
<1>4. ASSUME NEW p \in Prompts, Stop(p) PROVE mon' \in Monitor
  BY <1>4 DEF Stop, Leave, GoTo
<1>5. ASSUME NEW p \in Prompts, Request(p) PROVE mon' \in Monitor
  BY <1>5 DEF Request, GoTo, history
<1>6. ASSUME NEW p \in Prompts, NEW c \in Commands, NEW t \in TextLengths,
             StreamTools(p, c, t) PROVE mon' \in Monitor
  BY <1>6 DEF StreamTools, CountToolRound, GoTo, ToolsDisabled, history
<1>7. ASSUME NEW p \in Prompts, NEW called \in BOOLEAN, NEW t \in TextLengths,
             StreamLost(p, called, t) PROVE mon' \in Monitor
  BY <1>7 DEF StreamLost, CountToolRound, GoTo, ToolsDisabled, history
<1>8. ASSUME NEW p \in Prompts, StreamEmpty(p) PROVE mon' \in Monitor
  BY <1>8 DEF StreamEmpty, Nudge, GoTo, history
<1>9. ASSUME NEW p \in Prompts, NEW t \in TextLengths, NEW done \in BOOLEAN,
             StreamText(p, t, done) PROVE mon' \in Monitor
  BY <1>9 DEF StreamText, Nudge, GoTo, history
<1>10. ASSUME NEW p \in Prompts, RunTools(p) PROVE mon' \in Monitor
  BY <1>10 DEF RunTools, GoTo, budgets, history
<1>11. ASSUME NEW p \in Prompts, Answer(p) PROVE mon' \in Monitor
  BY <1>11 DEF Answer, GoTo, budgets
<1>12. ASSUME NEW p \in Prompts, Return(p) PROVE mon' \in Monitor
  BY <1>12 DEF Return, Leave, GoTo
<1>13. ASSUME NEW p \in Prompts, Cut(p) PROVE mon' \in Monitor
  BY <1>13 DEF Cut, Leave, GoTo
<1>14. CASE Tick
  <2>1. mon.elapsed + 1 \in 0..MaxWall
    BY <1>14, LoopAssumption DEF Tick, Monitor, LoopAssumption
  <2> QED
    BY <1>14, <2>1 DEF Tick, Monitor
<1>15. CASE UNCHANGED vars
  BY <1>15 DEF vars, budgets, history
<1> QED
  BY <1>1, <1>2, <1>3, <1>4, <1>5, <1>6, <1>7, <1>8, <1>9, <1>10, <1>11, <1>12,
     <1>13, <1>14, <1>15 DEF Next, Progress

\* Every action keeps the types of the loop.
LEMMA StepLoopTyped == LoopTyped /\ [Next]_vars => LoopTyped'
<1> SUFFICES ASSUME LoopTyped, [Next]_vars PROVE LoopTyped'
  OBVIOUS
<1> USE LoopAssumption DEF LoopAssumption, LoopTyped, Observation, Nothing, Phases
<1>1. ASSUME NEW p \in Prompts, NEW file \in BOOLEAN, Begin(p, file) PROVE LoopTyped'
  BY <1>1 DEF Begin, GoTo
<1>2. ASSUME NEW p \in Prompts, Refuse(p) PROVE LoopTyped'
  BY <1>2 DEF Refuse, Leave, GoTo
<1>3. ASSUME NEW p \in Prompts, NextTurn(p) PROVE LoopTyped'
  BY <1>3 DEF NextTurn, GoTo, budgets, history
<1>4. ASSUME NEW p \in Prompts, Stop(p) PROVE LoopTyped'
  BY <1>4 DEF Stop, Leave, GoTo
<1>5. ASSUME NEW p \in Prompts, Request(p) PROVE LoopTyped'
  BY <1>5 DEF Request, GoTo, history
<1>6. ASSUME NEW p \in Prompts, NEW c \in Commands, NEW t \in TextLengths,
             StreamTools(p, c, t) PROVE LoopTyped'
  BY <1>6 DEF StreamTools, CountToolRound, GoTo, ToolsDisabled, history
<1>7. ASSUME NEW p \in Prompts, NEW called \in BOOLEAN, NEW t \in TextLengths,
             StreamLost(p, called, t) PROVE LoopTyped'
  <2>1. rounds' \in [Prompts -> 0..ReadonlyBudget]
    BY <1>7 DEF StreamLost, CountToolRound, ToolsDisabled
  <2>2. prev' \in [Prompts -> Observation] /\ phase' \in [Prompts -> Phases]
    BY <1>7 DEF StreamLost, GoTo
  <2> QED
    BY <1>7, <2>1, <2>2 DEF StreamLost, history
<1>8. ASSUME NEW p \in Prompts, StreamEmpty(p) PROVE LoopTyped'
  <2>1. nudges' \in [Prompts -> 0..NudgeLimit] /\ phase' \in [Prompts -> Phases]
    <3>1. CASE nudges[p] < NudgeLimit
      <4>1. nudges[p] + 1 \in 0..NudgeLimit
        BY <3>1
      <4>2. /\ nudges' = [nudges EXCEPT ![p] = nudges[p] + 1]
              /\ phase' = [phase EXCEPT ![p] = "between"]
        BY <1>8, <3>1 DEF StreamEmpty, Nudge, GoTo
      <4> QED
        BY <4>1, <4>2
    <3>2. CASE ~(nudges[p] < NudgeLimit)
      BY <1>8, <3>2 DEF StreamEmpty, GoTo
    <3> QED
      BY <3>1, <3>2
  <2>2. prev' \in [Prompts -> Observation]
    BY <1>8 DEF StreamEmpty
  <2> QED
    BY <1>8, <2>1, <2>2 DEF StreamEmpty, history
<1>9. ASSUME NEW p \in Prompts, NEW t \in TextLengths, NEW done \in BOOLEAN,
             StreamText(p, t, done) PROVE LoopTyped'
  BY <1>9 DEF StreamText, Nudge, GoTo, history
<1>10. ASSUME NEW p \in Prompts, RunTools(p) PROVE LoopTyped'
  BY <1>10 DEF RunTools, GoTo, budgets, history
<1>11. ASSUME NEW p \in Prompts, Answer(p) PROVE LoopTyped'
  BY <1>11 DEF Answer, GoTo, budgets
<1>12. ASSUME NEW p \in Prompts, Return(p) PROVE LoopTyped'
  BY <1>12 DEF Return, Leave, GoTo
<1>13. ASSUME NEW p \in Prompts, Cut(p) PROVE LoopTyped'
  <2>1. closings' \in [Prompts -> Nat]
    BY <1>13 DEF Cut
  <2>2. phase' \in [Prompts -> Phases] /\ prev' \in [Prompts -> Observation]
    BY <1>13 DEF Cut, Leave, GoTo
  <2>3. nudges' \in [Prompts -> 0..NudgeLimit] /\ rounds' \in [Prompts -> 0..ReadonlyBudget]
    BY <1>13 DEF Cut, Leave
  <2> QED
    BY <1>13, <2>1, <2>2, <2>3 DEF Cut, Leave
<1>14. CASE Tick
  BY <1>14 DEF Tick, budgets, history
<1>15. CASE UNCHANGED vars
  BY <1>15 DEF vars, budgets, history
<1> HIDE DEF LoopTyped
<1> QED
  BY <1>1, <1>2, <1>3, <1>4, <1>5, <1>6, <1>7, <1>8, <1>9, <1>10, <1>11, <1>12,
     <1>13, <1>14, <1>15 DEF Next, Progress

\* Every action keeps the types.
LEMMA StepTyped == TypeOK /\ [Next]_vars => TypeOK'
<1> SUFFICES ASSUME TypeOK, [Next]_vars PROVE TypeOK'
  OBVIOUS
<1>1. mon \in Monitor /\ LoopTyped
  BY TypeSplit
<1>2. mon' \in Monitor /\ LoopTyped'
  BY <1>1, StepMonitorTyped, StepLoopTyped
<1> QED
  BY <1>2 DEF TypeOK, Monitor, LoopTyped

\* Only the head of the loop counts a turn, and it asks the monitor first.  A reset
\* clears what the monitor has seen, not the turn it is asked about.
LEMMA StepBounded == mon \in Monitor /\ LoopTyped /\ TurnsBounded /\ [Next]_vars => TurnsBounded'
<1> SUFFICES ASSUME mon \in Monitor, LoopTyped, TurnsBounded, [Next]_vars PROVE TurnsBounded'
  OBVIOUS
<1> USE LoopAssumption DEF LoopAssumption, LoopTyped, TurnsBounded
<1>1. ASSUME NEW p \in Prompts, NEW file \in BOOLEAN, Begin(p, file) PROVE TurnsBounded'
  BY <1>1 DEF Begin, GoTo
<1>2. ASSUME NEW p \in Prompts, Refuse(p) PROVE TurnsBounded'
  BY <1>2 DEF Refuse, Leave, GoTo
<1>3. ASSUME NEW p \in Prompts, NextTurn(p) PROVE TurnsBounded'
  <2>1. ASSUME turn'[p] # turn[p] PROVE turn'[p] < MaxTurns
    <3>1. CheckTurn(mon, turn[p] + 1, prev[p]).state # "stopped" /\ turn'[p] = turn[p] + 1
      BY <1>3, <2>1 DEF NextTurn
    <3>2. turn[p] + 1 \in Nat /\ prev[p] \in Observation
      OBVIOUS
    <3>3. ~LimitReached(mon, turn[p] + 1)
      BY <3>1, <3>2, PassedMeansBelowLimit
    <3> QED
      BY <3>1, <3>3 DEF LimitReached
  <2>2. \A q \in Prompts \ {p} : turn'[q] = turn[q]
    BY <1>3 DEF NextTurn
  <2> QED
    BY <2>1, <2>2
<1>4. ASSUME NEW p \in Prompts, Stop(p) PROVE TurnsBounded'
  BY <1>4 DEF Stop, Leave, GoTo
<1>5. ASSUME NEW p \in Prompts, Request(p) PROVE TurnsBounded'
  BY <1>5 DEF Request, GoTo, history
<1>6. ASSUME NEW p \in Prompts, NEW c \in Commands, NEW t \in TextLengths,
             StreamTools(p, c, t) PROVE TurnsBounded'
  BY <1>6 DEF StreamTools, CountToolRound, GoTo, ToolsDisabled, history
<1>7. ASSUME NEW p \in Prompts, NEW called \in BOOLEAN, NEW t \in TextLengths,
             StreamLost(p, called, t) PROVE TurnsBounded'
  BY <1>7 DEF StreamLost, CountToolRound, GoTo, ToolsDisabled, history
<1>8. ASSUME NEW p \in Prompts, StreamEmpty(p) PROVE TurnsBounded'
  BY <1>8 DEF StreamEmpty, Nudge, GoTo, history
<1>9. ASSUME NEW p \in Prompts, NEW t \in TextLengths, NEW done \in BOOLEAN,
             StreamText(p, t, done) PROVE TurnsBounded'
  BY <1>9 DEF StreamText, Nudge, GoTo, history
<1>10. ASSUME NEW p \in Prompts, RunTools(p) PROVE TurnsBounded'
  BY <1>10 DEF RunTools, GoTo, budgets, history
<1>11. ASSUME NEW p \in Prompts, Answer(p) PROVE TurnsBounded'
  BY <1>11 DEF Answer, GoTo, budgets
<1>12. ASSUME NEW p \in Prompts, Return(p) PROVE TurnsBounded'
  BY <1>12 DEF Return, Leave, GoTo
<1>13. ASSUME NEW p \in Prompts, Cut(p) PROVE TurnsBounded'
  BY <1>13 DEF Cut, Leave, GoTo
<1>14. CASE Tick
  BY <1>14 DEF Tick, budgets, history
<1>15. CASE UNCHANGED vars
  BY <1>15 DEF vars, budgets, history
<1> QED
  BY <1>1, <1>2, <1>3, <1>4, <1>5, <1>6, <1>7, <1>8, <1>9, <1>10, <1>11, <1>12,
     <1>13, <1>14, <1>15 DEF Next, Progress

\* Every way out of the loop closes once.
LEMMA StepClosed == LoopTyped /\ ClosedSoFar /\ [Next]_vars => ClosedSoFar'
<1> SUFFICES ASSUME LoopTyped, ClosedSoFar, [Next]_vars PROVE ClosedSoFar'
  OBVIOUS
<1> USE LoopAssumption DEF LoopAssumption, LoopTyped, ClosedSoFar
<1>1. ASSUME NEW p \in Prompts, NEW file \in BOOLEAN, Begin(p, file) PROVE ClosedSoFar'
  BY <1>1 DEF Begin, GoTo
<1>2. ASSUME NEW p \in Prompts, Refuse(p) PROVE ClosedSoFar'
  BY <1>2 DEF Refuse, Leave, GoTo
<1>3. ASSUME NEW p \in Prompts, NextTurn(p) PROVE ClosedSoFar'
  BY <1>3 DEF NextTurn, GoTo, budgets, history
<1>4. ASSUME NEW p \in Prompts, Stop(p) PROVE ClosedSoFar'
  BY <1>4 DEF Stop, Leave, GoTo
<1>5. ASSUME NEW p \in Prompts, Request(p) PROVE ClosedSoFar'
  BY <1>5 DEF Request, GoTo, history
<1>6. ASSUME NEW p \in Prompts, NEW c \in Commands, NEW t \in TextLengths,
             StreamTools(p, c, t) PROVE ClosedSoFar'
  BY <1>6 DEF StreamTools, CountToolRound, GoTo, ToolsDisabled, history
<1>7. ASSUME NEW p \in Prompts, NEW called \in BOOLEAN, NEW t \in TextLengths,
             StreamLost(p, called, t) PROVE ClosedSoFar'
  BY <1>7 DEF StreamLost, CountToolRound, GoTo, ToolsDisabled, history
<1>8. ASSUME NEW p \in Prompts, StreamEmpty(p) PROVE ClosedSoFar'
  BY <1>8 DEF StreamEmpty, Nudge, GoTo, history
<1>9. ASSUME NEW p \in Prompts, NEW t \in TextLengths, NEW done \in BOOLEAN,
             StreamText(p, t, done) PROVE ClosedSoFar'
  BY <1>9 DEF StreamText, Nudge, GoTo, history
<1>10. ASSUME NEW p \in Prompts, RunTools(p) PROVE ClosedSoFar'
  BY <1>10 DEF RunTools, GoTo, budgets, history
<1>11. ASSUME NEW p \in Prompts, Answer(p) PROVE ClosedSoFar'
  BY <1>11 DEF Answer, GoTo, budgets
<1>12. ASSUME NEW p \in Prompts, Return(p) PROVE ClosedSoFar'
  BY <1>12 DEF Return, Leave, GoTo
<1>13. ASSUME NEW p \in Prompts, Cut(p) PROVE ClosedSoFar'
  BY <1>13 DEF Cut, Leave, GoTo
<1>14. CASE Tick
  BY <1>14 DEF Tick, budgets, history
<1>15. CASE UNCHANGED vars
  BY <1>15 DEF vars, budgets, history
<1> QED
  BY <1>1, <1>2, <1>3, <1>4, <1>5, <1>6, <1>7, <1>8, <1>9, <1>10, <1>11, <1>12,
     <1>13, <1>14, <1>15 DEF Next, Progress

-----------------------------------------------------------------------------

\* The variables keep their types.
THEOREM TypeCorrect == Spec => []TypeOK
<1>1. Init => TypeOK
  BY InitTyped
<1> QED
  BY <1>1, StepTyped, PTL DEF Spec

\* No prompt makes max_turns requests, however often the monitor is reset under it.
THEOREM TurnsAlwaysBounded == Spec => []TurnsBounded
<1>1. Init => TurnsBounded
  BY InitTyped
<1> QED
  BY <1>1, TypeCorrect, TypeSplit, StepBounded, PTL DEF Spec

\* A loop that returns has closed the turn for the client exactly once.
THEOREM AlwaysClosedOnce == Spec => []ClosedOnce
<1>1. Init => ClosedSoFar
  BY InitTyped
<1>2. ClosedSoFar => ClosedOnce
  BY DEF ClosedSoFar, ClosedOnce
<1> QED
  BY <1>1, <1>2, TypeCorrect, TypeSplit, StepClosed, PTL DEF Spec

-----------------------------------------------------------------------------
(* One prompt at a time *)

\* No two prompts: the monitor is watching one loop.
Alone == \A p, q \in Prompts : p = q

\* Nobody who is on the way to the head of the loop is under a verdict already.
NoVerdict ==
    \A p \in Prompts : phase[p] \notin {"idle", "stopping"} => mon.state # "stopped"

\* From the round that spends the tool budget until the loop looks again, the monitor
\* has confirmed no repetition.
CleanBudget ==
    \A p \in Prompts :
        /\ phase[p] = "preparing" => rounds[p] = 0
        /\ ToolsDisabled(p) /\ ~asked[p] =>
              phase[p] # "streaming" /\ (phase[p] \in {"tools", "between"} => mon.reps = 0)
        /\ phase[p] = "idle" => rounds[p] = 0 /\ ~asked[p]

\* A prompt that runs alone is judged on what it did itself.
AloneInv == NoVerdict /\ CleanBudget

\* Every action of a prompt that runs alone keeps it so.
LEMMA StepAlone == Alone /\ mon \in Monitor /\ LoopTyped /\ AloneInv /\ [Next]_vars => AloneInv'
<1> SUFFICES ASSUME Alone, mon \in Monitor, LoopTyped, AloneInv, [Next]_vars PROVE AloneInv'
  OBVIOUS
<1> USE LoopAssumption DEF LoopAssumption, LoopTyped, AloneInv, NoVerdict, CleanBudget, Alone, ToolsDisabled
<1>0. FreshMonitor.state = "normal" /\ FreshMonitor.reps = 0
  BY DEF FreshMonitor
<1>1. ASSUME NEW p \in Prompts, NEW file \in BOOLEAN, Begin(p, file) PROVE AloneInv'
  BY <1>0, <1>1 DEF Begin, GoTo
<1>2. ASSUME NEW p \in Prompts, NEW how, Leave(p, how) PROVE AloneInv'
  BY <1>2 DEF Leave, GoTo
<1>3. ASSUME NEW p \in Prompts, NextTurn(p) PROVE AloneInv'
  BY <1>3 DEF NextTurn, GoTo, budgets, history
<1>4. ASSUME NEW p \in Prompts, Request(p) PROVE AloneInv'
  BY <1>4 DEF Request, GoTo, history
<1>5. ASSUME NEW p \in Prompts, NEW c \in Commands, NEW t \in TextLengths,
             StreamTools(p, c, t) PROVE AloneInv'
  BY <1>0, <1>5 DEF StreamTools, CountToolRound, GoTo, history
<1>6. ASSUME NEW p \in Prompts, NEW called \in BOOLEAN, NEW t \in TextLengths,
             StreamLost(p, called, t) PROVE AloneInv'
  BY <1>0, <1>6 DEF StreamLost, CountToolRound, GoTo, history
<1>7. ASSUME NEW p \in Prompts, StreamEmpty(p) PROVE AloneInv'
  BY <1>7 DEF StreamEmpty, Nudge, GoTo, history
<1>8. ASSUME NEW p \in Prompts, NEW t \in TextLengths, NEW done \in BOOLEAN,
             StreamText(p, t, done) PROVE AloneInv'
  BY <1>8 DEF StreamText, Nudge, GoTo, history
<1>9. ASSUME NEW p \in Prompts, RunTools(p) PROVE AloneInv'
  BY <1>9 DEF RunTools, GoTo, budgets, history
<1>10. ASSUME NEW p \in Prompts, Answer(p) PROVE AloneInv'
  BY <1>10 DEF Answer, GoTo, budgets
<1>11. CASE Tick
  BY <1>11 DEF Tick, budgets, history, Monitor
<1>12. CASE UNCHANGED vars
  BY <1>12 DEF vars, budgets, history
<1>13. ASSUME NEW p \in Prompts, Refuse(p) \/ Stop(p) \/ Return(p) \/ Cut(p) PROVE AloneInv'
  BY <1>2, <1>13 DEF Refuse, Stop, Return, Cut
<1> QED
  BY <1>1, <1>3, <1>4, <1>5, <1>6, <1>7, <1>8, <1>9, <1>10, <1>11, <1>12, <1>13 DEF Next, Progress

\* Only the head of the loop stops a prompt.
LEMMA StopsAtTheHead ==
  ASSUME LoopTyped, [Next]_vars, NEW p \in Prompts, Stops(p)
  PROVE  NextTurn(p)
<1> USE DEF LoopTyped
<1>1. ASSUME NEW q \in Prompts, q # p, phase' = [phase EXCEPT ![q] = phase'[q]] PROVE FALSE
  BY <1>1 DEF Stops
<1>2. ASSUME NEW q \in Prompts, \E next : next # "stopping" /\ phase' = [phase EXCEPT ![q] = next] PROVE FALSE
  BY <1>2 DEF Stops
<1>3. UNCHANGED phase => FALSE
  BY DEF Stops
<1>4. ASSUME NEW q \in Prompts, NEW file \in BOOLEAN, Begin(q, file) PROVE FALSE
  BY <1>2, <1>4 DEF Begin, GoTo
<1>5. ASSUME NEW q \in Prompts, NextTurn(q) PROVE q = p
  BY <1>1, <1>5 DEF NextTurn, GoTo
<1>6. ASSUME NEW q \in Prompts, Refuse(q) \/ Stop(q) \/ Return(q) \/ Cut(q) PROVE FALSE
  BY <1>2, <1>6 DEF Refuse, Stop, Return, Cut, Leave, GoTo
<1>7. ASSUME NEW q \in Prompts, Request(q) \/ RunTools(q) \/ Answer(q) PROVE FALSE
  BY <1>2, <1>7 DEF Request, RunTools, Answer, GoTo
<1>8. ASSUME NEW q \in Prompts, NEW c \in Commands, NEW t \in TextLengths, StreamTools(q, c, t) PROVE FALSE
  BY <1>2, <1>8 DEF StreamTools, GoTo
<1>9. ASSUME NEW q \in Prompts, NEW called \in BOOLEAN, NEW t \in TextLengths, StreamLost(q, called, t)
      PROVE FALSE
  BY <1>2, <1>9 DEF StreamLost, GoTo
<1>10. ASSUME NEW q \in Prompts, StreamEmpty(q) PROVE FALSE
  BY <1>2, <1>10 DEF StreamEmpty, Nudge, GoTo
<1>11. ASSUME NEW q \in Prompts, NEW t \in TextLengths, NEW done \in BOOLEAN, StreamText(q, t, done) PROVE FALSE
  BY <1>2, <1>11 DEF StreamText, Nudge, GoTo
<1>12. CASE Tick
  BY <1>3, <1>12 DEF Tick
<1>13. CASE UNCHANGED vars
  BY <1>3, <1>13 DEF vars
<1> QED
  BY <1>4, <1>5, <1>6, <1>7, <1>8, <1>9, <1>10, <1>11, <1>12, <1>13 DEF Next, Progress

\* Below the limits a monitor that has confirmed no repetition does not stop the loop at once.
LEMMA FirstRepetitionPasses ==
  ASSUME NEW m \in Monitor, NEW turnNum \in Nat, NEW seen \in Observation, RepetitionThreshold > 1,
         ~LimitReached(m, turnNum), m.reps = 0, m.state # "stopped"
  PROVE  CheckTurn(m, turnNum, seen).state # "stopped"
<1> DEFINE all == Append(m.snaps, seen)
           full == Len(all) >= RepetitionWindow
           snaps == IF full THEN SubSeq(all, Len(all) - RepetitionWindow + 1, Len(all)) ELSE all
           noted == [m EXCEPT !.snaps = snaps]
<1>1. noted.reps = 0 /\ noted.state = m.state /\ noted.warned = m.warned /\ noted.elapsed = m.elapsed
      /\ DOMAIN noted = DOMAIN m
  BY DEF Monitor
<1>2. "state" \in DOMAIN m
  BY DEF Monitor
<1> HIDE DEF snaps, full
<1>3. ~(m.reps + 1 >= RepetitionThreshold)
  BY LoopAssumption DEF LoopAssumption
<1> HIDE DEF noted
<1>4. \A n : n.state # "stopped" /\ "state" \in DOMAIN n => Warn(n, turnNum).state # "stopped"
  BY DEF Warn
<1>5. [noted EXCEPT !.reps = 0, !.state = "normal"].state = "normal"
  BY <1>1, <1>2
<1>6. [noted EXCEPT !.reps = @ + 1, !.state = "warning"].state = "warning"
  BY <1>1, <1>2
<1>7. "state" \in DOMAIN [noted EXCEPT !.reps = 0, !.state = "normal"]
  BY <1>1, <1>2
<1> QED
  BY <1>1, <1>2, <1>3, <1>4, <1>5, <1>6, <1>7 DEF CheckTurn, all, full, snaps, noted

\* A prompt that runs alone is stopped by no verdict but its own.
THEOREM AloneStoppedForItself == Alone => (Spec => StoppedForItself)
<1> SUFFICES ASSUME Alone PROVE Spec => StoppedForItself
  OBVIOUS
<1>1. Init => AloneInv
  BY LoopAssumption DEF LoopAssumption, Init, AloneInv, NoVerdict, CleanBudget, ToolsDisabled
<1>2. LoopTyped /\ AloneInv /\ [Next]_vars =>
         [\A p \in Prompts : Stops(p) /\ mon.state = "stopped" => FindsToStop(p)]_vars
  BY DEF AloneInv, NoVerdict, Stops
<1>3. TypeOK /\ AloneInv /\ [Next]_vars => AloneInv'
  BY TypeSplit, StepAlone
<1> QED
  BY <1>1, <1>2, <1>3, TypeCorrect, TypeSplit, PTL DEF Spec, StoppedForItself

\* A prompt that runs alone and has spent its tool budget gets the turn to answer in, unless
\* its turns or its time are up: one repetition must not suffice for a verdict, and the
\* monitor's limit must come before that of the loop, as they do in the code.
THEOREM AloneForcedAnswerRuns ==
  Alone /\ RepetitionThreshold > 1 /\ MaxTurns <= HardTurns + 1 => (Spec => ForcedAnswerRuns)
<1> SUFFICES ASSUME Alone, RepetitionThreshold > 1, MaxTurns <= HardTurns + 1 PROVE Spec => ForcedAnswerRuns
  OBVIOUS
<1> DEFINE Forced == \A p \in Prompts :
              Stops(p) /\ ToolsDisabled(p) /\ ~asked[p] => LimitReached(mon, turn[p] + 1)
<1>1. Init => AloneInv
  BY LoopAssumption DEF LoopAssumption, Init, AloneInv, NoVerdict, CleanBudget, ToolsDisabled
<1>2. TypeOK /\ AloneInv /\ [Next]_vars => [Forced]_vars
  <2> SUFFICES ASSUME mon \in Monitor, LoopTyped, AloneInv, [Next]_vars, NEW p \in Prompts,
                      Stops(p), ToolsDisabled(p), ~asked[p], ~LimitReached(mon, turn[p] + 1)
               PROVE  FALSE
    BY TypeSplit
  <2>1. NextTurn(p)
    BY StopsAtTheHead
  <2>2. turn[p] + 1 \in Nat /\ prev[p] \in Observation /\ turn[p] + 1 < MaxTurns
    BY LoopAssumption DEF LoopTyped, LimitReached, LoopAssumption
  <2>3. phase[p] = "between"
    BY LoopAssumption DEF Stops, AloneInv, CleanBudget, ToolsDisabled, LoopAssumption, LoopTyped
  <2>4. mon.reps = 0 /\ mon.state # "stopped"
    BY <2>3 DEF AloneInv, NoVerdict, CleanBudget
  <2>5. CheckTurn(mon, turn[p] + 1, prev[p]).state # "stopped"
    BY <2>2, <2>4, FirstRepetitionPasses
  <2>6. phase'[p] = "screening"
    BY <2>1, <2>2, <2>5, LoopAssumption DEF NextTurn, GoTo, LoopTyped, LoopAssumption
  <2> QED
    BY <2>6 DEF Stops
<1>3. TypeOK /\ AloneInv /\ [Next]_vars => AloneInv'
  BY TypeSplit, StepAlone
<1> QED
  BY <1>1, <1>2, <1>3, TypeCorrect, PTL DEF Spec, ForcedAnswerRuns
==============================================================================
