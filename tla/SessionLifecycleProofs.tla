----------------------- MODULE SessionLifecycleProofs -----------------------
(***************************************************************************)
(* Theorems about SessionLifecycle, for any sessions, sockets, prompts and *)
(* any timeout of the reaper.  What a prompt relies on when it resumes is  *)
(* its link with the session it was submitted to: PromptInv states it, the *)
(* invariants of the runs follow from it or are kept with its help.        *)
(***************************************************************************)
EXTENDS SessionLifecycle, TLAPS

\* A prompt that is alive knows its session.
LivePromptsHaveTargets ==
    \A p \in Prompts : phase[p] # "idle" => target[p] \in Sessions

\* A queued prompt is among the waiters of its session's lock.
QueuedPromptsWait ==
    \A p \in Prompts :
        phase[p] = "queued" =>
            \E i \in 1..Len(waiters[target[p]]) : waiters[target[p]][i] = p

\* A prompt at work holds the lock of its session.
WorkersHoldLocks ==
    \A p \in Prompts : phase[p] \in Working => holder[target[p]] = p

\* A prompt is alive only in a session that is there, or that was removed under it.
OrphansAreKnown ==
    \A p \in Prompts : phase[p] # "idle" => target[p] \in registered \union busyRemoved

PromptInv ==
    /\ LivePromptsHaveTargets
    /\ QueuedPromptsWait
    /\ WorkersHoldLocks
    /\ OrphansAreKnown

\* What the status and the stored events of a session say of it.
SafetyInv ==
    /\ QuietHasNoSockets
    /\ RunningHasPrompt
    /\ OrphansWereBusy

-----------------------------------------------------------------------------

\* Nothing is there yet.
LEMMA InitTyped == Init => TypeOK /\ PromptInv /\ SafetyInv
<1> SUFFICES ASSUME Init PROVE TypeOK /\ PromptInv /\ SafetyInv
  OBVIOUS
<1>1. TypeOK
  BY LifecycleAssumption DEF LifecycleAssumption, Init, TypeOK, Statuses, FsmStates, Phases
<1>2. PromptInv
  BY DEF Init, PromptInv, LivePromptsHaveTargets, QueuedPromptsWait, WorkersHoldLocks,
         OrphansAreKnown, Working
<1>3. SafetyInv
  BY DEF Init, SafetyInv, QuietHasNoSockets, RunningHasPrompt, OrphansWereBusy
<1> QED
  BY <1>1, <1>2, <1>3

\* A prompt that leaves unlinks itself; the others keep their links.
LEMMA LeavingKeepsPromptInv ==
  ASSUME TypeOK, PromptInv, NEW p \in Prompts, phase[p] \in Working, Leave(p)
  PROVE  PromptInv'
<1> USE LifecycleAssumption DEF LifecycleAssumption, TypeOK, PromptInv, LivePromptsHaveTargets,
        WorkersHoldLocks, OrphansAreKnown, Working, QueuedPromptsWait
<1>1. /\ phase' = [phase EXCEPT ![p] = "idle"]
      /\ target' = [target EXCEPT ![p] = NoSession]
      /\ holder' = [holder EXCEPT ![target[p]] = NoPrompt]
      /\ UNCHANGED <<waiters, registered, busyRemoved>>
  BY DEF Leave
<1>2. WorkersHoldLocks'
  <2>1. ASSUME NEW q \in Prompts, q # p, phase[q] \in Working PROVE target[q] # target[p]
    BY <2>1
  <2> QED
    BY <1>1, <2>1
<1>3. LivePromptsHaveTargets' /\ OrphansAreKnown'
  BY <1>1
<1>4. QueuedPromptsWait'
  BY <1>1
<1> QED
  BY <1>2, <1>3, <1>4

\* An invalid transition changes nothing, a valid one leads to a state of the machine.
LEMMA TransitionTyped ==
  ASSUME fsm \in [Sessions -> FsmStates], NEW s \in Sessions, NEW new \in FsmStates,
         Transition(s, new)
  PROVE  fsm' \in [Sessions -> FsmStates]
  BY DEF Transition

\* Every action keeps the types.  A queue is not empty while a prompt waits in it.
LEMMA StepTyped == TypeOK /\ PromptInv /\ [Next]_vars => TypeOK'
<1> SUFFICES ASSUME TypeOK, PromptInv, [Next]_vars PROVE TypeOK'
  OBVIOUS
<1> USE LifecycleAssumption DEF LifecycleAssumption, TypeOK, Statuses, FsmStates, Working,
        Phases, PromptInv, LivePromptsHaveTargets
<1>1. ASSUME NEW s \in Sessions, CreateSession(s) PROVE TypeOK'
  BY <1>1 DEF CreateSession, Transition, SetStatus, Touch, AppendEvent, VALID_TRANSITIONS,
         lock, prompt, history
<1>2. ASSUME NEW s \in Sessions, NEW ws \in Sockets, AddWsConnection(s, ws) PROVE TypeOK'
  <2>1. fsm' \in [Sessions -> FsmStates]
    BY <1>2, TransitionTyped DEF AddWsConnection
  <2>2. status' \in [Sessions -> Statuses]
    BY <1>2 DEF AddWsConnection, SetStatus
  <2>3. conns' \in [Sessions -> SUBSET Sockets]
    BY <1>2 DEF AddWsConnection
  <2>4. age' \in [Sessions -> 0..ReapAge]
    BY <1>2 DEF AddWsConnection, Touch
  <2>5. stored' \subseteq Sessions
    BY <1>2 DEF AddWsConnection, AppendEvent
  <2>6. /\ UNCHANGED <<registered, lockKeys, holder, waiters>>
        /\ UNCHANGED <<phase, target, escaped, busyRemoved>>
    BY <1>2 DEF AddWsConnection, lock, prompt, history
  <2> HIDE DEF Statuses, FsmStates, Phases, PromptInv, LivePromptsHaveTargets
  <2> QED
    BY <2>1, <2>2, <2>3, <2>4, <2>5, <2>6
<1>3. ASSUME NEW s \in Sessions, NEW ws \in Sockets, RemoveWsConnection(s, ws) PROVE TypeOK'
  <2>1. fsm' \in [Sessions -> FsmStates]
    BY <1>3, TransitionTyped DEF RemoveWsConnection
  <2>2. status' \in [Sessions -> Statuses]
    <3>1. status' = status \/ SetStatus(s, "idle")
      BY <1>3 DEF RemoveWsConnection
    <3> QED
      BY <3>1 DEF SetStatus
  <2>3. conns' \in [Sessions -> SUBSET Sockets]
    BY <1>3 DEF RemoveWsConnection
  <2>4. UNCHANGED <<registered, age, stored, lock, prompt, history>>
    BY <1>3 DEF RemoveWsConnection
  <2> QED
    BY <2>1, <2>2, <2>3, <2>4 DEF lock, prompt, history
<1>4. ASSUME NEW s \in Sessions, InterruptSession(s) PROVE TypeOK'
  BY <1>4 DEF InterruptSession, Transition, SetStatus, Touch, AppendEvent, lock, prompt,
         history
<1>5. ASSUME NEW s \in Sessions, NEW o \in {"ready", "failed"},
              CompleteSession(s, o) PROVE TypeOK'
  BY <1>5 DEF CompleteSession, Transition, SetStatus, Touch, AppendEvent, lock, prompt, history
<1>6. ASSUME NEW s \in Sessions, ArchiveSession(s) PROVE TypeOK'
  BY <1>6 DEF ArchiveSession, SetStatus, Touch, AppendEvent, lock, prompt, history
<1>7. ASSUME NEW s \in Sessions, EditSession(s) PROVE TypeOK'
  BY <1>7 DEF EditSession, Touch, AppendEvent, lock, prompt, history
<1>8. ASSUME NEW s \in Sessions, DeleteSession(s) PROVE TypeOK'
  BY <1>8 DEF DeleteSession, Remove, lock, prompt
<1>9. ASSUME NEW s \in Sessions, SdkInterrupt(s) PROVE TypeOK'
  BY <1>9 DEF SdkInterrupt, SetStatus, AppendEvent, lock, prompt, history
<1>10. CASE ReapFailedSessions
  BY <1>10 DEF ReapFailedSessions, Reapable, Remove, lock, prompt
<1>11. CASE Tick
  BY <1>11 DEF Tick, lock, prompt, history
<1>12. ASSUME NEW p \in Prompts, NEW s \in Sessions, SubmitPrompt(p, s) PROVE TypeOK'
  <2>1. CASE Start(p, s) /\ UNCHANGED waiters
    BY <1>12, <2>1 DEF SubmitPrompt, Start, SetStatus, Touch
  <2>2. CASE /\ waiters' = [waiters EXCEPT ![s] = Append(@, p)]
             /\ phase' = [phase EXCEPT ![p] = "queued"]
             /\ UNCHANGED <<holder, status, age, escaped>>
    <3>1. waiters' \in [Sessions -> Seq(Prompts)]
      BY <2>2
    <3> QED
      BY <1>12, <2>2, <3>1 DEF SubmitPrompt
  <2> QED
    BY <1>12, <2>1, <2>2 DEF SubmitPrompt
<1>13. ASSUME NEW p \in Prompts, StreamAppends(p) PROVE TypeOK'
  BY <1>13 DEF StreamAppends, AppendEvent, lock, prompt, history
<1>14. ASSUME NEW p \in Prompts, Acquire(p) PROVE TypeOK'
  <2> DEFINE s == target[p]
  <2>1. s \in Sessions
    BY <1>14 DEF Acquire
  <2>2. waiters[s] \in Seq(Prompts) /\ waiters[s] # <<>>
    BY <1>14, <2>1 DEF Acquire, QueuedPromptsWait
  <2>3. Tail(waiters[s]) \in Seq(Prompts)
    BY <2>2
  <2>4. waiters' = [waiters EXCEPT ![s] = Tail(waiters[s])]
    BY <1>14 DEF Acquire
  <2>5. waiters' \in [Sessions -> Seq(Prompts)]
    BY <2>1, <2>3, <2>4
  <2> QED
    BY <1>14, <2>1, <2>5 DEF Acquire, Start, SetStatus, Touch
<1>15. ASSUME NEW p \in Prompts, StreamReturns(p) PROVE TypeOK'
  BY <1>15 DEF StreamReturns, GoTo, lock, history
<1>16. ASSUME NEW p \in Prompts, StreamRejects(p) PROVE TypeOK'
  BY <1>16 DEF StreamRejects, GoTo, lock, history
<1>17. ASSUME NEW p \in Prompts, StreamRaises(p) PROVE TypeOK'
  BY <1>17 DEF StreamRaises, GoTo, lock, history
<1>18. ASSUME NEW p \in Prompts, RejectionSent(p) PROVE TypeOK'
  BY <1>18 DEF RejectionSent, GoTo, SetStatus, lock, history
<1>19. ASSUME NEW p \in Prompts, PromptSucceeds(p) PROVE TypeOK'
  BY <1>19 DEF PromptSucceeds, Leave, SetStatus
<1>20. ASSUME NEW p \in Prompts, PromptFails(p) PROVE TypeOK'
  BY <1>20 DEF PromptFails, Leave, SetStatus
<1>21. ASSUME NEW p \in Prompts, ReportRaises(p) PROVE TypeOK'
  BY <1>21 DEF ReportRaises, Leave, SetStatus
<1>22. CASE UNCHANGED vars
  BY <1>22 DEF vars
<1> QED
  BY <1>1, <1>2, <1>3, <1>4, <1>5, <1>6, <1>7, <1>8, <1>9, <1>10, <1>11, <1>12, <1>13, <1>14,
     <1>15, <1>16, <1>17, <1>18, <1>19, <1>20, <1>21, <1>22 DEF Next, ManagerStep, Progress

\* Every action keeps the link of every prompt with its session.
LEMMA StepPrompt == TypeOK /\ PromptInv /\ [Next]_vars => PromptInv'
<1> SUFFICES ASSUME TypeOK, PromptInv, [Next]_vars PROVE PromptInv'
  OBVIOUS
<1> USE LifecycleAssumption DEF LifecycleAssumption, TypeOK, PromptInv,
        LivePromptsHaveTargets, WorkersHoldLocks, OrphansAreKnown, Working,
        QueuedPromptsWait, Busy
<1>1. ASSUME NEW s \in Sessions, CreateSession(s) PROVE PromptInv'
  BY <1>1 DEF CreateSession, Transition, SetStatus, Touch, AppendEvent, VALID_TRANSITIONS,
         lock, prompt, history
<1>2. ASSUME NEW s \in Sessions, NEW ws \in Sockets, AddWsConnection(s, ws) PROVE PromptInv'
  BY <1>2 DEF AddWsConnection, Transition, SetStatus, Touch, AppendEvent, VALID_TRANSITIONS,
         lock, prompt, history
<1>3. ASSUME NEW s \in Sessions, NEW ws \in Sockets, RemoveWsConnection(s, ws) PROVE PromptInv'
  BY <1>3 DEF RemoveWsConnection, Transition, SetStatus, lock, prompt, history
<1>4. ASSUME NEW s \in Sessions, InterruptSession(s) PROVE PromptInv'
  BY <1>4 DEF InterruptSession, Transition, SetStatus, Touch, AppendEvent, lock, prompt,
         history
<1>5. ASSUME NEW s \in Sessions, NEW o \in {"ready", "failed"},
              CompleteSession(s, o) PROVE PromptInv'
  BY <1>5 DEF CompleteSession, Transition, SetStatus, Touch, AppendEvent, lock, prompt, history
<1>6. ASSUME NEW s \in Sessions, ArchiveSession(s) PROVE PromptInv'
  BY <1>6 DEF ArchiveSession, SetStatus, Touch, AppendEvent, lock, prompt, history
<1>7. ASSUME NEW s \in Sessions, EditSession(s) PROVE PromptInv'
  BY <1>7 DEF EditSession, Touch, AppendEvent, lock, prompt, history
<1>8. ASSUME NEW s \in Sessions, DeleteSession(s) PROVE PromptInv'
  BY <1>8 DEF DeleteSession, Remove, lock, prompt
<1>9. ASSUME NEW s \in Sessions, SdkInterrupt(s) PROVE PromptInv'
  BY <1>9 DEF SdkInterrupt, SetStatus, AppendEvent, lock, prompt, history
<1>10. CASE ReapFailedSessions
  BY <1>10 DEF ReapFailedSessions, Reapable, Remove, lock, prompt
<1>11. CASE Tick
  BY <1>11 DEF Tick, lock, prompt, history
<1>12. ASSUME NEW p \in Prompts, NEW s \in Sessions, SubmitPrompt(p, s) PROVE PromptInv'
  <2>1. waiters[s] \in Seq(Prompts)
    OBVIOUS
  <2>2. CASE Start(p, s) /\ UNCHANGED waiters
    <3>1. phase' = [phase EXCEPT ![p] = "streaming"] /\ target' = [target EXCEPT ![p] = s]
          /\ holder' = [holder EXCEPT ![s] = p]
      BY <1>12, <2>2 DEF SubmitPrompt, Start
    <3>2. WorkersHoldLocks'
      <4>1. holder[s] = NoPrompt
        BY <1>12, <2>2 DEF SubmitPrompt
      <4> QED
        BY <3>1, <4>1
    <3>3. QueuedPromptsWait'
      BY <2>2, <3>1
    <3>4. LivePromptsHaveTargets' /\ OrphansAreKnown'
      BY <1>12, <3>1 DEF SubmitPrompt
    <3> QED
      BY <3>2, <3>3, <3>4
  <2>3. CASE /\ waiters' = [waiters EXCEPT ![s] = Append(@, p)]
             /\ phase' = [phase EXCEPT ![p] = "queued"]
             /\ UNCHANGED <<holder, status, age, escaped>>
    <3>1. target' = [target EXCEPT ![p] = s]
      BY <1>12 DEF SubmitPrompt
    <3>2. QueuedPromptsWait'
      <4> SUFFICES ASSUME NEW q \in Prompts, phase'[q] = "queued"
                   PROVE  \E i \in 1..Len(waiters'[target'[q]]) : waiters'[target'[q]][i] = q
        OBVIOUS
      <4>1. CASE q = p
        <5>1. waiters'[target'[q]] = Append(waiters[s], p)
          BY <2>3, <3>1, <4>1
        <5>2. Len(waiters[s]) + 1 \in 1..Len(Append(waiters[s], p))
              /\ Append(waiters[s], p)[Len(waiters[s]) + 1] = p
          BY <2>1
        <5> QED
          BY <4>1, <5>1, <5>2
      <4>2. CASE q # p
        <5>1. target'[q] = target[q] /\ phase[q] = "queued" /\ target[q] \in Sessions
          BY <2>3, <3>1, <4>2
        <5>2. PICK i \in 1..Len(waiters[target[q]]) : waiters[target[q]][i] = q
          BY <5>1
        <5>3. CASE target[q] = s
          <6>1. waiters'[target'[q]] = Append(waiters[s], p)
            BY <2>3, <5>1, <5>3
          <6>2. i \in 1..Len(Append(waiters[s], p)) /\ Append(waiters[s], p)[i] = q
            BY <2>1, <5>2, <5>3
          <6> QED
            BY <6>1, <6>2
        <5>4. CASE target[q] # s
          BY <2>3, <5>1, <5>2, <5>4
        <5> QED
          BY <5>3, <5>4
      <4> QED
        BY <4>1, <4>2
    <3>3. LivePromptsHaveTargets' /\ OrphansAreKnown' /\ WorkersHoldLocks'
      BY <1>12, <2>3, <3>1 DEF SubmitPrompt
    <3> QED
      BY <3>2, <3>3
  <2> QED
    BY <1>12, <2>2, <2>3 DEF SubmitPrompt
<1>13. ASSUME NEW p \in Prompts, StreamAppends(p) PROVE PromptInv'
  BY <1>13 DEF StreamAppends, AppendEvent, lock, prompt, history
<1>14. ASSUME NEW p \in Prompts, Acquire(p) PROVE PromptInv'
  <2> DEFINE s == target[p]
  <2>1. s \in Sessions /\ waiters[s] \in Seq(Prompts) /\ waiters[s] # <<>>
    BY <1>14 DEF Acquire
  <2>2. /\ phase' = [phase EXCEPT ![p] = "streaming"]
        /\ holder' = [holder EXCEPT ![s] = p]
        /\ waiters' = [waiters EXCEPT ![s] = Tail(waiters[s])]
        /\ target' = target
        /\ registered' = registered /\ busyRemoved' = busyRemoved
        /\ holder[s] = NoPrompt /\ Head(waiters[s]) = p
    BY <1>14 DEF Acquire, Start
  <2>3. WorkersHoldLocks'
    BY <2>1, <2>2
  <2>4. QueuedPromptsWait'
    <3> SUFFICES ASSUME NEW q \in Prompts, phase'[q] = "queued"
                 PROVE  \E i \in 1..Len(waiters'[target'[q]]) : waiters'[target'[q]][i] = q
      BY ZenonT(30) DEF QueuedPromptsWait
    <3>1. q # p /\ phase[q] = "queued" /\ target[q] \in Sessions
      BY <2>2
    <3>2. PICK i \in 1..Len(waiters[target[q]]) : waiters[target[q]][i] = q
      BY <3>1
    <3>3. CASE target[q] = s
      <4>1. waiters'[target[q]] = Tail(waiters[s])
        BY <2>1, <2>2, <3>3
      <4>2. i # 1
        BY <2>1, <2>2, <3>1, <3>2, <3>3
      <4>3. i - 1 \in 1..Len(Tail(waiters[s])) /\ Tail(waiters[s])[i - 1] = q
        BY <2>1, <3>2, <3>3, <4>2
      <4> QED
        BY <2>2, <4>1, <4>3
    <3>4. CASE target[q] # s
      BY <2>1, <2>2, <3>1, <3>2, <3>4
    <3> QED
      BY <3>3, <3>4
  <2>5. LivePromptsHaveTargets' /\ OrphansAreKnown'
    BY <1>14, <2>2 DEF Acquire
  <2> QED
    BY <2>3, <2>4, <2>5
<1>15. ASSUME NEW p \in Prompts, StreamReturns(p) PROVE PromptInv'
  BY <1>15 DEF StreamReturns, GoTo, lock, history
<1>16. ASSUME NEW p \in Prompts, StreamRejects(p) PROVE PromptInv'
  BY <1>16 DEF StreamRejects, GoTo, lock, history
<1>17. ASSUME NEW p \in Prompts, StreamRaises(p) PROVE PromptInv'
  BY <1>17 DEF StreamRaises, GoTo, lock, history
<1>18. ASSUME NEW p \in Prompts, RejectionSent(p) PROVE PromptInv'
  BY <1>18 DEF RejectionSent, GoTo, SetStatus, lock, history
<1>19. ASSUME NEW p \in Prompts, PromptSucceeds(p) PROVE PromptInv'
  BY <1>19, LeavingKeepsPromptInv DEF PromptSucceeds
<1>20. ASSUME NEW p \in Prompts, PromptFails(p) PROVE PromptInv'
  BY <1>20, LeavingKeepsPromptInv DEF PromptFails
<1>21. ASSUME NEW p \in Prompts, ReportRaises(p) PROVE PromptInv'
  BY <1>21, LeavingKeepsPromptInv DEF ReportRaises
<1>22. CASE UNCHANGED vars
  BY <1>22 DEF vars
<1> HIDE DEF TypeOK, PromptInv
<1> QED
  BY <1>1, <1>2, <1>3, <1>4, <1>5, <1>6, <1>7, <1>8, <1>9, <1>10, <1>11, <1>12, <1>13, <1>14,
     <1>15, <1>16, <1>17, <1>18, <1>19, <1>20, <1>21, <1>22 DEF Next, ManagerStep, Progress

\* Every action keeps what the status and the stored events say.
LEMMA StepSafe == TypeOK /\ PromptInv /\ SafetyInv /\ [Next]_vars => SafetyInv'
<1> SUFFICES ASSUME TypeOK, PromptInv, SafetyInv, [Next]_vars
             PROVE SafetyInv'
  OBVIOUS
<1> USE LifecycleAssumption DEF LifecycleAssumption, TypeOK, PromptInv,
        LivePromptsHaveTargets, WorkersHoldLocks, OrphansAreKnown, Working, SafetyInv,
        QuietHasNoSockets, RunningHasPrompt, OrphansWereBusy, Busy
<1>1. ASSUME NEW s \in Sessions, CreateSession(s) PROVE SafetyInv'
  BY <1>1 DEF CreateSession, Transition, SetStatus, Touch, AppendEvent, VALID_TRANSITIONS,
         lock, prompt, history
<1>2. ASSUME NEW s \in Sessions, NEW ws \in Sockets, AddWsConnection(s, ws) PROVE SafetyInv'
  BY <1>2 DEF AddWsConnection, Transition, SetStatus, Touch, AppendEvent, VALID_TRANSITIONS,
         lock, prompt, history
<1>3. ASSUME NEW s \in Sessions, NEW ws \in Sockets, RemoveWsConnection(s, ws) PROVE SafetyInv'
  BY <1>3 DEF RemoveWsConnection, Transition, SetStatus, lock, prompt, history
<1>4. ASSUME NEW s \in Sessions, InterruptSession(s) PROVE SafetyInv'
  BY <1>4 DEF InterruptSession, Transition, SetStatus, Touch, AppendEvent, lock, prompt,
         history
<1>5. ASSUME NEW s \in Sessions, NEW o \in {"ready", "failed"},
              CompleteSession(s, o) PROVE SafetyInv'
  BY <1>5 DEF CompleteSession, Transition, SetStatus, Touch, AppendEvent, lock, prompt, history
<1>6. ASSUME NEW s \in Sessions, ArchiveSession(s) PROVE SafetyInv'
  BY <1>6 DEF ArchiveSession, SetStatus, Touch, AppendEvent, lock, prompt, history
<1>7. ASSUME NEW s \in Sessions, EditSession(s) PROVE SafetyInv'
  BY <1>7 DEF EditSession, Touch, AppendEvent, lock, prompt, history
<1>8. ASSUME NEW s \in Sessions, DeleteSession(s) PROVE SafetyInv'
  BY <1>8 DEF DeleteSession, Remove, lock, prompt
<1>9. ASSUME NEW s \in Sessions, SdkInterrupt(s) PROVE SafetyInv'
  BY <1>9 DEF SdkInterrupt, SetStatus, AppendEvent, lock, prompt, history
<1>10. CASE ReapFailedSessions
  BY <1>10 DEF ReapFailedSessions, Reapable, Remove, lock, prompt
<1>11. CASE Tick
  BY <1>11 DEF Tick, lock, prompt, history
<1>12. ASSUME NEW p \in Prompts, NEW s \in Sessions, SubmitPrompt(p, s) PROVE SafetyInv'
  <2>1. CASE Start(p, s) /\ UNCHANGED waiters
    BY <1>12, <2>1 DEF SubmitPrompt, Start, SetStatus, Touch
  <2>2. CASE /\ phase' = [phase EXCEPT ![p] = "queued"]
             /\ UNCHANGED <<holder, status, age, escaped>>
    BY <1>12, <2>2 DEF SubmitPrompt
  <2> QED
    BY <1>12, <2>1, <2>2 DEF SubmitPrompt
<1>13. ASSUME NEW p \in Prompts, StreamAppends(p) PROVE SafetyInv'
  BY <1>13 DEF StreamAppends, AppendEvent, lock, prompt, history
<1>14. ASSUME NEW p \in Prompts, Acquire(p) PROVE SafetyInv'
  BY <1>14 DEF Acquire, Start, SetStatus, Touch
<1>15. ASSUME NEW p \in Prompts, StreamReturns(p) PROVE SafetyInv'
  BY <1>15 DEF StreamReturns, GoTo, lock, history
<1>16. ASSUME NEW p \in Prompts, StreamRejects(p) PROVE SafetyInv'
  BY <1>16 DEF StreamRejects, GoTo, lock, history
<1>17. ASSUME NEW p \in Prompts, StreamRaises(p) PROVE SafetyInv'
  BY <1>17 DEF StreamRaises, GoTo, lock, history
<1>18. ASSUME NEW p \in Prompts, RejectionSent(p) PROVE SafetyInv'
  BY <1>18 DEF RejectionSent, GoTo, SetStatus, lock, history
<1>19. ASSUME NEW p \in Prompts, PromptSucceeds(p) PROVE SafetyInv'
  BY <1>19 DEF PromptSucceeds, Leave, SetStatus
<1>20. ASSUME NEW p \in Prompts, PromptFails(p) PROVE SafetyInv'
  BY <1>20 DEF PromptFails, Leave, SetStatus
<1>21. ASSUME NEW p \in Prompts, ReportRaises(p) PROVE SafetyInv'
  BY <1>21 DEF ReportRaises, Leave, SetStatus
<1>22. CASE UNCHANGED vars
  BY <1>22 DEF vars
<1> QED
  BY <1>1, <1>2, <1>3, <1>4, <1>5, <1>6, <1>7, <1>8, <1>9, <1>10, <1>11, <1>12, <1>13, <1>14,
     <1>15, <1>16, <1>17, <1>18, <1>19, <1>20, <1>21, <1>22 DEF Next, ManagerStep, Progress

-----------------------------------------------------------------------------

\* The three invariants together, from the first state on.
THEOREM Safety == Spec => [](TypeOK /\ PromptInv /\ SafetyInv)
  BY InitTyped, StepTyped, StepPrompt, StepSafe, PTL DEF Spec

\* The variables keep their types.
THEOREM TypeCorrect == Spec => []TypeOK
  BY Safety, PTL

\* Two prompts never work on one session, however often it is deleted or reaped.
THEOREM AlwaysOnePromptPerSession == Spec => []OnePromptPerSession
<1>1. PromptInv => OnePromptPerSession
  BY DEF PromptInv, WorkersHoldLocks, OnePromptPerSession
<1> QED
  BY Safety, <1>1, PTL

\* A session that is idle or archived has no client.
THEOREM QuietNeverHasSockets == Spec => []QuietHasNoSockets
<1>1. SafetyInv => QuietHasNoSockets
  BY DEF SafetyInv
<1> QED
  BY Safety, <1>1, PTL

\* A session that says it is running has a prompt, or lost it by an exception.
THEOREM RunningAlwaysHasPrompt == Spec => []RunningHasPrompt
<1>1. SafetyInv => RunningHasPrompt
  BY DEF SafetyInv
<1> QED
  BY Safety, <1>1, PTL

\* Events of a removed session come back only if it was removed under a prompt.
THEOREM OrphansAlwaysWereBusy == Spec => []OrphansWereBusy
<1>1. SafetyInv => OrphansWereBusy
  BY DEF SafetyInv
<1> QED
  BY Safety, <1>1, PTL
=============================================================================
