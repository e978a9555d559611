---------------------------- MODULE ContinuityProofs ---------------------------
(***************************************************************************)
(* The parts that carry state across restarts keep their invariants,       *)
(* whatever the constants: one inductive invariant for each part, and      *)
(* their sum.  The parts share no state, so a step of one leaves the       *)
(* others' alone.                                                          *)
(***************************************************************************)
EXTENDS MCContinuity, EventStoreProofs

-----------------------------------------------------------------------------
\* Recovery: how often a session was restarted is in the event log.

RecoveredRows == {r \in EventRows : r.type = "session.recovered"}

\* A session that is known has its creation first in the log.
KnownBegin == \A s \in known : Of(s) # <<>> /\ Of(s)[1].type = "session.created"

Reports == /\ DOMAIN report \subseteq LogSessions /\ Range(report) \subseteq Results

RecoveryInv ==
    /\ LogInv /\ KnownBegin /\ RestartsStayLimited
    /\ known \subseteq LogSessions /\ late \subseteq LogSessions /\ owing \subseteq LogSessions
    /\ config \in [recover_interrupted : BOOLEAN, archive_stale : BOOLEAN, notify_admin : BOOLEAN]
    /\ todo = NoRecovery \/ todo \in Seq(LogSessions)
    /\ Reports /\ stateFile \in {"none", "state", "report"}

\* An event is added to those of its session.
LEMMA OfAfterAppend ==
  ASSUME rows \in Seq(EventRows), NEW row \in EventRows, rows' = Append(rows, row), NEW s
  PROVE  Of(s)' = IF row.session = s THEN Append(Of(s), row) ELSE Of(s)
<1> DEFINE A == {r \in EventRows : r.session = s}
<1>1. Of(s)' = Only(Append(rows, row), A) /\ Of(s) = Only(rows, A)
  BY DEF Of
<1>2. row \in A <=> row.session = s
  OBVIOUS
<1> HIDE DEF A
<1>3. Only(Append(rows, row), A) = IF row \in A THEN Append(Only(rows, A), row) ELSE Only(rows, A)
  BY OnlyAppend
<1> QED
  BY <1>1, <1>2, <1>3

\* A filter that lets nothing pass.
LEMMA NoneIsEmpty ==
  ASSUME NEW E, NEW s \in Seq(E)
  PROVE  Only(s, {}) = <<>>
<1> DEFINE none == {}
           r == Only(s, none)
<1>1. r \in Seq(E) /\ Range(r) = Range(s) \intersect none
  BY OnlySelects
<1> HIDE DEF r
<1>2. Range(r) = {}
  BY <1>1
<1>3. r = <<>>
  BY <1>1, <1>2, RangeFacts
<1> QED
  BY <1>3 DEF r

\* A deletion takes the events of its session and no other.
LEMMA OfAfterDelete ==
  ASSUME rows \in Seq(EventRows), NEW gone, rows' = Only(rows, {r \in EventRows : r.session # gone}), NEW s
  PROVE  Of(s)' = IF s = gone THEN <<>> ELSE Of(s)
<1> DEFINE A == {r \in EventRows : r.session = s}
           B == {r \in EventRows : r.session # gone}
<1>1. Of(s)' = Only(Only(rows, B), A) /\ Of(s) = Only(rows, A)
  BY DEF Of
<1>2. s = gone => A \intersect B = {}
  OBVIOUS
<1>3. s # gone => A \intersect B = A
  OBVIOUS
<1> HIDE DEF A, B
<1>4. Only(Only(rows, B), A) = Only(rows, A \intersect B)
  BY OnlyOnly
<1>5. Only(rows, {}) = <<>>
  BY NoneIsEmpty
<1> QED
  BY <1>1, <1>2, <1>3, <1>4, <1>5

\* As many restarts are counted as there are rows of restarts.
LEMMA RestartsAreCounted ==
  ASSUME LogInv, NEW s \in LogSessions
  PROVE  Cardinality(Restarts(s)) = Len(Only(Of(s), RecoveredRows))
<1> DEFINE all == Of(s)
           r == Only(all, RecoveredRows)
<1>1. all \in Seq(EventRows) /\ \A i \in 1..Len(all) : all[i].seq = i
  BY EventsOfSession DEF LogInv, Numbered
<1>2. Distinct(all)
  BY <1>1 DEF Distinct
<1> HIDE DEF all
<1>3. r \in Seq(EventRows) /\ Distinct(r) /\ Range(r) = Range(all) \intersect RecoveredRows
  BY <1>1, <1>2, OnlySelects, OnlyIsDistinct
<1>4. Range(all) \subseteq EventRows
  BY <1>1, RangeFacts
<1>5. Restarts(s) = Range(r)
  BY <1>3, <1>4 DEF Restarts, RecoveredRows, all
<1> HIDE DEF r
<1> DEFINE n == Len(r)
<1>6. n \in Nat /\ DOMAIN r = 1..n /\ r \in [1..n -> EventRows]
  BY <1>3
<1>7. r \in [1..n -> Range(r)]
  BY <1>6 DEF Range
<1>8. \A i, j \in 1..n : r[i] = r[j] => i = j
  BY <1>3 DEF Distinct
<1>9. \A x \in Range(r) : \E i \in 1..n : r[i] = x
  BY <1>6 DEF Range
<1> HIDE DEF n
<1>10. r \in Bijection(1..n, Range(r))
  BY <1>7, <1>8, <1>9 DEF Bijection, Injection, Surjection, IsInjective
<1>11. Cardinality(Range(r)) = n
  <2>1. ExistsBijection(1..n, Range(r))
    BY <1>10 DEF ExistsBijection
  <2> QED
    BY <1>6, <2>1, FS_CountingElements
<1> QED
  BY <1>5, <1>11 DEF n, r, all

\* The first state of recovery has the invariant.
LEMMA RecoveryInitially == RecoveryInit => RecoveryInv
<1> SUFFICES ASSUME RecoveryInit PROVE RecoveryInv
  OBVIOUS
<1>1. LogInv /\ rows \in Seq(EventRows)
  BY LogInitially DEF RecoveryInit, LogInv
<1>2. RestartsStayLimited
  <2>1. Len(rows) <= 1
    BY DEF RecoveryInit, LogInit
  <2>2. ASSUME NEW s PROVE Len(Only(Of(s), RecoveredRows)) <= RestartLimit
    <3>1. Of(s) \in Seq(EventRows) /\ Len(Of(s)) <= Len(rows)
      BY <1>1, EventsOfSession
    <3>2. Only(Of(s), RecoveredRows) \in Seq(EventRows) /\ Len(Only(Of(s), RecoveredRows)) <= Len(Of(s))
      BY <3>1, OnlyIsShorter
    <3>3. Len(rows) \in Nat /\ Len(Of(s)) \in Nat /\ Len(Only(Of(s), RecoveredRows)) \in Nat
      BY <1>1, <3>1, <3>2
    <3> QED
      BY <2>1, <3>1, <3>2, <3>3, RecoveryAssumption
  <2> QED
    BY <2>2 DEF RestartsStayLimited, RecoveredRows
<1>3. Reports
  <2>1. report = [s \in {} |-> ""] /\ DOMAIN [s \in {} |-> ""] = {}
    BY DEF RecoveryInit
  <2> QED
    BY <2>1 DEF Reports, Range
<1> QED
  BY <1>1, <1>2, <1>3 DEF RecoveryInit, RecoveryInv, KnownBegin

\* An event of a session that is no restart, or one the limit allows.
LEMMA AppendKeepsLimit ==
  ASSUME LogInv, KnownBegin, RestartsStayLimited, known \subseteq LogSessions,
         NEW s \in LogSessions, NEW ty \in LogTypes, AppendEvent(s, ty),
         ty # "session.recovered" \/ Cardinality(Restarts(s)) < RestartLimit
  PROVE  /\ LogInv' /\ RestartsStayLimited'
         /\ \A t \in known : Of(t)' # <<>> /\ Of(t)'[1].type = "session.created"
         /\ Of(s) = <<>> => Of(s)' # <<>> /\ Of(s)'[1].type = ty
<1>1. LogInv'
  BY LogStep DEF LogNext
<1> DEFINE row == [id |-> lastId + 1, session |-> s, seq |-> NextSeq(s), type |-> ty]
<1>2. rows' = Append(rows, row) /\ rows \in Seq(EventRows)
  BY DEF AppendEvent, LogInv
<1>3. row \in EventRows /\ row.session = s /\ row.type = ty
  <2>1. Of(s) \in Seq(EventRows) /\ Len(Of(s)) <= Len(rows) /\ Len(rows) <= lastId
        /\ lastId \in 0..MaxRows /\ lastId < MaxRows /\ NextSeq(s) = Len(Of(s)) + 1
    BY EventsOfSession, NextSeqFollows DEF LogInv, AppendEvent
  <2>2. Len(Of(s)) \in Nat /\ Len(rows) \in Nat /\ MaxRows \in Nat
    BY <1>2, <2>1, LogAssumption
  <2>3. lastId + 1 \in 1..MaxRows
    BY <2>1, <2>2
  <2>4. NextSeq(s) \in 1..MaxRows
    BY <2>1, <2>2
  <2> QED
    BY <2>3, <2>4 DEF EventRows
<1> HIDE DEF row
<1>4. \A t : Of(t)' = IF t = s THEN Append(Of(s), row) ELSE Of(t)
  BY <1>2, <1>3, OfAfterAppend
<1>5. \A t : Of(t) \in Seq(EventRows)
  BY <1>2, EventsOfSession
<1>6. RestartsStayLimited'
  <2>1. ASSUME NEW t \in LogSessions PROVE Len(Only(Of(t)', RecoveredRows)) <= RestartLimit
    <3>1. Len(Only(Of(t), RecoveredRows)) <= RestartLimit
      BY DEF RestartsStayLimited, RecoveredRows
    <3>2. CASE t # s
      BY <1>4, <3>1, <3>2
    <3>3. CASE t = s
      <4> DEFINE old == Only(Of(s), RecoveredRows)
      <4>1. Of(t)' = Append(Of(s), row)
        BY <1>4, <3>3
      <4>2. Only(Of(t)', RecoveredRows) = IF row \in RecoveredRows THEN Append(old, row) ELSE old
        BY <1>3, <1>5, <4>1, OnlyAppend
      <4>3. old \in Seq(EventRows)
        BY <1>5, OnlyIsShorter
      <4>4. CASE row \in RecoveredRows
        <5>1. Cardinality(Restarts(s)) = Len(old) /\ Len(old) < RestartLimit
          BY <1>3, <4>4, RestartsAreCounted DEF RecoveredRows
        <5> HIDE DEF old
        <5>2. Len(Append(old, row)) = Len(old) + 1 /\ Len(old) \in Nat
          BY <4>3
        <5> QED
          BY <4>2, <4>4, <5>1, <5>2, RecoveryAssumption
      <4>5. CASE row \notin RecoveredRows
        BY <3>1, <3>3, <4>2, <4>5
      <4> QED
        BY <4>4, <4>5
    <3> QED
      BY <3>2, <3>3
  <2>2. RecoveredRows' = RecoveredRows
    BY DEF RecoveredRows, EventRows
  <2> QED
    BY <2>1, <2>2 DEF RestartsStayLimited, RecoveredRows
<1>7. ASSUME NEW t \in known PROVE Of(t)' # <<>> /\ Of(t)'[1].type = "session.created"
  <2>1. Of(t) # <<>> /\ Of(t)[1].type = "session.created"
    BY DEF KnownBegin
  <2>2. CASE t # s
    BY <1>4, <2>1, <2>2
  <2>3. CASE t = s
    <3>1. Of(t)' = Append(Of(t), row)
      BY <1>4, <2>3
    <3>2. Append(Of(t), row) # <<>> /\ Append(Of(t), row)[1] = Of(t)[1]
      BY <1>5, <2>1
    <3> QED
      BY <2>1, <3>1, <3>2
  <2> QED
    BY <2>2, <2>3
<1>8. Of(s) = <<>> => Of(s)' # <<>> /\ Of(s)'[1].type = ty
  <2>1. Of(s) = <<>> => Append(Of(s), row) # <<>> /\ Append(Of(s), row)[1] = row
    OBVIOUS
  <2> QED
    BY <1>3, <1>4, <2>1
<1> QED
  BY <1>1, <1>6, <1>7, <1>8

\* What was reported of a session.
LEMMA ReportGrows ==
  ASSUME Reports, NEW s \in LogSessions, NEW status \in Results, report' = Told(s, status)
  PROVE  Reports'
<1>1. /\ DOMAIN report' = DOMAIN report \union {s}
      /\ \A x \in DOMAIN report' : report'[x] = IF x = s THEN status ELSE report[x]
  BY DEF Told
<1>3. DOMAIN report' \subseteq LogSessions
  BY <1>1 DEF Reports
<1>4. \A x \in DOMAIN report' : report'[x] \in Results
  BY <1>1 DEF Reports, Range
<1> QED
  BY <1>3, <1>4 DEF Reports, Range

\* The sessions that were scanned are put in some order.
LEMMA ScannedAreListed ==
  ASSUME rows \in Seq(EventRows)
  PROVE  SetToSeq(Scanned) \in Seq(LogSessions)
<1> DEFINE S == Scanned
           n == Cardinality(S)
<1>1. S \subseteq LogSessions /\ IsFiniteSet(S)
  <2>1. DOMAIN rows = 1..Len(rows) /\ Len(rows) \in Nat /\ Range(rows) \subseteq EventRows
    BY RangeFacts
  <2>2. S = {rows[i].session : i \in 1..Len(rows)}
    BY <2>1 DEF Scanned, Range
  <2>3. IsFiniteSet(1..Len(rows))
    BY <2>1, CountUpTo
  <2> DEFINE f == [i \in 1..Len(rows) |-> rows[i].session]
  <2>4. f \in Surjection(1..Len(rows), S)
    BY <2>2 DEF Surjection
  <2>5. IsFiniteSet(S)
    BY <2>3, <2>4, FS_Surjection
  <2>6. \A r \in EventRows : r.session \in LogSessions
    BY DEF EventRows
  <2> QED
    BY <2>1, <2>5, <2>6 DEF Scanned
<1> HIDE DEF S
<1>2. n \in Nat /\ \E f : f \in Bijection(1..n, S)
  BY <1>1, FS_CardinalityType, FS_NatBijection DEF ExistsBijection
<1>3. \E f \in [1..n -> S] : IsInjective(f)
  BY <1>2 DEF Bijection, Injection, IsInjective
<1>4. SetToSeq(S) \in [1..n -> S]
  BY <1>3 DEF SetToSeq
<1>5. SetToSeq(S) \in [1..n -> LogSessions]
  BY <1>1, <1>4
<1> QED
  BY <1>2, <1>5, SeqDef DEF S

\* Every step of recovery keeps the invariant.
LEMMA RecoveryStep == RecoveryInv /\ [RecoveryNext]_recoveryVars => RecoveryInv'
<1> SUFFICES ASSUME RecoveryInv, [RecoveryNext]_recoveryVars PROVE RecoveryInv'
  OBVIOUS
<1>0. /\ LogInv /\ rows \in Seq(EventRows) /\ KnownBegin /\ RestartsStayLimited /\ Reports
      /\ known \subseteq LogSessions /\ late \subseteq LogSessions /\ owing \subseteq LogSessions
      /\ config \in [recover_interrupted : BOOLEAN, archive_stale : BOOLEAN, notify_admin : BOOLEAN]
      /\ todo = NoRecovery \/ todo \in Seq(LogSessions)
      /\ stateFile \in {"none", "state", "report"}
  BY DEF RecoveryInv, LogInv
<1>1. {"session.created", "session.completed", "session.interrupted", "session.recovered"} \subseteq LogTypes
  BY RecoveryAssumption
\* The log as it is, and more is not known than was.
<1>2. ASSUME UNCHANGED rows, [LogNext]_logVars, known' \subseteq known PROVE LogInv' /\ KnownBegin' /\ RestartsStayLimited'
  <2>1. LogInv'
    BY <1>0, <1>2, LogStep
  <2>2. \A s : Of(s)' = Of(s)
    BY <1>2 DEF Of
  <2> QED
    BY <1>0, <1>2, <2>1, <2>2 DEF KnownBegin, RestartsStayLimited
<1>3. ASSUME UNCHANGED <<logVars, known>> PROVE LogInv' /\ KnownBegin' /\ RestartsStayLimited'
  BY <1>2, <1>3 DEF logVars
<1>4. ASSUME UNCHANGED report PROVE Reports'
  BY <1>0, <1>4 DEF Reports
<1>5. ASSUME report' = [s \in {} |-> ""] PROVE Reports'
  <2>1. DOMAIN [s \in {} |-> ""] = {}
    OBVIOUS
  <2> QED
    BY <1>5, <2>1 DEF Reports, Range
<1>6. ASSUME NEW s \in LogSessions, CreateSession(s) PROVE RecoveryInv'
  <2>1. AppendEvent(s, "session.created") /\ Of(s) = <<>> /\ known' = known \union {s}
        /\ UNCHANGED <<late, config, todo, report, stateFile, owing>>
    BY <1>6 DEF CreateSession
  <2>2. /\ LogInv' /\ RestartsStayLimited'
        /\ \A t \in known : Of(t)' # <<>> /\ Of(t)'[1].type = "session.created"
        /\ Of(s) = <<>> => Of(s)' # <<>> /\ Of(s)'[1].type = "session.created"
    BY <1>0, <1>1, <2>1, AppendKeepsLimit
  <2>3. KnownBegin'
    BY <2>1, <2>2 DEF KnownBegin
  <2> QED
    BY <1>0, <1>4, <2>1, <2>2, <2>3 DEF RecoveryInv
<1>7. ASSUME NEW s \in LogSessions, NEW ty \in LogTypes, SessionWorks(s, ty) PROVE RecoveryInv'
  <2>1. AppendEvent(s, ty) /\ ty # "session.recovered"
        /\ UNCHANGED <<known, late, config, todo, report, stateFile, owing>>
    BY <1>7 DEF SessionWorks
  <2>2. /\ LogInv' /\ RestartsStayLimited'
        /\ \A t \in known : Of(t)' # <<>> /\ Of(t)'[1].type = "session.created"
    BY <1>0, <2>1, AppendKeepsLimit
  <2>3. KnownBegin'
    BY <2>1, <2>2 DEF KnownBegin
  <2> QED
    BY <1>0, <1>4, <2>1, <2>2, <2>3 DEF RecoveryInv
<1>8. ASSUME NEW s \in LogSessions, SessionDeleted(s) PROVE RecoveryInv'
  <2>1. DeleteSession(s) /\ known' = known \ {s} /\ late' = late \union {s}
        /\ UNCHANGED <<config, todo, report, stateFile, owing>>
    BY <1>8 DEF SessionDeleted
  <2>2. LogInv'
    BY <1>0, <2>1, LogStep DEF LogNext
  <2>3. \A t : Of(t)' = IF t = s THEN <<>> ELSE Of(t)
    BY <1>0, <2>1, OfAfterDelete DEF DeleteSession
  <2>4. KnownBegin'
    BY <1>0, <2>1, <2>3 DEF KnownBegin
  <2>5. RestartsStayLimited'
    <3>1. ASSUME NEW t \in LogSessions PROVE Len(Only(Of(t)', RecoveredRows)) <= RestartLimit
      <4>1. CASE t # s
        BY <1>0, <2>3, <4>1 DEF RestartsStayLimited, RecoveredRows
      <4>2. CASE t = s
        <5> DEFINE none == <<>>
        <5>1. Of(t)' = none /\ none \in Seq(EventRows) /\ Len(none) = 0
          BY <2>3, <4>2
        <5> HIDE DEF none
        <5>2. Only(none, RecoveredRows) \in Seq(EventRows) /\ Len(Only(none, RecoveredRows)) <= Len(none)
          BY <5>1, OnlyIsShorter
        <5>3. Len(Only(none, RecoveredRows)) \in Nat
          BY <5>2
        <5> QED
          BY <5>1, <5>2, <5>3, RecoveryAssumption
      <4> QED
        BY <4>1, <4>2
    <3>2. RecoveredRows' = RecoveredRows
      BY DEF RecoveredRows, EventRows
    <3> QED
      BY <3>1, <3>2 DEF RestartsStayLimited, RecoveredRows
  <2> QED
    BY <1>0, <1>4, <2>1, <2>2, <2>4, <2>5 DEF RecoveryInv
<1>9. CASE SavesState
  BY <1>0, <1>3, <1>4, <1>9 DEF SavesState, RecoveryInv
<1>10. CASE Killed
  <2>1. [LogNext]_logVars /\ UNCHANGED rows
    BY <1>10 DEF Killed, LogNext, ProcessEnds
  <2>2. known' = {} /\ late' = {} /\ todo' = NoRecovery /\ report' = [s \in {} |-> ""] /\ owing' = {}
        /\ UNCHANGED <<config, stateFile>>
    BY <1>10 DEF Killed
  <2> QED
    BY <1>0, <1>2, <1>5, <2>1, <2>2 DEF RecoveryInv
<1>11. CASE Opened
  <2>1. [LogNext]_logVars /\ UNCHANGED rows
    BY <1>11 DEF Opened, LogNext, EnsureDb
  <2> QED
    BY <1>0, <1>2, <1>4, <1>11, <2>1 DEF Opened, RecoveryInv
<1>12. CASE Recover
  <2>1. todo' \in Seq(LogSessions)
    BY <1>0, <1>12, ScannedAreListed DEF Recover
  <2>2. Interrupted \subseteq LogSessions
    <3>1. Range(rows) \subseteq EventRows
      BY <1>0, RangeFacts
    <3>2. \A r \in EventRows : r.session \in LogSessions
      BY DEF EventRows
    <3> QED
      BY <3>1, <3>2 DEF Interrupted, Scanned
  <2>3. owing' \subseteq LogSessions /\ report' = [s \in {} |-> ""] /\ UNCHANGED <<logVars, known, late, config, stateFile>>
    BY <1>12, <2>2 DEF Recover
  <2> QED
    BY <1>0, <1>3, <1>5, <2>1, <2>3 DEF RecoveryInv
<1>13. CASE RecoverSession
  <2> DEFINE s == Head(todo)
  <2>1. todo \in Seq(LogSessions) /\ todo # <<>> /\ todo' = Tail(todo) /\ UNCHANGED <<known, late, config, stateFile>>
        /\ (owing' = owing \/ owing' = owing \ {s})
    BY <1>0, <1>13 DEF RecoverSession
  <2>2. s \in LogSessions /\ todo' \in Seq(LogSessions)
    BY <2>1
  <2>3. \/ \E status \in Results : Reported(s, status)
        \/ Archive(s)
        \/ Restart(s)
    <3> DEFINE type == GetEvents(s, 0, 1)[1].type
    <3>1. CASE type \in {"session.completed", "session.interrupted", "session.created"}
      BY <1>13, <3>1 DEF RecoverSession, Results
    <3>2. CASE type \notin {"session.completed", "session.interrupted", "session.created"}
      BY <1>13, <3>2 DEF RecoverSession, Results
    <3> QED
      BY <3>1, <3>2
  <2> HIDE DEF s
  <2>4. \/ UNCHANGED logVars
        \/ AppendEvent(s, "session.recovered") /\ Cardinality(Restarts(s)) < RestartLimit
    <3>1. Cardinality(Restarts(s)) \in Nat
      <4>1. Cardinality(Restarts(s)) = Len(Only(Of(s), RecoveredRows))
        BY <1>0, <2>2, RestartsAreCounted
      <4>2. Only(Of(s), RecoveredRows) \in Seq(EventRows)
        BY <1>0, EventsOfSession, OnlyIsShorter
      <4> QED
        BY <4>1, <4>2
    <3> QED
      BY <2>3, <3>1, RecoveryAssumption DEF Reported, Archive, Restart
  <2>5. \E status \in Results : report' = Told(s, status)
    BY <2>3 DEF Reported, Archive, Restart, Results
  <2>6. Reports'
    BY <1>0, <2>2, <2>5, ReportGrows
  <2>7. LogInv' /\ KnownBegin' /\ RestartsStayLimited'
    <3>1. CASE UNCHANGED logVars
      BY <1>3, <2>1, <3>1
    <3>2. CASE AppendEvent(s, "session.recovered") /\ Cardinality(Restarts(s)) < RestartLimit
      <4>1. /\ LogInv' /\ RestartsStayLimited'
            /\ \A t \in known : Of(t)' # <<>> /\ Of(t)'[1].type = "session.created"
        BY <1>0, <1>1, <2>2, <3>2, AppendKeepsLimit
      <4> QED
        BY <2>1, <4>1 DEF KnownBegin
    <3> QED
      BY <2>4, <3>1, <3>2
  <2> QED
    BY <1>0, <2>1, <2>2, <2>6, <2>7 DEF RecoveryInv
<1>14. CASE RecoveryEnds
  BY <1>0, <1>3, <1>4, <1>14 DEF RecoveryEnds, RecoveryInv
<1>15. CASE UNCHANGED recoveryVars
  BY <1>0, <1>3, <1>4, <1>15 DEF recoveryVars, RecoveryInv
<1> QED
  BY <1>6, <1>7, <1>8, <1>9, <1>10, <1>11, <1>12, <1>13, <1>14, <1>15 DEF RecoveryNext

\* What the invariant says of recovery to a reader.
LEMMA RecoveryIsTyped == RecoveryInv => RecoveryTypeOK
<1> SUFFICES ASSUME RecoveryInv PROVE RecoveryTypeOK
  OBVIOUS
<1>1. DOMAIN config = {"recover_interrupted", "archive_stale", "notify_admin"}
  BY DEF RecoveryInv
<1>2. LogTypeOK
  BY LogIsTyped DEF RecoveryInv
<1> QED
  BY <1>1, <1>2 DEF RecoveryInv, RecoveryTypeOK, KnownBegin, Reports

-----------------------------------------------------------------------------
\* The state file: a manager has read what was last written, or will not write.

Fields == [StateFields -> SUBSET Items]

KnownInv ==
    /\ text \in Fields /\ texts \subseteq Fields
    /\ IsFiniteSet(texts) /\ Cardinality(texts) <= MaxTexts
    /\ editors \subseteq Managers /\ diverged \in BOOLEAN /\ told \in Fields
    /\ ReadFieldsSurvive

\* The first state of the state file has the invariant.
LEMMA KnownInitially == KnownInit => KnownInv
<1> SUFFICES ASSUME KnownInit PROVE KnownInv
  OBVIOUS
<1>1. Blank \in Fields
  BY DEF Blank, Fields
<1>2. IsFiniteSet({}) /\ Cardinality({}) = 0
  BY FS_EmptySet
<1>3. ReadFieldsSurvive
  BY DEF KnownInit, ReadFieldsSurvive, Blank, StateFields
<1>4. IsFiniteSet(texts) /\ Cardinality(texts) = 0 /\ Cardinality(texts) <= MaxTexts
  BY <1>2, KnownAssumption DEF KnownInit, KnownAssumption
<1>5. text \in Fields /\ told \in Fields /\ texts \subseteq Fields
  BY <1>1 DEF KnownInit
<1> QED
  BY <1>3, <1>4, <1>5 DEF KnownInit, KnownInv

\* A text that is written is one the manager's fields are read back from.
LEMMA SavingKeeps ==
  ASSUME KnownInv, NEW m \in Managers, NEW state \in Fields, SaveState(m, state)
  PROVE  /\ text' \in Fields /\ texts' \subseteq Fields
         /\ IsFiniteSet(texts') /\ Cardinality(texts') <= MaxTexts
         /\ \A f \in StateFields : f # "environment" => text'[f] = state[f]
<1>1. ToMarkdown(state) \in Fields
      /\ \A f \in StateFields : f # "environment" => ToMarkdown(state)[f] = state[f]
  BY DEF ToMarkdown, Fields, StateFields
<1>2. CASE UNCHANGED texts
  BY <1>1, <1>2 DEF SaveState, KnownInv
<1>3. CASE Cardinality(texts) < MaxTexts /\ texts' = texts \union {ToMarkdown(state)}
  <2>1. IsFiniteSet(texts') /\ Cardinality(texts') <= Cardinality(texts) + 1
    <3>1. IsFiniteSet(texts) /\ Cardinality(texts) \in Nat
      BY FS_CardinalityType DEF KnownInv
    <3> DEFINE x == ToMarkdown(state)
    <3> HIDE DEF x
    <3>2. IsFiniteSet(texts \union {x})
      BY <3>1, FS_AddElement
    <3>3. Cardinality(texts \union {x}) = Cardinality(texts) \/ Cardinality(texts \union {x}) = Cardinality(texts) + 1
      BY <3>1, FS_AddElement
    <3>4. texts' = texts \union {x}
      BY <1>3 DEF x
    <3> QED
      BY <3>1, <3>2, <3>3, <3>4
  <2>2. Cardinality(texts) \in Nat /\ Cardinality(texts') \in Nat
    BY <2>1, FS_CardinalityType DEF KnownInv
  <2> QED
    BY <1>1, <1>3, <2>1, <2>2, KnownAssumption DEF SaveState, KnownInv, KnownAssumption
<1> QED
  BY <1>2, <1>3 DEF SaveState

\* Every step of the state file keeps the invariant.
LEMMA KnownStep == KnownInv /\ [KnownNext]_knownVars => KnownInv'
<1> SUFFICES ASSUME KnownInv, [KnownNext]_knownVars PROVE KnownInv'
  OBVIOUS
<1>0. "key_decisions" \in StateFields /\ "todo_items" \in StateFields
  BY DEF StateFields
<1>1. ASSUME NEW m \in Managers, NEW f \in StateFields, NEW x \in Items, UpdateState(m, f, x)
      PROVE  KnownInv'
  <2>1. PICK md \in Loadable(m) :
           /\ SaveState(m, [FromMarkdown(m, md) EXCEPT ![f] = @ \union {x}])
           /\ editors' = editors \union {m}
           /\ diverged' = (diverged \/ md # text)
           /\ told' = [told EXCEPT ![f] = @ \union {x}]
    BY <1>1 DEF UpdateState
  <2>2. md \in Fields
    BY DEF Loadable, KnownInv
  <2> DEFINE state == [FromMarkdown(m, md) EXCEPT ![f] = @ \union {x}]
  <2>3. state \in Fields /\ FromMarkdown(m, md) \in Fields
    BY <2>2 DEF FromMarkdown, Fields
  <2>4. \A g \in StateFields : g \in Reads(m) =>
            state[g] = IF g = f THEN md[g] \union {x} ELSE md[g]
    BY <2>3 DEF FromMarkdown, Fields
  <2>5. /\ text' \in Fields /\ texts' \subseteq Fields
        /\ IsFiniteSet(texts') /\ Cardinality(texts') <= MaxTexts
        /\ \A g \in StateFields : g # "environment" => text'[g] = state[g]
    <3> HIDE DEF state
    <3> QED
      BY <2>1, <2>3, SavingKeeps DEF state
  <2>6. told' \in Fields /\ \A g \in StateFields :
            told'[g] = IF g = f THEN told[g] \union {x} ELSE told[g]
    BY <2>1 DEF KnownInv, Fields
  <2> HIDE DEF state
  <2>7. ASSUME ~diverged'
        PROVE  /\ told'.key_decisions \subseteq text'.key_decisions
               /\ "StateManager" \notin editors' => told'.todo_items \subseteq text'.todo_items
    <3>1. md = text /\ ~diverged
      BY <2>1, <2>7
    <3>2. told["key_decisions"] \subseteq text["key_decisions"]
      BY <3>1 DEF KnownInv, ReadFieldsSurvive
    <3>3. "key_decisions" \in Reads(m)
      BY DEF Reads
    <3>4. text'["key_decisions"] = state["key_decisions"]
      BY <2>5, <1>0
    <3>5. told'["key_decisions"] \subseteq text'["key_decisions"]
      BY <3>1, <3>2, <3>3, <3>4, <2>4, <2>6, <1>0
    <3>6. ASSUME "StateManager" \notin editors'
          PROVE  told'["todo_items"] \subseteq text'["todo_items"]
      <4>1. m = "SessionStateManager" /\ "StateManager" \notin editors
        BY <2>1, <3>6 DEF Managers
      <4>2. told["todo_items"] \subseteq text["todo_items"]
        BY <3>1, <4>1 DEF KnownInv, ReadFieldsSurvive
      <4>3. "todo_items" \in Reads(m)
        BY <4>1 DEF Reads
      <4>4. text'["todo_items"] = state["todo_items"]
        BY <2>5, <1>0
      <4> QED
        BY <3>1, <4>2, <4>3, <4>4, <2>4, <2>6, <1>0
    <3> QED
      BY <3>5, <3>6
  <2>8. editors' \subseteq Managers /\ diverged' \in BOOLEAN
    BY <2>1 DEF KnownInv
  <2>9. ReadFieldsSurvive'
    BY <2>7 DEF ReadFieldsSurvive
  <2> QED
    BY <2>5, <2>6, <2>8, <2>9 DEF KnownInv
<1>2. ASSUME NEW fresh \in BOOLEAN, SaveFullSnapshot(fresh) PROVE KnownInv'
  <2> DEFINE m == "SessionStateManager"
             state == IF fresh THEN Blank ELSE FromMarkdown(m, text)
  <2>1. /\ SaveState(m, state) /\ editors' = editors \union {m}
        /\ diverged' = (diverged \/ fresh) /\ told' = told
    BY <1>2 DEF SaveFullSnapshot
  <2>2. state \in Fields /\ m \in Managers
    BY DEF Blank, Fields, FromMarkdown, KnownInv, Managers
  <2>3. ~fresh => state["key_decisions"] = text["key_decisions"]
                  /\ state["todo_items"] = text["todo_items"]
    BY <1>0 DEF FromMarkdown, Reads
  <2>4. /\ text' \in Fields /\ texts' \subseteq Fields
        /\ IsFiniteSet(texts') /\ Cardinality(texts') <= MaxTexts
        /\ \A g \in StateFields : g # "environment" => text'[g] = state[g]
    <3> HIDE DEF state, m
    <3> QED
      BY <2>1, <2>2, SavingKeeps
  <2>5. text'["key_decisions"] = state["key_decisions"] /\ text'["todo_items"] = state["todo_items"]
    BY <2>4, <1>0
  <2> HIDE DEF state
  <2>6. ReadFieldsSurvive'
    BY <2>1, <2>3, <2>5 DEF KnownInv, ReadFieldsSurvive
  <2> QED
    BY <2>1, <2>2, <2>4, <2>6 DEF KnownInv
<1>3. CASE SaveCut
  BY <1>3 DEF SaveCut, KnownInv, ReadFieldsSurvive, Blank, Fields
<1>4. CASE UNCHANGED knownVars
  BY <1>4 DEF knownVars, KnownInv, ReadFieldsSurvive
<1> QED
  BY <1>1, <1>2, <1>3, <1>4 DEF KnownNext

\* What the invariant says of the state file to a reader.
LEMMA KnownIsTyped == KnownInv => KnownTypeOK
  BY DEF KnownInv, KnownTypeOK, Fields

-----------------------------------------------------------------------------
\* The checkpoints: the newest of an agent is the one it wrote last.

Agents(n) == [state : AgentStates, status : AgentStates, results : 0..MaxSteps, lastAt : 0..n]

Ckpts(n) == [at : 0..n, state : AgentStates, results : 0..MaxSteps, whole : BOOLEAN]

CkptInv ==
    /\ now \in 0..MaxClock /\ agent \in Agents(now)
    /\ ckptFiles \in Seq(Ckpts(now)) /\ begun \subseteq Ckpts(now)
    /\ ResumesFromLatest

\* The first state of the checkpoints has the invariant.
LEMMA CkptInitially == CkptInit => CkptInv
<1> SUFFICES ASSUME CkptInit PROVE CkptInv
  OBVIOUS
<1>1. now \in 0..MaxClock /\ now = 0
  BY CkptAssumption DEF CkptInit, CkptAssumption
<1>2. agent \in Agents(now)
  BY <1>1, CkptAssumption DEF CkptInit, CkptAssumption, Agents, AgentStates
<1> QED
  BY <1>1, <1>2 DEF CkptInit, CkptInv, ResumesFromLatest

\* A checkpoint that is begun is the last file there is, whole or cut.
LEMMA WritingIsLast ==
  ASSUME CkptInv, NEW a \in Agents(now), NEW outcome \in Outcomes, CreateCheckpoint(a, outcome)
  PROVE  CkptInv'
<1> DEFINE c == [at |-> now, state |-> a.state, results |-> a.results,
                 whole |-> outcome = "written"]
           kept == Only(ckptFiles, {f \in Range(ckptFiles) : f.at # c.at})
<1>1. now \in Nat /\ now \in 0..MaxClock /\ now' = now
  BY CkptAssumption DEF CkptInv, CkptAssumption, CreateCheckpoint
<1>2. (outcome = "written") \in BOOLEAN
  OBVIOUS
<1>3. c \in Ckpts(now)
  BY <1>1, <1>2 DEF Agents, Ckpts
<1>4. kept \in Seq(Ckpts(now))
  BY OnlyIsShorter DEF CkptInv
<1>5. FreshAgent \in Agents(now)
  BY <1>1, CkptAssumption DEF FreshAgent, Agents, AgentStates, CkptAssumption
<1>6. [a EXCEPT !.lastAt = now] \in Agents(now)
  BY <1>1 DEF Agents
<1>7. agent' \in Agents(now)
  BY <1>5, <1>6 DEF CreateCheckpoint, Outcomes
<1>8. CASE outcome = "unopened"
  <2>1. UNCHANGED <<ckptFiles, begun>>
    BY <1>8 DEF CreateCheckpoint
  <2> QED
    BY <1>1, <1>7, <2>1 DEF CkptInv, ResumesFromLatest, Latest
<1>9. CASE outcome # "unopened"
  <2>1. ckptFiles' = Append(kept, c) /\ begun' = {c}
    BY <1>9 DEF CreateCheckpoint, WriteCheckpoint
  <2> HIDE DEF c, kept
  <2>2. Len(Append(kept, c)) = Len(kept) + 1 /\ Append(kept, c)[Len(kept) + 1] = c
    BY <1>3, <1>4
  <2>3. Append(kept, c) \in Seq(Ckpts(now)) /\ Len(kept) \in Nat
    BY <1>3, <1>4
  <2>4. Append(kept, c) # <<>>
    BY <2>2, <2>3
  <2>5. ckptFiles' \in Seq(Ckpts(now)) /\ ckptFiles' # <<>> /\ Last(ckptFiles') = c
    BY <2>1, <2>2, <2>3, <2>4 DEF Last
  <2> QED
    BY <1>1, <1>3, <1>7, <2>1, <2>5 DEF CkptInv, ResumesFromLatest, Latest
<1> QED
  BY <1>8, <1>9

\* Every step of the checkpoints keeps the invariant.
LEMMA CkptStep == CkptInv /\ [CkptNext]_ckptVars => CkptInv'
<1> SUFFICES ASSUME CkptInv, [CkptNext]_ckptVars PROVE CkptInv'
  OBVIOUS
<1>0. now \in Nat /\ now \in 0..MaxClock /\ MaxClock \in Nat /\ MaxSteps \in Nat
  BY CkptAssumption DEF CkptInv, CkptAssumption
<1>1. CASE Ticks
  <2>1. now' = now + 1 /\ now' \in 0..MaxClock /\ 0..now \subseteq 0..now'
    BY <1>0, <1>1 DEF Ticks
  <2>2. Agents(now) \subseteq Agents(now') /\ Ckpts(now) \subseteq Ckpts(now')
    BY <2>1 DEF Agents, Ckpts
  <2>3. Seq(Ckpts(now)) \subseteq Seq(Ckpts(now'))
    BY <2>2
  <2> QED
    BY <1>1, <2>1, <2>2, <2>3 DEF Ticks, CkptInv, ResumesFromLatest, Latest
<1>2. ASSUME NEW state \in AgentStates, NEW results \in 0..MaxSteps, NEW status \in AgentStates,
             agent' = [agent EXCEPT !.state = state, !.status = status, !.results = results],
             UNCHANGED <<now, ckptFiles, begun>>
      PROVE  CkptInv'
  <2>1. agent' \in Agents(now)
    BY <1>2 DEF CkptInv, Agents
  <2> QED
    BY <1>2, <2>1 DEF CkptInv, ResumesFromLatest, Latest
<1>3. /\ agent.state \in AgentStates /\ agent.status \in AgentStates /\ agent.results \in 0..MaxSteps
      /\ agent = [state |-> agent.state, status |-> agent.status, results |-> agent.results,
                  lastAt |-> agent.lastAt]
  BY DEF CkptInv, Agents
<1>4. CASE Start
  <2>1. agent' = [agent EXCEPT !.state = "running", !.status = "running", !.results = agent.results]
    BY <1>3, <1>4 DEF Start
  <2> QED
    BY <1>2, <1>3, <1>4, <2>1 DEF Start, AgentStates
<1>5. ASSUME NEW reason \in {"completed", "failed"}, Stop(reason) PROVE CkptInv'
  <2>1. agent' = [agent EXCEPT !.state = reason, !.status = reason, !.results = agent.results]
    BY <1>3, <1>5 DEF Stop
  <2> QED
    BY <1>2, <1>3, <1>5, <2>1 DEF Stop, AgentStates
<1>6. CASE SetError
  <2>1. agent' = [agent EXCEPT !.state = "failed", !.status = "failed", !.results = agent.results]
    BY <1>3, <1>6 DEF SetError
  <2> QED
    BY <1>2, <1>3, <1>6, <2>1 DEF SetError, AgentStates
<1>7. CASE AddToolResult
  <2>1. agent' = [agent EXCEPT !.state = agent.state, !.status = agent.status, !.results = agent.results + 1]
    BY <1>3, <1>7 DEF AddToolResult
  <2>2. agent.results + 1 \in 0..MaxSteps
    BY <1>0, <1>3, <1>7 DEF AddToolResult
  <2> QED
    BY <1>2, <1>3, <1>7, <2>1, <2>2 DEF AddToolResult
<1>8. ASSUME NEW outcome \in Outcomes, Pause(outcome) PROVE CkptInv'
  <2>1. [agent EXCEPT !.state = "paused", !.status = "paused"] \in Agents(now)
    BY DEF CkptInv, Agents, AgentStates
  <2> QED
    BY <1>8, <2>1, WritingIsLast DEF Pause
<1>9. ASSUME NEW outcome \in Outcomes, CheckpointIfNeeded(outcome) PROVE CkptInv'
  BY <1>9, WritingIsLast DEF CheckpointIfNeeded, CkptInv
<1>10. CASE Resume
  <2>1. Latest \in Ckpts(now)
    <3>1. Len(ckptFiles) \in 1..Len(ckptFiles)
      BY <1>10 DEF Resume, CkptInv
    <3> QED
      BY <3>1 DEF CkptInv, Latest, Last
  <2>2. Latest.state \in AgentStates /\ Latest.results \in 0..MaxSteps
    BY <2>1 DEF Ckpts
  <2>3. "running" \in AgentStates
    BY DEF AgentStates
  <2>4. /\ agent' = [agent EXCEPT !.state = Latest.state, !.status = "running", !.results = Latest.results]
        /\ UNCHANGED <<now, ckptFiles, begun>>
    BY <1>10 DEF Resume
  <2> HIDE DEF Latest
  <2> QED
    BY <1>2, <2>2, <2>3, <2>4
<1>11. ASSUME NEW n \in 1..2, CleanupOldCheckpoints(n) PROVE CkptInv'
  <2> DEFINE m == Len(ckptFiles)
             k == Max({1, m + 1 - n})
  <2>1. ckptFiles \in Seq(Ckpts(now)) /\ m \in Nat /\ m > n
    BY <1>11 DEF CkptInv, CleanupOldCheckpoints
  <2>2. ckptFiles' = SubSeq(ckptFiles, k, m) /\ UNCHANGED <<now, agent, begun>>
    BY <1>11 DEF CleanupOldCheckpoints, KeepLast
  <2> HIDE DEF m
  <2>3. k = m + 1 - n /\ k \in 1..m
    <3>1. m + 1 - n \in Nat /\ m + 1 - n >= 1 /\ m + 1 - n <= m
      BY <2>1
    <3> DEFINE top == m + 1 - n
    <3>2. \A x \in {1, top} : (\A y \in {1, top} : x >= y) => x = top
      BY <3>1
    <3>3. \A y \in {1, top} : top >= y
      BY <3>1
    <3> HIDE DEF top
    <3>4. Max({1, top}) = top
      BY <3>2, <3>3 DEF Max
    <3> QED
      BY <3>1, <3>4 DEF top
  <2> HIDE DEF k
  <2>4. DOMAIN ckptFiles = 1..m
    BY <2>1 DEF m
  <2>5. ckptFiles' \in Seq(Ckpts(now)) /\ Len(ckptFiles') = m - k + 1 /\ ckptFiles'[m - k + 1] = ckptFiles[m]
    <3>1. \A i \in k..m : ckptFiles[i] \in Ckpts(now)
      BY <2>1, <2>3, <2>4
    <3>2. SubSeq(ckptFiles, k, m) = [i \in 1..(m - k + 1) |-> ckptFiles[k + i - 1]]
      BY <2>1, <2>3
    <3>3. m - k + 1 \in 1..(m - k + 1) /\ k + (m - k + 1) - 1 = m /\ m - k + 1 \in Nat
      BY <2>1, <2>3
    <3>4. Len(SubSeq(ckptFiles, k, m)) = m - k + 1 /\ SubSeq(ckptFiles, k, m)[m - k + 1] = ckptFiles[m]
      BY <3>2, <3>3
    <3>5. SubSeq(ckptFiles, k, m) \in Seq(Ckpts(now))
      BY <2>1, <2>3, <2>4, <3>1
    <3> QED
      BY <2>2, <3>4, <3>5
  <2>6. ckptFiles' # <<>> /\ ckptFiles # <<>>
    BY <2>1, <2>3, <2>5 DEF m
  <2>7. Last(ckptFiles') = Last(ckptFiles)
    BY <2>5 DEF Last, m
  <2> QED
    BY <2>2, <2>5, <2>6, <2>7 DEF CkptInv, ResumesFromLatest, Latest
<1>12. CASE DeleteSessionCheckpoints
  BY <1>12 DEF DeleteSessionCheckpoints, CkptInv, ResumesFromLatest
<1>13. CASE ProcessDies
  <2>1. FreshAgent \in Agents(now)
    BY <1>0 DEF FreshAgent, Agents, AgentStates
  <2> QED
    BY <1>13, <2>1 DEF ProcessDies, CkptInv, ResumesFromLatest, Latest
<1>14. CASE UNCHANGED ckptVars
  BY <1>14 DEF ckptVars, CkptInv, ResumesFromLatest, Latest
<1> QED
  BY <1>1, <1>4, <1>5, <1>6, <1>7, <1>8, <1>9, <1>10, <1>11, <1>12, <1>13, <1>14 DEF CkptNext

\* What the invariant says of the checkpoints to a reader.
LEMMA CkptIsTyped == CkptInv => CkptTypeOK
  BY DEF CkptInv, CkptTypeOK, Agents, Ckpts, CkptFile

-----------------------------------------------------------------------------
\* The backups: a restore that left no file left its copy.

BackupFiles == [kind : {"db", "gz", "pre"}, at : 0..MaxTicks, content : 0..MaxContents]

\* While the database is missing or about to be, what it held is in a file no cleanup
\* goes by: one that a restore made before it.
HeldIsSaved ==
    database = {} \/ restoring.pc # "no" =>
        \A c \in held : \E f \in backups : f.kind = "pre" /\ f.content = c

BackupInv ==
    /\ tick \in 0..MaxTicks /\ contents \in 0..MaxContents
    /\ database = {} \/ \E c \in 0..MaxContents : database = {c}
    /\ backups \subseteq BackupFiles /\ metas \subseteq 0..MaxTicks
    /\ restoring \in [pc : {"no", "saved", "removed"}, from : 0..MaxContents]
    /\ held \subseteq 0..MaxContents
    /\ HeldIsSaved

\* The first state of the backups has the invariant.
LEMMA BackupInitially == BackupInit => BackupInv
  BY BackupAssumption
  DEF BackupAssumption, BackupInit, BackupInv, HeldIsSaved, NotRestoring, Empty

\* Every step of the backups keeps the invariant.
LEMMA BackupStep == BackupInv /\ [BackupNext]_backupVars => BackupInv'
<1> SUFFICES ASSUME BackupInv, [BackupNext]_backupVars PROVE BackupInv'
  OBVIOUS
<1> USE DEF BackupInv
<1>0. 0 \in 0..MaxContents /\ MaxContents \in Nat /\ MaxTicks \in Nat
  BY BackupAssumption DEF BackupAssumption
<1>1. CASE BackupTicks
  <2>1. tick' \in 0..MaxTicks
    BY <1>0, <1>1 DEF BackupTicks
  <2> QED
    BY <1>1, <2>1 DEF BackupTicks, HeldIsSaved
<1>2. CASE WriteDatabase
  <2>1. contents + 1 \in 0..MaxContents
    BY <1>0, <1>2 DEF WriteDatabase
  <2>2. HeldIsSaved'
    BY <1>2 DEF WriteDatabase, BackupIdle, HeldIsSaved
  <2> QED
    BY <1>2, <2>1, <2>2 DEF WriteDatabase
<1>3. \E c \in 0..MaxContents : Connected = {c}
  BY <1>0 DEF Connected, Empty
<1>4. ASSUME NEW compress \in BOOLEAN, Backup(compress) PROVE BackupInv'
  <2>1. PICK c \in Connected :
           LET plain == File("db", c)
               f == IF compress THEN File("gz", c) ELSE plain
           IN  backups' = Without(Without(backups, plain), f) \union {f}
    BY <1>4 DEF Backup
  <2>2. c \in 0..MaxContents
    BY <1>3
  <2>3. backups' \subseteq BackupFiles
    BY <2>1, <2>2 DEF File, Without, BackupFiles
  <2>4. HeldIsSaved'
    BY <1>3, <1>4 DEF Backup, BackupIdle, HeldIsSaved
  <2> QED
    BY <1>3, <1>4, <2>3, <2>4 DEF Backup
<1>5. ASSUME NEW f \in backups, BeginRestore(f) PROVE BackupInv'
  <2>1. PICK c \in Connected :
           /\ PreRestore(c)
           /\ restoring' = [pc |-> "saved",
                            from |-> IF f.kind = "pre" /\ f.at = tick THEN c ELSE f.content]
    BY <1>5 DEF BeginRestore
  <2>2. c \in 0..MaxContents /\ Connected = {c} /\ f.content \in 0..MaxContents
    BY <1>3 DEF BackupFiles
  <2>3. backups' \subseteq BackupFiles /\ File("pre", c) \in backups'
    BY <2>1, <2>2 DEF PreRestore, File, Without, BackupFiles
  <2>4. File("pre", c).kind = "pre" /\ File("pre", c).content = c
    BY DEF File
  <2>5. database' = {c} /\ held' = {c} /\ UNCHANGED <<tick, contents, metas>>
    BY <1>5, <2>2 DEF BeginRestore
  <2>6. HeldIsSaved'
    BY <2>3, <2>4, <2>5 DEF HeldIsSaved
  <2>7. restoring' \in [pc : {"no", "saved", "removed"}, from : 0..MaxContents]
    BY <2>1, <2>2
  <2>8. held' \subseteq 0..MaxContents
    BY <2>2, <2>5
  <2> QED
    BY <2>2, <2>3, <2>5, <2>6, <2>7, <2>8
<1>6. CASE RemoveDatabase
  <2>1. restoring' \in [pc : {"no", "saved", "removed"}, from : 0..MaxContents]
    BY <1>6 DEF RemoveDatabase
  <2>2. HeldIsSaved'
    BY <1>6 DEF RemoveDatabase, HeldIsSaved
  <2> QED
    BY <1>6, <2>1, <2>2 DEF RemoveDatabase
<1>7. CASE CopyIn
  <2>1. HeldIsSaved'
    BY <1>7 DEF CopyIn, HeldIsSaved, NotRestoring
  <2> QED
    BY <1>0, <1>7, <2>1 DEF CopyIn, NotRestoring, Empty
<1>8. CASE BackupCrash
  BY <1>0, <1>8 DEF BackupCrash, BackupIdle, HeldIsSaved, NotRestoring, Empty
<1>9. CASE CleanupOldBackups
  <2> DEFINE old == {m \in metas : m + Retention < tick}
             lost == UNION {b.file : b \in {b \in ListBackups : b.at \in old}}
  <2>1. backups' = backups \ lost /\ metas' = metas \ old
        /\ UNCHANGED <<tick, database, contents, restoring, held>>
    BY <1>9 DEF CleanupOldBackups
  <2>2. \A f \in lost : f.kind = "db"
    BY DEF ListBackups
  <2> HIDE DEF lost
  <2>3. \A f \in backups : f.kind = "pre" => f \in backups'
    BY <2>1, <2>2
  <2>4. HeldIsSaved'
    BY <2>1, <2>3 DEF HeldIsSaved
  <2>5. metas' \subseteq 0..MaxTicks
    BY <2>1
  <2> HIDE DEF old
  <2> QED
    BY <2>1, <2>4, <2>5
<1>10. CASE UNCHANGED backupVars
  BY <1>10 DEF backupVars, HeldIsSaved
<1> QED
  BY <1>1, <1>2, <1>4, <1>5, <1>6, <1>7, <1>8, <1>9, <1>10 DEF BackupNext

\* What the invariant says of the backups to a reader.
LEMMA BackupsAreTyped == BackupInv => BackupTypeOK /\ MissingIsSaved
<1> SUFFICES ASSUME BackupInv PROVE BackupTypeOK /\ MissingIsSaved
  OBVIOUS
<1>1. Cardinality(database) <= 1 /\ database \subseteq 0..MaxContents
  <2>1. Cardinality({}) = 0 /\ \A c : Cardinality({c}) = 1
    BY FS_EmptySet, FS_Singleton
  <2>2. ASSUME NEW c \in 0..MaxContents, database = {c}
        PROVE  Cardinality(database) <= 1 /\ database \subseteq 0..MaxContents
    <3>1. Cardinality(database) = 1
      BY <2>1, <2>2
    <3> QED
      BY <2>2, <3>1
  <2>3. CASE database = {}
    <3>1. Cardinality(database) = 0
      BY <2>1, <2>3
    <3> QED
      BY <2>3, <3>1
  <2> QED
    BY <2>2, <2>3 DEF BackupInv
<1>2. BackupTypeOK
  BY <1>1 DEF BackupInv, BackupTypeOK, BackupFiles
<1>3. MissingIsSaved
  BY DEF BackupInv, MissingIsSaved, HeldIsSaved
<1> QED
  BY <1>2, <1>3

-----------------------------------------------------------------------------
\* The scheduler of dumps: what is recorded as a success is on the disk.

DatabaseSet == {"postgres", "redis", "sqlite", "neo4j"}

Dumps == [db : DatabaseSet, at : 0..MaxDays, mtime : 0..MaxDays]

BackupRecords == [db : DatabaseSet, at : 0..MaxDays, status : {"success", "error"},
                  how : {"error", "nothing", "dump", "copy"}]

\* A dump's date is the day of its record, and the file is there until it expires.
SchedulerInv ==
    /\ today \in 0..MaxDays /\ sqliteDay \in 0..today
    /\ dumps \subseteq Dumps
    /\ backup_records \in Seq(BackupRecords)
    /\ live \in [DatabaseSet -> {"own", "empty", "restored"}]
    /\ restores \subseteq [db : DatabaseSet, status : {"success", "error"}]
    /\ \A r \in Range(backup_records) :
           r.how = "dump" /\ r.at + retention_days >= today =>
               [db |-> r.db, at |-> r.at, mtime |-> r.at] \in dumps

\* The databases, in the order in which a round takes them.
LEMMA DatabasesAre ==
  /\ Databases[1] = "postgres" /\ Databases[2] = "redis"
  /\ Databases[3] = "sqlite" /\ Databases[4] = "neo4j"
  /\ Range(Databases) = DatabaseSet
<1>1. DOMAIN Databases = 1..4 /\ 1..4 = {1, 2, 3, 4}
  BY DEF Databases
<1>2. /\ Databases[1] = "postgres" /\ Databases[2] = "redis"
      /\ Databases[3] = "sqlite" /\ Databases[4] = "neo4j"
  BY DEF Databases
<1>3. Range(Databases) = DatabaseSet
  BY <1>1, <1>2 DEF Range, DatabaseSet
<1> QED
  BY <1>2, <1>3

\* The first state of the scheduler has the invariant.
LEMMA SchedulerInitially == SchedulerInit => SchedulerInv
<1> SUFFICES ASSUME SchedulerInit PROVE SchedulerInv
  OBVIOUS
<1>1. Range(backup_records) = {} /\ backup_records \in Seq(BackupRecords)
  BY DEF SchedulerInit, Range
<1>2. 0 \in 0..MaxDays /\ 0 \in 0..0
  BY SchedulerAssumption DEF SchedulerAssumption
<1>3. live \in [DatabaseSet -> {"own", "empty", "restored"}]
  BY DatabasesAre DEF SchedulerInit
<1> QED
  BY <1>1, <1>2, <1>3 DEF SchedulerInit, SchedulerInv

\* A round of dumps: what it records as a success it has put on the disk.
LEMMA RoundKeeps ==
  ASSUME SchedulerInv, NEW how, BackupAll(how)
  PROVE  SchedulerInv'
<1> DEFINE round == [i \in 1..4 |-> RecordOf(Databases[i], how[Databases[i]])]
           made == {FileOf(r) : r \in {r \in Range(round) : r.how \in {"dump", "copy"}}}
<1>0. today \in Nat /\ sqliteDay \in Nat /\ today \in 0..MaxDays /\ sqliteDay \in 0..MaxDays
      /\ retention_days \in Nat
  BY SchedulerAssumption DEF SchedulerInv, SchedulerAssumption
<1>1. /\ \A d \in DatabaseSet : how[d] \in Comes(d)
      /\ backup_records' = backup_records \o round
      /\ dumps' = {f \in dumps \union made : ~Expired(f)}
      /\ UNCHANGED <<today, sqliteDay, live, restores>>
  BY DatabasesAre DEF BackupAll
<1>2. \A i \in 1..4 : Databases[i] \in DatabaseSet
  BY DatabasesAre DEF DatabaseSet
<1>3. \A d \in DatabaseSet : RecordOf(d, how[d]) \in BackupRecords
  <2>1. \A d \in DatabaseSet : how[d] \in {"error", "nothing", "dump", "copy"}
    BY <1>1 DEF Comes, DatabaseSet
  <2> QED
    BY <1>0, <2>1 DEF RecordOf, BackupRecords
<1>4. round \in Seq(BackupRecords) /\ Range(round) \subseteq BackupRecords
  <2>1. \A i \in 1..4 : round[i] \in BackupRecords
    BY <1>2, <1>3
  <2>2. round \in [1..4 -> BackupRecords]
    BY <2>1
  <2>3. DOMAIN round = 1..4
    OBVIOUS
  <2> HIDE DEF round
  <2>4. round \in Seq(BackupRecords)
    BY <2>2, SeqDef
  <2>5. Range(round) \subseteq BackupRecords
    BY <2>1, <2>3 DEF Range
  <2> QED
    BY <2>4, <2>5
<1>5. \A r \in Range(round) : r.at = today
  BY DEF Range, RecordOf
<1> HIDE DEF round
<1>6. \A r \in BackupRecords : r.at = today => FileOf(r) \in Dumps
  BY <1>0 DEF FileOf, BackupRecords, Dumps
<1>7. dumps' \subseteq Dumps
  BY <1>1, <1>4, <1>5, <1>6 DEF SchedulerInv
<1>8. backup_records' \in Seq(BackupRecords) /\ Range(backup_records') = Range(backup_records) \union Range(round)
  <2>1. backup_records \in Seq(BackupRecords)
    BY DEF SchedulerInv
  <2>2. backup_records \o round \in Seq(BackupRecords)
    BY <1>4, <2>1
  <2> DEFINE n == Len(backup_records)
             m == Len(round)
             both == backup_records \o round
  <2>3. /\ n \in Nat /\ m \in Nat /\ DOMAIN backup_records = 1..n /\ DOMAIN round = 1..m
        /\ Len(both) = n + m /\ DOMAIN both = 1..Len(both)
        /\ \A i \in 1..Len(both) : both[i] = IF i <= n THEN backup_records[i] ELSE round[i - n]
    BY <1>4, <2>1, ConcatProperties
  <2> HIDE DEF n, m, both
  <2>4. \A i \in 1..(n + m) : i \in 1..n \/ i - n \in 1..m
    BY <2>3
  <2>5. \A i \in 1..n : i \in 1..(n + m) /\ i <= n
    BY <2>3
  <2>6. \A i \in 1..m : i + n \in 1..(n + m) /\ ~(i + n <= n) /\ (i + n) - n = i
    BY <2>3
  <2>7. Range(both) \subseteq Range(backup_records) \union Range(round)
    BY <2>3, <2>4 DEF Range
  <2>8. \A i \in 1..n : backup_records[i] = both[i]
    BY <2>3, <2>5
  <2>9. \A i \in 1..m : round[i] = both[i + n]
    BY <2>3, <2>6
  <2>10. Range(backup_records) \subseteq Range(both) /\ Range(round) \subseteq Range(both)
    <3>1. ASSUME NEW i \in 1..n PROVE backup_records[i] \in Range(both)
      BY <2>3, <2>5, <2>8 DEF Range
    <3>2. ASSUME NEW i \in 1..m PROVE round[i] \in Range(both)
      <4>1. i + n \in DOMAIN both /\ round[i] = both[i + n]
        BY <2>3, <2>6, <2>9
      <4> QED
        BY <4>1 DEF Range
    <3> QED
      BY <2>3, <3>1, <3>2 DEF Range
  <2> QED
    BY <1>1, <2>2, <2>7, <2>10 DEF both
<1>9. ASSUME NEW r \in Range(backup_records'), r.how = "dump", r.at + retention_days >= today
      PROVE  [db |-> r.db, at |-> r.at, mtime |-> r.at] \in dumps'
  <2> DEFINE f == [db |-> r.db, at |-> r.at, mtime |-> r.at]
  <2>1. r.at \in Nat
    <3>1. Range(backup_records') \subseteq BackupRecords
      BY <1>8 DEF Range
    <3> QED
      BY <1>9, <3>1 DEF BackupRecords
  <2>2. ~Expired(f)
    BY <1>0, <1>9, <2>1 DEF Expired
  <2>3. f \in dumps \union made
    <3>1. CASE r \in Range(backup_records)
      BY <1>9, <3>1 DEF SchedulerInv
    <3>2. CASE r \in Range(round)
      <4>1. FileOf(r) = f
        BY <1>9 DEF FileOf
      <4>2. FileOf(r) \in made
        BY <1>9, <3>2
      <4> QED
        BY <4>1, <4>2
    <3> QED
      BY <1>8, <3>1, <3>2
  <2> HIDE DEF f
  <2>4. f \in dumps'
    BY <1>1, <2>2, <2>3
  <2> QED
    BY <2>4 DEF f
<1> QED
  BY <1>1, <1>7, <1>8, <1>9 DEF SchedulerInv

\* Every step of the scheduler keeps the invariant.
LEMMA SchedulerStep == SchedulerInv /\ [SchedulerNext]_schedulerVars => SchedulerInv'
<1> SUFFICES ASSUME SchedulerInv, [SchedulerNext]_schedulerVars PROVE SchedulerInv'
  OBVIOUS
<1>1. CASE DayPasses
  <2>1. /\ today' = today + 1 /\ today' \in 0..MaxDays /\ sqliteDay' \in 0..today'
        /\ today \in Nat
    BY <1>1, SchedulerAssumption DEF DayPasses, SchedulerInv, SchedulerAssumption
  <2>2. \A r \in Range(backup_records) : r.at \in Nat /\ (r.at + retention_days >= today' => r.at + retention_days >= today)
    <3>1. Range(backup_records) \subseteq BackupRecords
      BY DEF SchedulerInv, Range
    <3>2. retention_days \in Nat
      BY SchedulerAssumption DEF SchedulerAssumption
    <3> QED
      BY <2>1, <3>1, <3>2 DEF BackupRecords
  <2>3. UNCHANGED <<dumps, backup_records, live, restores>>
    BY <1>1 DEF DayPasses
  <2> QED
    BY <2>1, <2>2, <2>3 DEF SchedulerInv
<1>2. ASSUME NEW how, BackupAll(how) PROVE SchedulerInv'
  BY <1>2, RoundKeeps
<1>3. ASSUME NEW f \in dumps, NEW s \in {"success", "error"}, NEW l \in {"own", "empty", "restored"},
             RestoreDatabase(f, <<s, l>>)
      PROVE  SchedulerInv'
  <2>1. f.db \in DatabaseSet
    BY DEF SchedulerInv, Dumps
  <2>2. /\ live' = [live EXCEPT ![f.db] = IF l = "own" THEN @ ELSE l]
        /\ restores' = {r \in restores : r.db # f.db} \union {[db |-> f.db, status |-> s]}
        /\ UNCHANGED <<today, sqliteDay, dumps, backup_records>>
    BY <1>3 DEF RestoreDatabase
  <2>3. live' \in [DatabaseSet -> {"own", "empty", "restored"}]
    BY <2>1, <2>2 DEF SchedulerInv
  <2>4. restores' \subseteq [db : DatabaseSet, status : {"success", "error"}]
    BY <2>1, <2>2 DEF SchedulerInv
  <2> QED
    BY <2>2, <2>3, <2>4 DEF SchedulerInv
<1>4. CASE UNCHANGED schedulerVars
  BY <1>4 DEF schedulerVars, SchedulerInv
<1> QED
  BY <1>1, <1>2, <1>3, <1>4 DEF SchedulerNext

\* What the invariant says of the scheduler to a reader.
LEMMA SchedulerIsTyped == SchedulerInv => SchedulerTypeOK /\ DumpsAreKept
<1> SUFFICES ASSUME SchedulerInv PROVE SchedulerTypeOK /\ DumpsAreKept
  OBVIOUS
<1>1. SchedulerTypeOK
  BY DatabasesAre DEF SchedulerInv, SchedulerTypeOK, Dumps, BackupRecords
<1>2. DumpsAreKept
  <2> SUFFICES ASSUME NEW r \in Range(backup_records), r.how = "dump", r.at + retention_days >= today
               PROVE  \E f \in dumps : f.db = r.db /\ f.at = r.at
    BY DEF DumpsAreKept
  <2>1. [db |-> r.db, at |-> r.at, mtime |-> r.at] \in dumps
    BY DEF SchedulerInv
  <2> QED
    BY <2>1
<1> QED
  BY <1>1, <1>2

-----------------------------------------------------------------------------
\* The tiers of the memory: each holds what its table holds, but for what was split.

MemStates == [tiers : [Tiers -> Seq(1..MaxEntries)], disk : [OnDisk -> SUBSET (1..MaxEntries)],
              made : 0..MaxEntries, split : SUBSET (Tiers \X (1..MaxEntries))]

\* A tier within its capacity, of entries made so far.
TierStands(m, t) ==
    /\ Len(m.tiers[t]) <= Capacity[t] /\ Distinct(m.tiers[t])
    /\ \A e \in Range(m.tiers[t]) : e <= m.made

\* Its entries are those on disk, but for the ones that were set apart.
TierFollows(m, t) ==
    \A e \in 1..MaxEntries : (e \in Range(m.tiers[t])) # (e \in m.disk[t]) => <<t, e>> \in m.split

\* Its rows are of entries made so far.
RowsStand(m, t) == \A e \in m.disk[t] : e <= m.made

Sound(m) ==
    /\ m \in MemStates
    /\ \A t \in Tiers : TierStands(m, t)
    /\ \A t \in OnDisk : TierFollows(m, t) /\ RowsStand(m, t)

MemoryInv ==
    /\ Sound(mem) /\ expired \subseteq 1..MaxEntries
    /\ decaying \in BOOLEAN /\ stopped \in BOOLEAN /\ boots \in 0..MaxRestarts

\* A change of one tier.
LEMMA TierChanges ==
  ASSUME NEW m, Sound(m), NEW t \in Tiers, NEW new \in MemStates,
         \A u \in Tiers : u # t => new.tiers[u] = m.tiers[u],
         \A u \in OnDisk : u # t => new.disk[u] = m.disk[u],
         m.split \subseteq new.split, m.made <= new.made,
         TierStands(new, t), t \in OnDisk => TierFollows(new, t) /\ RowsStand(new, t)
  PROVE  Sound(new)
<1>1. m \in MemStates /\ OnDisk \subseteq Tiers
  BY DEF Sound, OnDisk
<1>2. m.made \in Nat /\ new.made \in Nat /\ MaxEntries \in Nat /\ m.tiers \in [Tiers -> Seq(1..MaxEntries)]
  BY <1>1, MemoryAssumption DEF MemStates
<1>3. ASSUME NEW u \in Tiers, u # t PROVE TierStands(new, u)
  <2>1. TierStands(m, u) /\ new.tiers[u] = m.tiers[u]
    BY <1>3 DEF Sound
  <2>2. Range(m.tiers[u]) \subseteq 1..MaxEntries
    BY <1>2, RangeFacts
  <2>3. \A e \in Range(m.tiers[u]) : e \in Nat /\ e <= m.made
    BY <1>2, <2>1, <2>2 DEF TierStands
  <2>4. \A e \in Range(m.tiers[u]) : e <= new.made
    BY <1>2, <2>3
  <2> QED
    BY <2>1, <2>4 DEF TierStands
<1>4. ASSUME NEW u \in OnDisk, u # t PROVE TierFollows(new, u)
  <2>1. TierFollows(m, u) /\ new.tiers[u] = m.tiers[u] /\ new.disk[u] = m.disk[u]
    BY <1>1, <1>4 DEF Sound
  <2> QED
    BY <2>1 DEF TierFollows
<1>5. ASSUME NEW u \in OnDisk, u # t PROVE RowsStand(new, u)
  <2>1. RowsStand(m, u) /\ new.disk[u] = m.disk[u] /\ m.disk[u] \subseteq 1..MaxEntries
    BY <1>1, <1>5 DEF Sound, MemStates
  <2>2. \A e \in m.disk[u] : e \in Nat /\ e <= m.made
    BY <1>2, <2>1 DEF RowsStand
  <2> QED
    BY <1>2, <2>1, <2>2 DEF RowsStand
<1> QED
  BY <1>3, <1>4, <1>5 DEF Sound

\* What updates of its fields make of the memory.
LEMMA TierUpdate ==
  ASSUME NEW m \in MemStates, NEW t, NEW x
  PROVE  [m EXCEPT !.tiers[t] = x]
         = [tiers |-> [m.tiers EXCEPT ![t] = x], disk |-> m.disk, made |-> m.made, split |-> m.split]
<1> DEFINE a == m.tiers
           b == m.disk
           c == m.made
           d == m.split
<1>1. m = [tiers |-> a, disk |-> b, made |-> c, split |-> d]
  BY DEF MemStates
<1> HIDE DEF a, b, c, d
<1>2. [m EXCEPT !.tiers[t] = x] = [tiers |-> [a EXCEPT ![t] = x], disk |-> b, made |-> c, split |-> d]
  BY <1>1
<1> QED
  BY <1>2 DEF a, b, c, d

\* The memory with one table changed.
LEMMA DiskUpdate ==
  ASSUME NEW m \in MemStates, NEW t, NEW x
  PROVE  [m EXCEPT !.disk[t] = x]
         = [tiers |-> m.tiers, disk |-> [m.disk EXCEPT ![t] = x], made |-> m.made, split |-> m.split]
<1> DEFINE a == m.tiers
           b == m.disk
           c == m.made
           d == m.split
<1>1. m = [tiers |-> a, disk |-> b, made |-> c, split |-> d]
  BY DEF MemStates
<1> HIDE DEF a, b, c, d
<1>2. [m EXCEPT !.disk[t] = x] = [tiers |-> a, disk |-> [b EXCEPT ![t] = x], made |-> c, split |-> d]
  BY <1>1
<1> QED
  BY <1>2 DEF a, b, c, d

\* The memory with other entries known to be set apart.
LEMMA SplitUpdate ==
  ASSUME NEW m \in MemStates, NEW x
  PROVE  [m EXCEPT !.split = x] = [tiers |-> m.tiers, disk |-> m.disk, made |-> m.made, split |-> x]
  BY DEF MemStates

\* Pruning makes room, and takes from disk what it takes from memory or marks it.
LEMMA PrunedIsSound ==
  ASSUME NEW m, Sound(m), NEW t \in Tiers, NEW done \in BOOLEAN
  PROVE  /\ Sound(Pruned(m, t, done)) /\ Pruned(m, t, done).made = m.made
         /\ Len(Pruned(m, t, done).tiers[t]) < Capacity[t]
<1> DEFINE s == m.tiers[t]
           n == Len(s)
           c == Capacity[t]
           excess == n - c + 1
           dropped == Range(SubSeq(s, 1, excess))
           rest == SubSeq(s, excess + 1, n)
           tiers == [m.tiers EXCEPT ![t] = rest]
<1>1. m \in MemStates /\ TierStands(m, t) /\ s \in Seq(1..MaxEntries) /\ n \in Nat /\ c \in Nat \ {0}
      /\ m.tiers \in [Tiers -> Seq(1..MaxEntries)] /\ m.made \in 0..MaxEntries
  BY MemoryAssumption DEF Sound, MemStates
<1>2. n <= c /\ Distinct(s) /\ \A e \in Range(s) : e <= m.made
  BY <1>1 DEF TierStands
<1>3. CASE n < c
  BY <1>3, <1>1 DEF Pruned
<1>4. CASE ~(n < c)
  <2>1. n = c /\ excess = 1 /\ excess \in 0..n
    BY <1>1, <1>2, <1>4
  <2>2. /\ rest \in Seq(1..MaxEntries) /\ Len(rest) = n - excess /\ Distinct(rest)
        /\ dropped \subseteq Range(s) /\ Range(rest) = Range(s) \ dropped
    <3> HIDE DEF s, excess
    <3> DEFINE E == 1..MaxEntries
    <3>1. s \in Seq(E) /\ Distinct(s) /\ excess \in 0..Len(s)
      BY <1>1, <1>2, <2>1
    <3> HIDE DEF E
    <3>2. /\ SubSeq(s, excess + 1, Len(s)) \in Seq(E)
          /\ Len(SubSeq(s, excess + 1, Len(s))) = Len(s) - excess
          /\ Distinct(SubSeq(s, excess + 1, Len(s)))
          /\ Range(SubSeq(s, 1, excess)) \subseteq Range(s)
          /\ Range(SubSeq(s, excess + 1, Len(s))) = Range(s) \ Range(SubSeq(s, 1, excess))
      BY <3>1, CutFacts
    <3> QED
      BY <3>2 DEF E
  <2>3. dropped \subseteq 1..MaxEntries
    <3>1. Range(s) \subseteq 1..MaxEntries
      BY <1>1, RangeFacts
    <3> QED
      BY <2>2, <3>1
  <2> HIDE DEF rest, dropped, excess
  <2>4. tiers \in [Tiers -> Seq(1..MaxEntries)] /\ tiers[t] = rest
        /\ \A u \in Tiers : u # t => tiers[u] = m.tiers[u]
    BY <1>1, <2>2
  <2> DEFINE kept == [m EXCEPT !.tiers[t] = rest]
             short == [kept EXCEPT !.disk[t] = @ \ dropped]
             torn == [kept EXCEPT !.split = @ \union {<<t, e>> : e \in dropped}]
             p == Pruned(m, t, done)
  <2>5. p = IF t \notin OnDisk THEN kept ELSE IF done THEN short ELSE torn
    BY <1>4 DEF Pruned, rest, dropped, excess
  <2> HIDE DEF s, n
  <2>6. kept = [tiers |-> tiers, disk |-> m.disk, made |-> m.made, split |-> m.split]
    <3> HIDE DEF rest
    <3> QED
      BY <1>1, TierUpdate
  <2>7a. kept \in MemStates
    BY <1>1, <2>4, <2>6 DEF MemStates
  <2> HIDE DEF kept
  <2>7. short = [tiers |-> tiers, disk |-> [m.disk EXCEPT ![t] = @ \ dropped],
                 made |-> m.made, split |-> m.split]
    <3>1. short = [tiers |-> kept.tiers, disk |-> [kept.disk EXCEPT ![t] = kept.disk[t] \ dropped],
                   made |-> kept.made, split |-> kept.split]
      BY <2>7a, DiskUpdate
    <3>2. kept.tiers = tiers /\ kept.disk = m.disk /\ kept.made = m.made /\ kept.split = m.split
      <4> HIDE DEF tiers
      <4> QED
        BY <2>6
    <3> HIDE DEF short, tiers
    <3> QED
      BY <3>1, <3>2
  <2>8. torn = [tiers |-> tiers, disk |-> m.disk, made |-> m.made,
                split |-> m.split \union {<<t, e>> : e \in dropped}]
    <3>1. torn = [tiers |-> kept.tiers, disk |-> kept.disk, made |-> kept.made,
                  split |-> kept.split \union {<<t, e>> : e \in dropped}]
      BY <2>7a, SplitUpdate
    <3>2. kept.tiers = tiers /\ kept.disk = m.disk /\ kept.made = m.made /\ kept.split = m.split
      <4> HIDE DEF tiers
      <4> QED
        BY <2>6
    <3> HIDE DEF torn, tiers
    <3> QED
      BY <3>1, <3>2
  <2> HIDE DEF short, torn, p, tiers
  <2>9. ASSUME NEW new \in {kept, short, torn}
        PROVE  /\ new.tiers = tiers /\ new.made = m.made /\ m.split \subseteq new.split
               /\ \A u \in OnDisk : u # t => new.disk[u] = m.disk[u]
    BY <2>6, <2>7, <2>8, <1>1 DEF MemStates
  <2>10. kept \in MemStates /\ torn \in MemStates
    <3>1. {<<t, e>> : e \in dropped} \subseteq Tiers \X (1..MaxEntries)
      BY <2>3
    <3> QED
      BY <1>1, <2>4, <2>6, <2>7a, <2>8, <3>1 DEF MemStates
  <2>11. t \in OnDisk => short \in MemStates
    BY <1>1, <2>4, <2>7 DEF MemStates
  <2>12. p \in MemStates /\ p \in {kept, short, torn}
    BY <2>5, <2>10, <2>11
  <2>13. p.tiers = tiers /\ p.made = m.made /\ m.split \subseteq p.split
         /\ \A u \in OnDisk : u # t => p.disk[u] = m.disk[u]
    BY <2>9, <2>12
  <2>14. Len(p.tiers[t]) = n - excess /\ Len(p.tiers[t]) < c
    BY <1>1, <2>1, <2>2, <2>4, <2>13
  <2>15. TierStands(p, t)
    <3>1. \A e \in Range(p.tiers[t]) : e <= p.made
      BY <1>2, <2>2, <2>4, <2>13
    <3>2. Len(p.tiers[t]) <= Capacity[t]
      BY <1>1, <2>1, <2>14
    <3>3. Distinct(p.tiers[t])
      BY <2>2, <2>4, <2>13
    <3> QED
      BY <3>1, <3>2, <3>3 DEF TierStands
  <2>16. t \in OnDisk => TierFollows(p, t)
    <3> SUFFICES ASSUME t \in OnDisk PROVE TierFollows(p, t)
      OBVIOUS
    <3>1. \A e \in 1..MaxEntries : (e \in Range(s)) # (e \in m.disk[t]) => <<t, e>> \in m.split
      BY DEF Sound, TierFollows, s
    <3>2. Range(p.tiers[t]) = Range(s) \ dropped
      BY <2>2, <2>4, <2>13
    <3>3. (p.disk[t] = m.disk[t] \ dropped /\ p.split = m.split)
          \/ (p.disk[t] = m.disk[t] /\ p.split = m.split \union {<<t, e>> : e \in dropped})
      <4>1. p = short \/ p = torn
        BY <2>5
      <4>2. m.disk \in [OnDisk -> SUBSET (1..MaxEntries)]
        BY <1>1 DEF MemStates
      <4> QED
        BY <2>7, <2>8, <4>1, <4>2
    <3> QED
      BY <3>1, <3>2, <3>3 DEF TierFollows
  <2>16a. t \in OnDisk => RowsStand(p, t)
    <3> SUFFICES ASSUME t \in OnDisk PROVE RowsStand(p, t)
      OBVIOUS
    <3>1. \A e \in m.disk[t] : e <= m.made
      BY DEF Sound, RowsStand
    <3>2. m.disk \in [OnDisk -> SUBSET (1..MaxEntries)]
      BY <1>1 DEF MemStates
    <3>3. p = short \/ p = torn
      BY <2>5
    <3>4. p.disk[t] \subseteq m.disk[t]
      BY <2>7, <2>8, <3>2, <3>3
    <3> QED
      BY <2>13, <3>1, <3>4 DEF RowsStand
  <2>17. m.made <= p.made
    BY <1>1, <2>13, MemoryAssumption
  <2>18. \A u \in Tiers : u # t => p.tiers[u] = m.tiers[u]
    BY <2>4, <2>13
  <2>19. Sound(p)
    BY <2>12, <2>13, <2>15, <2>16, <2>16a, <2>17, <2>18, TierChanges
  <2> QED
    BY <2>13, <2>14, <2>19 DEF p, c
<1> QED
  BY <1>3, <1>4

\* An entry is added to memory and disk, or marked where one of them fails.
LEMMA AddedIsSound ==
  ASSUME NEW m, Sound(m), Room(m), NEW t \in Tiers, NEW pruned \in BOOLEAN, NEW wrote \in BOOLEAN
  PROVE  Sound(Added(m, t, pruned, wrote))
<1> DEFINE k == Pruned(m, t, pruned)
           s == k.tiers[t]
           e == m.made + 1
           list == Append(s, e)
           tiers == [k.tiers EXCEPT ![t] = list]
           p == [k EXCEPT !.tiers[t] = list, !.made = e]
           written == [p EXCEPT !.disk[t] = @ \union {e}]
           torn == [p EXCEPT !.split = @ \union {<<t, e>>}]
           new == Added(m, t, pruned, wrote)
<1>1. Sound(k) /\ k.made = m.made /\ Len(s) < Capacity[t]
  BY PrunedIsSound
<1>2. new = IF t \notin OnDisk THEN p ELSE IF wrote THEN written ELSE torn
  BY DEF Added
<1> HIDE DEF k
<1>3. k \in MemStates /\ TierStands(k, t) /\ s \in Seq(1..MaxEntries) /\ Len(s) \in Nat
      /\ k.tiers \in [Tiers -> Seq(1..MaxEntries)] /\ m.made \in 0..MaxEntries
      /\ Capacity[t] \in Nat
  BY <1>1, MemoryAssumption DEF Sound, MemStates
<1>4. e \in 1..MaxEntries /\ e \in 0..MaxEntries /\ m.made <= e
  BY <1>3, MemoryAssumption DEF Room
<1>5. Distinct(s) /\ \A x \in Range(s) : x <= m.made
  BY <1>1, <1>3 DEF TierStands
<1>6. Range(s) \subseteq 1..MaxEntries /\ Range(list) = Range(s) \union {e}
  <2> HIDE DEF s, e
  <2> QED
    BY <1>3, RangeFacts
<1>7. \A x \in Range(s) : x # e /\ x <= e
  BY <1>3, <1>5, <1>6
<1>8. list \in Seq(1..MaxEntries) /\ Len(list) = Len(s) + 1
  BY <1>3, <1>4
<1>9. Distinct(list)
  <2>1. /\ \A i \in 1..Len(s) : list[i] = s[i] /\ s[i] \in Range(s)
        /\ list[Len(s) + 1] = e
        /\ \A i \in 1..(Len(s) + 1) : i \in 1..Len(s) \/ i = Len(s) + 1
    <3>1. DOMAIN s = 1..Len(s)
      BY <1>3
    <3> QED
      BY <1>3, <3>1 DEF Range
  <2> HIDE DEF s, e, list
  <2> QED
    BY <1>5, <1>7, <1>8, <2>1 DEF Distinct
<1> HIDE DEF s, e, list
<1>10. tiers \in [Tiers -> Seq(1..MaxEntries)] /\ tiers[t] = list
       /\ \A u \in Tiers : u # t => tiers[u] = k.tiers[u]
  BY <1>3, <1>8
<1>11. p = [tiers |-> tiers, disk |-> k.disk, made |-> e, split |-> k.split]
  <2> DEFINE q == [k EXCEPT !.tiers[t] = list]
  <2>1. q = [tiers |-> tiers, disk |-> k.disk, made |-> k.made, split |-> k.split]
    BY <1>3, TierUpdate
  <2> HIDE DEF q, tiers
  <2>2. [q EXCEPT !.made = e] = [tiers |-> tiers, disk |-> k.disk, made |-> e, split |-> k.split]
    BY <2>1
  <2> QED
    BY <2>2 DEF q
<1> HIDE DEF p, tiers
<1>12. written = [tiers |-> tiers, disk |-> [k.disk EXCEPT ![t] = @ \union {e}], made |-> e, split |-> k.split]
  BY <1>11
<1>13. torn = [tiers |-> tiers, disk |-> k.disk, made |-> e, split |-> k.split \union {<<t, e>>}]
  BY <1>11
<1> HIDE DEF written, torn, new
<1>14. p \in MemStates /\ torn \in MemStates
  BY <1>3, <1>4, <1>10, <1>11, <1>13 DEF MemStates
<1>15. t \in OnDisk => written \in MemStates
  BY <1>3, <1>4, <1>10, <1>12 DEF MemStates
<1>16. new \in MemStates /\ new \in {p, written, torn}
  BY <1>2, <1>14, <1>15
<1>17. /\ new.tiers = tiers /\ new.made = e /\ k.split \subseteq new.split
       /\ \A u \in OnDisk : u # t => new.disk[u] = k.disk[u]
  BY <1>3, <1>11, <1>12, <1>13, <1>16 DEF MemStates
<1>18. TierStands(new, t)
  <2>1. Len(list) <= Capacity[t]
    BY <1>1, <1>3, <1>8
  <2>2. \A x \in Range(list) : x <= e
    BY <1>4, <1>6, <1>7
  <2> QED
    BY <1>9, <1>10, <1>17, <2>1, <2>2 DEF TierStands
<1>19. t \in OnDisk => TierFollows(new, t)
  <2> SUFFICES ASSUME t \in OnDisk PROVE TierFollows(new, t)
    OBVIOUS
  <2>1. \A x \in 1..MaxEntries : (x \in Range(s)) # (x \in k.disk[t]) => <<t, x>> \in k.split
    BY <1>1 DEF Sound, TierFollows, s
  <2>2. Range(new.tiers[t]) = Range(s) \union {e}
    BY <1>6, <1>10, <1>17
  <2>3. (new.disk[t] = k.disk[t] \union {e} /\ new.split = k.split)
        \/ (new.disk[t] = k.disk[t] /\ new.split = k.split \union {<<t, e>>})
    <3>1. new = written \/ new = torn
      BY <1>2
    <3>2. k.disk \in [OnDisk -> SUBSET (1..MaxEntries)]
      BY <1>3 DEF MemStates
    <3> QED
      BY <1>12, <1>13, <3>1, <3>2
  <2> QED
    BY <2>1, <2>2, <2>3 DEF TierFollows
<1>19a. t \in OnDisk => RowsStand(new, t)
  <2> SUFFICES ASSUME t \in OnDisk PROVE RowsStand(new, t)
    OBVIOUS
  <2>1. k.disk \in [OnDisk -> SUBSET (1..MaxEntries)]
    BY <1>3 DEF MemStates
  <2>2. \A x \in k.disk[t] : x \in Nat /\ x <= m.made
    BY <1>1, <2>1 DEF Sound, RowsStand
  <2>3. \A x \in k.disk[t] : x <= e
    BY <1>3, <1>4, <2>2
  <2>4. new = written \/ new = torn
    BY <1>2
  <2>5. new.disk[t] \subseteq k.disk[t] \union {e}
    BY <1>12, <1>13, <2>1, <2>4
  <2>6. e <= e
    BY <1>4
  <2> QED
    BY <1>17, <2>3, <2>5, <2>6 DEF RowsStand
<1>20. k.made <= new.made
  BY <1>1, <1>4, <1>17
<1>21. \A u \in Tiers : u # t => new.tiers[u] = k.tiers[u]
  BY <1>10, <1>17
<1>22. Sound(new)
  BY <1>1, <1>16, <1>17, <1>18, <1>19, <1>19a, <1>20, <1>21, TierChanges
<1> QED
  BY <1>22 DEF new

\* Rows read back are rows, no more than asked for, each once.
LEMMA NewestIs ==
  ASSUME NEW es \in SUBSET (1..MaxEntries), NEW n \in Nat
  PROVE  /\ Newest(es, n) \in Seq(1..MaxEntries) /\ Len(Newest(es, n)) <= n
         /\ Distinct(Newest(es, n)) /\ Range(Newest(es, n)) \subseteq es
<1> DEFINE E == 1..MaxEntries
           all == [k \in 1..MaxEntries |-> MaxEntries + 1 - k]
           byAge == Only(all, es)
           k == IF Len(byAge) < n THEN Len(byAge) ELSE n
<1>1. MaxEntries \in Nat
  BY MemoryAssumption
<1>2. all \in Seq(E) /\ Len(all) = MaxEntries
  <2>1. \A i \in 1..MaxEntries : MaxEntries + 1 - i \in E
    BY <1>1
  <2>2. all \in [1..MaxEntries -> E]
    BY <2>1
  <2> HIDE DEF all, E
  <2>3. all \in Seq(E)
    BY <1>1, <2>2, SeqDef
  <2> QED
    BY <1>1, <2>2, <2>3, LenProperties
<1>3. Distinct(all)
  <2>1. \A i, j \in 1..MaxEntries : all[i] = all[j] => i = j
    BY <1>1
  <2> HIDE DEF all
  <2> QED
    BY <1>2, <2>1 DEF Distinct
<1> HIDE DEF all, E
<1>4. byAge \in Seq(E) /\ Distinct(byAge) /\ Range(byAge) \subseteq es
  BY <1>2, <1>3, OnlySelects, OnlyIsDistinct
<1> HIDE DEF byAge
<1>5. k \in 0..Len(byAge) /\ k <= n
  BY <1>4
<1> HIDE DEF k
<1>6. /\ SubSeq(byAge, 1, k) \in Seq(E) /\ Len(SubSeq(byAge, 1, k)) = k
      /\ Distinct(SubSeq(byAge, 1, k)) /\ Range(SubSeq(byAge, 1, k)) \subseteq Range(byAge)
  BY <1>4, <1>5, CutFacts
<1>7. Newest(es, n) = SubSeq(byAge, 1, k)
  BY DEF Newest, byAge, all, k
<1> QED
  BY <1>4, <1>5, <1>6, <1>7 DEF E

\* The first state of the memory has the invariant.
LEMMA MemoryInitially == MemoryInit => MemoryInv
<1> SUFFICES ASSUME MemoryInit PROVE MemoryInv
  OBVIOUS
<1>1. /\ mem.tiers = [t \in Tiers |-> <<>>] /\ mem.disk = [t \in OnDisk |-> {}]
      /\ mem.made = 0 /\ mem.split = {}
  BY DEF MemoryInit
<1>2. MaxEntries \in Nat /\ MaxRestarts \in Nat /\ \A t \in Tiers : Capacity[t] \in Nat
  BY MemoryAssumption
<1>3. mem \in MemStates
  <2>1. [t \in Tiers |-> <<>>] \in [Tiers -> Seq(1..MaxEntries)]
    OBVIOUS
  <2>2. [t \in OnDisk |-> {}] \in [OnDisk -> SUBSET (1..MaxEntries)]
    OBVIOUS
  <2>3. 0 \in 0..MaxEntries
    BY <1>2
  <2> QED
    BY <2>1, <2>2, <2>3 DEF MemoryInit, MemStates
<1>4. ASSUME NEW t \in Tiers PROVE TierStands(mem, t)
  <2> DEFINE none == <<>>
  <2>1. mem.tiers[t] = none /\ Len(none) = 0 /\ DOMAIN none = {}
    BY <1>1
  <2> HIDE DEF none
  <2>2. Range(none) = {}
    BY <2>1 DEF Range
  <2>3. \A i \in 1..0 : FALSE
    OBVIOUS
  <2>4. Distinct(none)
    BY <2>1, <2>3 DEF Distinct
  <2>5. Len(none) <= Capacity[t]
    BY <1>2, <2>1
  <2> QED
    BY <2>1, <2>2, <2>4, <2>5 DEF TierStands
<1>5. ASSUME NEW t \in OnDisk PROVE TierFollows(mem, t)
  <2> DEFINE none == <<>>
  <2>1. mem.tiers[t] = none /\ DOMAIN none = {} /\ mem.disk[t] = {}
    BY <1>1 DEF OnDisk
  <2> HIDE DEF none
  <2>2. Range(none) = {}
    BY <2>1 DEF Range
  <2> QED
    BY <2>1, <2>2 DEF TierFollows
<1>6. expired \subseteq 1..MaxEntries /\ decaying \in BOOLEAN /\ stopped \in BOOLEAN
      /\ boots \in 0..MaxRestarts
  <2>1. 0 \in 0..MaxRestarts
    BY <1>2
  <2> QED
    BY <2>1 DEF MemoryInit
<1>7. \A t \in OnDisk : RowsStand(mem, t)
  BY <1>1 DEF RowsStand
<1> QED
  BY <1>3, <1>4, <1>5, <1>6, <1>7 DEF MemoryInv, Sound

\* Decay in memory alone.
LEMMA DecayMemoryIsSound ==
  ASSUME Sound(mem), NEW t \in Tiers, DecayMemory(t)
  PROVE  Sound(mem')
<1> DEFINE s == mem.tiers[t]
           es == Range(s) \intersect expired
           list == Only(s, Range(s) \ expired)
           tiers == [mem.tiers EXCEPT ![t] = list]
           k == [mem EXCEPT !.tiers[t] = list]
           new == mem'
<1>1. new = [k EXCEPT !.split = @ \union {<<t, e>> : e \in es}]
  BY DEF DecayMemory, Marked
<1>2. mem \in MemStates /\ TierStands(mem, t) /\ s \in Seq(1..MaxEntries)
      /\ mem.tiers \in [Tiers -> Seq(1..MaxEntries)] /\ mem.made \in 0..MaxEntries
  BY DEF Sound, MemStates
<1> HIDE DEF s
<1>3. Range(s) \subseteq 1..MaxEntries
  BY <1>2, RangeFacts
<1>4. list \in Seq(1..MaxEntries) /\ Distinct(list) /\ Range(list) = Range(s) \ expired
      /\ Len(list) <= Len(s)
  <2>1. Distinct(s)
    BY <1>2 DEF TierStands, s
  <2>2. Range(list) = Range(s) \intersect (Range(s) \ expired)
    BY <1>2, OnlySelects
  <2>3. list \in Seq(1..MaxEntries) /\ Distinct(list)
    BY <1>2, <2>1, OnlySelects, OnlyIsDistinct
  <2>4. Len(list) <= Len(s)
    BY <1>2, OnlyIsShorter
  <2> QED
    BY <2>2, <2>3, <2>4
<1> HIDE DEF list
<1>5. k = [tiers |-> tiers, disk |-> mem.disk, made |-> mem.made, split |-> mem.split]
  BY <1>2, TierUpdate
<1>6. tiers \in [Tiers -> Seq(1..MaxEntries)] /\ tiers[t] = list
      /\ \A u \in Tiers : u # t => tiers[u] = mem.tiers[u]
  BY <1>2, <1>4
<1> HIDE DEF k, tiers
<1>7. k \in MemStates
  BY <1>2, <1>5, <1>6 DEF MemStates
<1> DEFINE gone == {<<t, e>> : e \in es}
<1>8. gone \subseteq Tiers \X (1..MaxEntries)
  BY <1>3
<1>9. new = [tiers |-> tiers, disk |-> mem.disk, made |-> mem.made, split |-> mem.split \union gone]
  <2>1. new = [tiers |-> k.tiers, disk |-> k.disk, made |-> k.made, split |-> k.split \union gone]
    BY <1>1, <1>7, SplitUpdate
  <2>2. k.tiers = tiers /\ k.disk = mem.disk /\ k.made = mem.made /\ k.split = mem.split
    BY <1>5
  <2> QED
    BY <2>1, <2>2
<1>10. \A e \in es : <<t, e>> \in gone
  OBVIOUS
<1> HIDE DEF gone, new
<1>11. new \in MemStates
  BY <1>2, <1>6, <1>8, <1>9 DEF MemStates
<1>12. new.tiers = tiers /\ new.disk = mem.disk /\ new.made = mem.made /\ new.split = mem.split \union gone
  BY <1>9
<1>13. TierStands(new, t)
  <2>1. Len(s) <= Capacity[t] /\ \A e \in Range(s) : e <= mem.made
    BY <1>2 DEF TierStands, s
  <2>2. Len(s) \in Nat /\ Len(list) \in Nat /\ Capacity[t] \in Nat
    BY <1>2, <1>4, MemoryAssumption
  <2>3. Len(list) <= Capacity[t]
    BY <1>4, <2>1, <2>2
  <2> QED
    BY <1>4, <1>6, <1>12, <2>1, <2>3 DEF TierStands
<1>14. t \in OnDisk => TierFollows(new, t)
  <2> SUFFICES ASSUME t \in OnDisk PROVE TierFollows(new, t)
    OBVIOUS
  <2>1. \A e \in 1..MaxEntries : (e \in Range(s)) # (e \in mem.disk[t]) => <<t, e>> \in mem.split
    BY DEF Sound, TierFollows, s
  <2>2. Range(new.tiers[t]) = Range(s) \ expired
    BY <1>4, <1>6, <1>12
  <2> QED
    BY <1>10, <1>12, <2>1, <2>2 DEF TierFollows
<1>14a. t \in OnDisk => RowsStand(new, t)
  BY <1>12 DEF Sound, RowsStand
<1>15. mem.made <= new.made
  BY <1>2, <1>12, MemoryAssumption
<1>16. \A u \in Tiers : u # t => new.tiers[u] = mem.tiers[u]
  BY <1>6, <1>12
<1>17. Sound(new)
  BY <1>11, <1>12, <1>13, <1>14, <1>14a, <1>15, <1>16, TierChanges
<1> QED
  BY <1>17 DEF new

\* Decay on disk alone.
LEMMA DecayDiskIsSound ==
  ASSUME Sound(mem), DecayDisk
  PROVE  Sound(mem')
<1> DEFINE t == "working"
           es == mem.disk[t] \intersect expired
           gone == {<<t, e>> : e \in es}
           disk == [mem.disk EXCEPT ![t] = mem.disk[t] \ es]
           k == [mem EXCEPT !.disk[t] = mem.disk[t] \ es]
           new == mem'
<1>1. new = [k EXCEPT !.split = @ \union gone]
  BY DEF DecayDisk, Marked
<1>2. mem \in MemStates /\ TierStands(mem, t) /\ t \in Tiers /\ t \in OnDisk
      /\ mem.disk \in [OnDisk -> SUBSET (1..MaxEntries)] /\ mem.made \in 0..MaxEntries
  BY DEF Sound, MemStates, OnDisk, Tiers
<1> HIDE DEF t
<1>3. k = [tiers |-> mem.tiers, disk |-> disk, made |-> mem.made, split |-> mem.split]
  BY <1>2, DiskUpdate
<1>4. disk \in [OnDisk -> SUBSET (1..MaxEntries)] /\ disk[t] = mem.disk[t] \ es
      /\ \A u \in OnDisk : u # t => disk[u] = mem.disk[u]
  BY <1>2
<1> HIDE DEF k, disk
<1>5. k \in MemStates
  BY <1>2, <1>3, <1>4 DEF MemStates
<1>6. gone \subseteq Tiers \X (1..MaxEntries)
  BY <1>2
<1>7. \A e \in es : <<t, e>> \in gone
  OBVIOUS
<1>8. new = [tiers |-> mem.tiers, disk |-> disk, made |-> mem.made, split |-> mem.split \union gone]
  <2> HIDE DEF gone
  <2>1. new = [tiers |-> k.tiers, disk |-> k.disk, made |-> k.made, split |-> k.split \union gone]
    BY <1>1, <1>5, SplitUpdate
  <2>2. k.tiers = mem.tiers /\ k.disk = disk /\ k.made = mem.made /\ k.split = mem.split
    BY <1>3
  <2> QED
    BY <2>1, <2>2
<1> HIDE DEF gone, new
<1>9. new \in MemStates
  BY <1>2, <1>4, <1>6, <1>8 DEF MemStates
<1>10. new.tiers = mem.tiers /\ new.disk = disk /\ new.made = mem.made /\ new.split = mem.split \union gone
  BY <1>8
<1>11. TierStands(new, t)
  BY <1>2, <1>10 DEF TierStands
<1>12. TierFollows(new, t)
  <2>1. \A e \in 1..MaxEntries : (e \in Range(mem.tiers[t])) # (e \in mem.disk[t]) => <<t, e>> \in mem.split
    BY <1>2 DEF Sound, TierFollows
  <2>2. new.disk[t] = mem.disk[t] \ es
    BY <1>4, <1>10
  <2> QED
    BY <1>7, <1>10, <2>1, <2>2 DEF TierFollows
<1>12a. RowsStand(new, t)
  BY <1>2, <1>4, <1>10 DEF Sound, RowsStand
<1>13. mem.made <= new.made
  BY <1>2, <1>10, MemoryAssumption
<1>14. \A u \in Tiers : u # t => new.tiers[u] = mem.tiers[u]
  BY <1>10
<1>15. Sound(new)
  BY <1>2, <1>4, <1>9, <1>10, <1>11, <1>12, <1>12a, <1>13, <1>14, TierChanges
<1> QED
  BY <1>15 DEF new

\* A restart loads the newest of each table and marks what it does not load.
LEMMA RestartIsSound ==
  ASSUME Sound(mem), NEW loaded \in Loads, RestartMemory(loaded)
  PROVE  Sound(mem')
<1> DEFINE read == [t \in Tiers |-> IF t \in loaded THEN Newest(mem.disk[t], LoadLimit[t]) ELSE <<>>]
           unread(t) == mem.disk[t] \ Range(read[t])
           apart == {pair \in OnDisk \X (1..MaxEntries) : pair[2] \in unread(pair[1])}
           new == mem'
<1>1. new = [mem EXCEPT !.tiers = read, !.split = apart]
  BY DEF RestartMemory
<1>2. mem \in MemStates /\ mem.disk \in [OnDisk -> SUBSET (1..MaxEntries)] /\ OnDisk \subseteq Tiers
  BY DEF Sound, MemStates, OnDisk
<1>0. loaded \subseteq OnDisk
  BY DEF Loads, OnDisk, Tiers
<1>3. ASSUME NEW t \in loaded
      PROVE  /\ read[t] \in Seq(1..MaxEntries) /\ Len(read[t]) <= Capacity[t]
             /\ Distinct(read[t]) /\ Range(read[t]) \subseteq mem.disk[t]
  <2>1. read[t] = Newest(mem.disk[t], LoadLimit[t]) /\ t \in OnDisk
    BY <1>0, <1>2
  <2>2. LoadLimit[t] \in Nat /\ LoadLimit[t] <= Capacity[t] /\ Capacity[t] \in Nat
        /\ mem.disk[t] \in SUBSET (1..MaxEntries)
    BY <1>0, <1>2, MemoryAssumption
  <2> HIDE DEF read
  <2>3. /\ read[t] \in Seq(1..MaxEntries) /\ Len(read[t]) <= LoadLimit[t]
        /\ Distinct(read[t]) /\ Range(read[t]) \subseteq mem.disk[t]
    BY <2>1, <2>2, NewestIs
  <2>4. Len(read[t]) \in Nat
    BY <2>3
  <2>5. Len(read[t]) <= Capacity[t]
    BY <2>2, <2>3, <2>4
  <2> QED
    BY <2>3, <2>5
<1>4. ASSUME NEW t \in Tiers, t \notin loaded
      PROVE  /\ read[t] \in Seq(1..MaxEntries) /\ Len(read[t]) <= Capacity[t]
             /\ Distinct(read[t]) /\ Range(read[t]) = {}
  <2> DEFINE none == <<>>
  <2>1. read[t] = none /\ none \in Seq(1..MaxEntries) /\ Len(none) = 0 /\ DOMAIN none = {}
    BY <1>4
  <2> HIDE DEF none, read
  <2>2. Range(none) = {}
    BY <2>1 DEF Range
  <2>3. \A i \in 1..0 : FALSE
    OBVIOUS
  <2>4. Distinct(none)
    BY <2>1, <2>3 DEF Distinct
  <2>5. Len(none) <= Capacity[t]
    BY <2>1, MemoryAssumption
  <2> QED
    BY <2>1, <2>2, <2>4, <2>5
<1>5. read \in [Tiers -> Seq(1..MaxEntries)]
  <2>1. \A t \in Tiers : read[t] \in Seq(1..MaxEntries)
    BY <1>3, <1>4
  <2> QED
    BY <2>1
<1> HIDE DEF read
<1>6. apart \subseteq Tiers \X (1..MaxEntries)
  BY <1>2
<1>7. \A t \in OnDisk : \A e \in 1..MaxEntries : e \in unread(t) => <<t, e>> \in apart
  OBVIOUS
<1> HIDE DEF apart
<1>8. new = [tiers |-> read, disk |-> mem.disk, made |-> mem.made, split |-> apart]
  BY <1>1, <1>2 DEF MemStates
<1> HIDE DEF new
<1>9. new \in MemStates
  BY <1>2, <1>5, <1>6, <1>8 DEF MemStates
<1>10. new.tiers = read /\ new.disk = mem.disk /\ new.made = mem.made /\ new.split = apart
  BY <1>8
<1>11. ASSUME NEW t \in OnDisk PROVE TierFollows(new, t)
  <2>1. Range(read[t]) \subseteq mem.disk[t]
    BY <1>2, <1>3, <1>4
  <2> QED
    BY <1>7, <1>10, <2>1 DEF TierFollows
<1>12. ASSUME NEW t \in Tiers PROVE TierStands(new, t)
  <2>1. CASE t \notin loaded
    BY <1>4, <1>10, <2>1 DEF TierStands
  <2>2. CASE t \in loaded
    BY <1>0, <1>3, <1>10, <2>2 DEF TierStands, Sound, RowsStand
  <2> QED
    BY <2>1, <2>2
<1>13. \A t \in OnDisk : RowsStand(new, t)
  BY <1>10 DEF Sound, RowsStand
<1>14. Sound(new)
  BY <1>9, <1>11, <1>12, <1>13 DEF Sound
<1> QED
  BY <1>14 DEF new

\* Every step of the memory keeps the invariant.
LEMMA MemoryStep == MemoryInv /\ [MemoryNext]_memoryVars => MemoryInv'
<1> SUFFICES ASSUME MemoryInv, [MemoryNext]_memoryVars PROVE MemoryInv'
  OBVIOUS
<1>1. Sound(mem) /\ expired \subseteq 1..MaxEntries /\ decaying \in BOOLEAN /\ stopped \in BOOLEAN
      /\ boots \in 0..MaxRestarts
  BY DEF MemoryInv
<1>2. ASSUME NEW t \in Tiers, NEW pruned \in BOOLEAN, NEW wrote \in BOOLEAN, Add(t, pruned, wrote)
      PROVE  MemoryInv'
  <2>1. Sound(mem') /\ Kept
    BY <1>1, <1>2, AddedIsSound DEF Add
  <2> QED
    BY <1>1, <2>1 DEF MemoryInv, Kept
<1>3. ASSUME NEW t \in Tiers, NEW pruned \in BOOLEAN, NEW wrote \in BOOLEAN,
             AddAndTransfer(t, pruned, wrote)
      PROVE  MemoryInv'
  <2> DEFINE next == IF t = "sensory" THEN "working" ELSE "long_term"
             one == Added(mem, t, pruned, wrote)
  <2>1. next \in Tiers
    BY DEF Tiers
  <2>2. Room(mem) /\ Room(one) /\ mem' = Added(one, next, pruned, wrote) /\ Kept
    BY <1>3 DEF AddAndTransfer
  <2>3. Sound(one)
    BY <1>1, <2>2, AddedIsSound
  <2> HIDE DEF next, one
  <2>4. Sound(mem')
    BY <2>1, <2>2, <2>3, AddedIsSound
  <2> QED
    BY <1>1, <2>2, <2>4 DEF MemoryInv, Kept
<1>4. ASSUME NEW t \in Decays, DecayMemory(t) PROVE MemoryInv'
  <2>1. t \in Tiers
    BY DEF Decays, Tiers
  <2>2. Sound(mem') /\ UNCHANGED <<expired, decaying, stopped, boots>>
    BY <1>1, <1>4, <2>1, DecayMemoryIsSound DEF DecayMemory
  <2> QED
    BY <1>1, <2>2 DEF MemoryInv
<1>5. ASSUME DecayDisk PROVE MemoryInv'
  <2>1. Sound(mem') /\ UNCHANGED <<expired, decaying, stopped, boots>>
    BY <1>1, <1>5, DecayDiskIsSound DEF DecayDisk
  <2> QED
    BY <1>1, <2>1 DEF MemoryInv
<1>6. ASSUME NEW loaded \in Loads, RestartMemory(loaded) PROVE MemoryInv'
  <2>1. Sound(mem') /\ boots < MaxRestarts /\ boots' = boots + 1 /\ decaying' = TRUE /\ stopped' = FALSE
        /\ UNCHANGED expired
    BY <1>1, <1>6, RestartIsSound DEF RestartMemory
  <2>2. boots' \in 0..MaxRestarts
    BY <1>1, <2>1, MemoryAssumption
  <2> QED
    BY <1>1, <2>1, <2>2 DEF MemoryInv
<1>7. ASSUME NEW e \in 1..MaxEntries, Expires(e) PROVE MemoryInv'
  BY <1>1, <1>7 DEF Expires, MemoryInv
<1>8. ASSUME StopDecayScheduler \/ StartDecayScheduler \/ UNCHANGED memoryVars PROVE MemoryInv'
  BY <1>1, <1>8 DEF StopDecayScheduler, StartDecayScheduler, memoryVars, MemoryInv
<1>9. \A t, pruned, wrote : Contemplate(t, pruned, wrote) => Add(t, pruned, wrote)
  BY DEF Contemplate
<1> QED
  BY <1>2, <1>3, <1>4, <1>5, <1>6, <1>7, <1>8, <1>9 DEF MemoryNext

\* What the invariant says of the memory to a reader.
LEMMA MemoryIsTyped == MemoryInv => MemoryTypeOK /\ DiskFollowsMemory
  BY DEF MemoryInv, Sound, MemStates, TierStands, TierFollows, MemoryTypeOK, DiskFollowsMemory

-----------------------------------------------------------------------------
\* Migrations and the log of the schema's evolution.

MigrateOp(p, run, v) == Migrate(run, v, p)

FMigrate == INSTANCE FoldFacts WITH Op <- MigrateOp

ReverseOp(p, run, v) == Reverse1(run, v, p)

FReverse == INSTANCE FoldFacts WITH Op <- ReverseOp

RunRecords ==
    [recorded : SUBSET Versions, schema : SUBSET Versions, wrote : SUBSET Versions,
     missed : SUBSET Versions, locked : BOOLEAN, failed : BOOLEAN]

\* Where a run can have come to: what it did not touch is as it was, and what it wrote it
\* has in its records as it has it in the schema.
MigrationRuns ==
    {run \in RunRecords : \A v \in Versions :
        /\ v \notin run.wrote => (v \in run.schema <=> v \in schema)
        /\ v \notin run.wrote \union run.missed => (v \in run.recorded <=> v \in recorded)
        /\ v \in run.wrote \ run.missed /\ ~run.failed => (v \in run.recorded <=> v \in run.schema)}

\* A set of versions in ascending order is a list of them.
LEMMA AscendingIsTyped ==
  ASSUME NEW S
  PROVE  Ascending(S) \in Seq(S)
<1> DEFINE n == Max(Versions \union {0})
           all == [v \in 1..n |-> v]
<1>1. n \in Nat
  <2>1. PICK b \in Nat : Versions \subseteq 0..b
    BY MigrationAssumption, FiniteHaveBound DEF MigrationAssumption
  <2>2. Versions \union {0} \subseteq 0..b /\ Versions \union {0} # {}
    BY <2>1
  <2>3. Max(Versions \union {0}) \in Versions \union {0}
    BY <2>2, LargestOfBounded
  <2> QED
    BY <2>2, <2>3
<1> HIDE DEF n
<1>2. all \in Seq(Nat)
  <2>1. all \in [1..n -> Nat]
    BY <1>1
  <2> HIDE DEF all
  <2> QED
    BY <1>1, <2>1, SeqDef
<1> HIDE DEF all
<1>3. Only(all, S) \in Seq(Nat) /\ Range(Only(all, S)) \subseteq S
  BY <1>2, OnlySelects
<1> DEFINE r == Only(all, S)
<1>4. r \in [1..Len(r) -> S] /\ Len(r) \in Nat
  <2> HIDE DEF r
  <2>1. r \in Seq(Nat) /\ Range(r) \subseteq S
    BY <1>3 DEF r
  <2>2. Len(r) \in Nat /\ DOMAIN r = 1..Len(r) /\ r \in [1..Len(r) -> Nat]
    BY <2>1
  <2>3. \A i \in 1..Len(r) : r[i] \in S
    BY <2>1, <2>2 DEF Range
  <2> QED
    BY <2>2, <2>3
<1>5. r \in Seq(S)
  <2> HIDE DEF r
  <2> QED
    BY <1>4, SeqDef
<1> QED
  BY <1>5 DEF Ascending, all, n

\* A run before its first version.
LEMMA RunsBegin ==
  ASSUME recorded \subseteq Versions, schema \subseteq Versions
  PROVE  Run(recorded, schema) \in MigrationRuns
<1> DEFINE run == Run(recorded, schema)
<1>1. /\ run.recorded = recorded /\ run.schema = schema /\ run.wrote = {} /\ run.missed = {}
      /\ run \in RunRecords
  BY DEF Run, RunRecords
<1> HIDE DEF run
<1> QED
  BY <1>1 DEF MigrationRuns, run

\* One migration keeps the run in order, and so does one reversal.
LEMMA OneMigrates ==
  ASSUME NEW bad, NEW run \in MigrationRuns, NEW v \in Versions
  PROVE  Migrate(run, v, bad) \in MigrationRuns
<1> DEFINE lost == [run EXCEPT !.failed = TRUE]
           past == [run EXCEPT !.recorded = @ \union {v}, !.locked = TRUE, !.missed = @ \union {v}]
           done == [run EXCEPT !.recorded = @ \union {v}, !.locked = TRUE,
                               !.schema = @ \union {v}, !.wrote = @ \union {v}]
<1>1. run \in RunRecords
  BY DEF MigrationRuns
<1>2. lost \in RunRecords /\ past \in RunRecords /\ done \in RunRecords
  BY <1>1 DEF RunRecords
<1>3. lost \in MigrationRuns
  <2>1. /\ lost.recorded = run.recorded /\ lost.schema = run.schema /\ lost.wrote = run.wrote
        /\ lost.missed = run.missed /\ lost.failed
    BY <1>1 DEF RunRecords
  <2> HIDE DEF lost
  <2> QED
    BY <1>2, <2>1 DEF MigrationRuns
<1>4. past \in MigrationRuns
  <2>1. /\ past.recorded = run.recorded \union {v} /\ past.schema = run.schema
        /\ past.wrote = run.wrote /\ past.missed = run.missed \union {v} /\ past.failed = run.failed
    BY <1>1 DEF RunRecords
  <2> HIDE DEF past
  <2> QED
    BY <1>2, <2>1 DEF MigrationRuns
<1>5. done \in MigrationRuns
  <2>1. /\ done.recorded = run.recorded \union {v} /\ done.schema = run.schema \union {v}
        /\ done.wrote = run.wrote \union {v} /\ done.missed = run.missed /\ done.failed = run.failed
    BY <1>1 DEF RunRecords
  <2> HIDE DEF done
  <2> QED
    BY <1>2, <2>1 DEF MigrationRuns
<1>6. Migrate(run, v, bad) \in {run, lost, past, done}
  BY DEF Migrate
<1> QED
  BY <1>3, <1>4, <1>5, <1>6

LEMMA OneReverses ==
  ASSUME NEW bad, NEW run \in MigrationRuns, NEW v \in Versions
  PROVE  Reverse1(run, v, bad) \in MigrationRuns
<1> DEFINE lost == [run EXCEPT !.failed = TRUE]
           half == [run EXCEPT !.failed = TRUE, !.schema = @ \ {v}, !.wrote = @ \union {v}]
           done == [run EXCEPT !.recorded = @ \ {v}, !.locked = TRUE,
                               !.schema = @ \ {v}, !.wrote = @ \union {v}]
<1>1. run \in RunRecords
  BY DEF MigrationRuns
<1>2. lost \in RunRecords /\ half \in RunRecords /\ done \in RunRecords
  BY <1>1 DEF RunRecords
<1>3. lost \in MigrationRuns
  <2>1. /\ lost.recorded = run.recorded /\ lost.schema = run.schema /\ lost.wrote = run.wrote
        /\ lost.missed = run.missed /\ lost.failed
    BY <1>1 DEF RunRecords
  <2> HIDE DEF lost
  <2> QED
    BY <1>2, <2>1 DEF MigrationRuns
<1>4. half \in MigrationRuns
  <2>1. /\ half.recorded = run.recorded /\ half.schema = run.schema \ {v}
        /\ half.wrote = run.wrote \union {v} /\ half.missed = run.missed /\ half.failed
    BY <1>1 DEF RunRecords
  <2> HIDE DEF half
  <2> QED
    BY <1>2, <2>1 DEF MigrationRuns
<1>5. done \in MigrationRuns
  <2>1. /\ done.recorded = run.recorded \ {v} /\ done.schema = run.schema \ {v}
        /\ done.wrote = run.wrote \union {v} /\ done.missed = run.missed /\ done.failed = run.failed
    BY <1>1 DEF RunRecords
  <2> HIDE DEF done
  <2> QED
    BY <1>2, <2>1 DEF MigrationRuns
<1>6. Reverse1(run, v, bad) \in {run, lost, half, done}
  BY DEF Reverse1
<1> QED
  BY <1>3, <1>4, <1>5, <1>6

\* A run of migrations.
LEMMA MigratingIsTyped ==
  ASSUME NEW S \in SUBSET Versions, NEW bad, NEW base \in MigrationRuns
  PROVE  FMigrate!Fold(bad, base, Ascending(S)) \in MigrationRuns
<1> DEFINE list == Ascending(S)
<1>1. \A run \in MigrationRuns, v \in S : MigrateOp(bad, run, v) \in MigrationRuns
  BY OneMigrates DEF MigrateOp
<1>2. list \in Seq(S)
  BY AscendingIsTyped
<1> HIDE DEF list
<1>3. FMigrate!Fold(bad, base, list) \in MigrationRuns
  BY <1>1, <1>2, FMigrate!FoldInvariant
<1> QED
  BY <1>3 DEF list

\* Downgrades, one version after the other.
LEMMA ReversingIsTyped ==
  ASSUME NEW S \in SUBSET Versions, NEW bad, NEW base \in MigrationRuns
  PROVE  FReverse!Fold(bad, base, Ascending(S)) \in MigrationRuns
<1> DEFINE list == Ascending(S)
<1>1. \A run \in MigrationRuns, v \in S : ReverseOp(bad, run, v) \in MigrationRuns
  BY OneReverses DEF ReverseOp
<1>2. list \in Seq(S)
  BY AscendingIsTyped
<1> HIDE DEF list
<1>3. FReverse!Fold(bad, base, list) \in MigrationRuns
  BY <1>1, <1>2, FReverse!FoldInvariant
<1> QED
  BY <1>3 DEF list

Objects == Columns \union NewTables

LogRows == [version : Nat, names : SUBSET Objects, undo : BOOLEAN,
            action : {"version_increment", "add_column", "create_table", "custom", "rollback"}]

VersionsInv ==
    /\ registered \in [Versions -> MigrationKinds \union {"no"}]
    /\ recorded \subseteq Versions /\ schema \subseteq Versions /\ parted \subseteq Versions
    /\ BooksMatchSchema

\* A version is given with a row at least.
LogStands ==
    /\ objects \subseteq Objects /\ meddled \subseteq Objects /\ evolution \in Seq(LogRows)
    /\ \A i \in 1..Len(evolution) : evolution[i].version <= Len(evolution)
    /\ LogNeverAhead

MigrationInv == VersionsInv /\ LogStands

\* The first state of the migrations has the invariant.
LEMMA MigrationInitially == MigrationInit => MigrationInv
  BY DEF MigrationInit, MigrationInv, VersionsInv, LogStands, LogNeverAhead, BooksMatchSchema

\* What a run of migrations leaves when it ends.
LEMMA RunsEnd ==
  ASSUME VersionsInv, NEW run \in MigrationRuns, Finished(run)
  PROVE  VersionsInv'
<1>1. run \in RunRecords /\ run.wrote \subseteq Versions /\ run.missed \subseteq Versions
      /\ run.recorded \subseteq Versions /\ run.schema \subseteq Versions
  BY DEF MigrationRuns, RunRecords
<1>2. recorded' \subseteq Versions /\ schema' \subseteq Versions /\ parted' \subseteq Versions
  BY <1>1 DEF Finished, VersionsInv
<1>3. BooksMatchSchema'
  <2>1. CASE run.failed
    BY <2>1 DEF Finished, VersionsInv, BooksMatchSchema, MigrationRuns
  <2>2. CASE ~run.failed
    BY <2>2 DEF Finished, VersionsInv, BooksMatchSchema, MigrationRuns
  <2> QED
    BY <2>1, <2>2
<1> QED
  BY <1>2, <1>3 DEF Finished, VersionsInv

\* A step of the migrations keeps records and schema as they must be.
LEMMA VersionsStep ==
  ASSUME VersionsInv, [MigrationNext]_migrationVars
  PROVE  VersionsInv'
<1>1. ASSUME NEW v \in Versions, NEW kind \in MigrationKinds, RegisterMigration(v, kind)
      PROVE  VersionsInv'
  BY <1>1 DEF RegisterMigration, VersionsInv, BooksMatchSchema
<1>2. ASSUME NEW target \in Versions, NEW bad, ApplyMigrations(target, bad) PROVE VersionsInv'
  <2> DEFINE S == Pending(target)
             base == Run(recorded, schema)
             run == FoldLeft(LAMBDA r, v : Migrate(r, v, bad), base, Ascending(S))
  <2>1. S \in SUBSET Versions /\ base \in MigrationRuns
    BY RunsBegin DEF Pending, Registered, VersionsInv
  <2>2. run \in MigrationRuns
    <3> HIDE DEF S, base
    <3>1. FMigrate!Fold(bad, base, Ascending(S)) \in MigrationRuns
      BY <2>1, MigratingIsTyped
    <3>2. run = FMigrate!Fold(bad, base, Ascending(S))
      BY DEF MigrateOp, FMigrate!Fold, FMigrate!FoldLeft, FoldLeft, FMigrate!MapThenFoldSet,
             MapThenFoldSet, FMigrate!Max, Max
    <3> QED
      BY <3>1, <3>2
  <2>3. Finished(run)
    BY <1>2 DEF ApplyMigrations
  <2> HIDE DEF run
  <2> QED
    BY <2>2, <2>3, RunsEnd
<1>3. ASSUME NEW target \in Versions, NEW bad, MigrateTo(target, bad) PROVE VersionsInv'
  BY <1>2, <1>3 DEF MigrateTo
<1>4. ASSUME NEW target \in Versions, NEW bad, DowngradeTo(target, bad) PROVE VersionsInv'
  <2> DEFINE S == {v \in Registered : v > target}
             base == Run(recorded, schema)
             run == FoldLeft(LAMBDA r, v : Reverse1(r, v, bad), base, Ascending(S))
  <2>1. S \in SUBSET Versions /\ base \in MigrationRuns
    BY RunsBegin DEF Registered, VersionsInv
  <2>2. run \in MigrationRuns
    <3> HIDE DEF S, base
    <3>1. FReverse!Fold(bad, base, Ascending(S)) \in MigrationRuns
      BY <2>1, ReversingIsTyped
    <3>2. run = FReverse!Fold(bad, base, Ascending(S))
      BY DEF ReverseOp, FReverse!Fold, FReverse!FoldLeft, FoldLeft, FReverse!MapThenFoldSet,
             MapThenFoldSet, FReverse!Max, Max
    <3> QED
      BY <3>1, <3>2
  <2>3. Finished(run)
    BY <1>4 DEF DowngradeTo
  <2> HIDE DEF run
  <2> QED
    BY <2>2, <2>3, RunsEnd
<1>5. ASSUME UNCHANGED versionVars PROVE VersionsInv'
  BY <1>5 DEF versionVars, VersionsInv, BooksMatchSchema
<1>6. EvolutionNext => UNCHANGED versionVars
  BY DEF EvolutionNext, ApplyProposal, ApplyRaw, RollbackLast
<1>7. UNCHANGED migrationVars => UNCHANGED versionVars
  BY DEF migrationVars, versionVars
<1>8. VersionNext => VersionsInv'
  BY <1>1, <1>2, <1>3, <1>4 DEF VersionNext
<1> QED
  BY <1>5, <1>6, <1>7, <1>8 DEF MigrationNext

\* A log that is longer, by rows about the objects of c.
LEMMA LogGrows ==
  ASSUME LogStands, NEW more \in Seq(LogRows), NEW c \in SUBSET Objects, more # <<>>,
         \A i \in 1..Len(more) :
             more[i].names \subseteq c /\ more[i].version <= Len(evolution) + Len(more),
         more[Len(more)].names = c,
         evolution' = evolution \o more, objects' \subseteq Objects, meddled' \subseteq Objects,
         (objects \union meddled) \ c \subseteq objects' \union meddled',
         \/ c \subseteq objects' \union meddled'
         \/ \A i \in 1..Len(more) : more[i].action \notin {"add_column", "create_table"}
  PROVE  LogStands'
<1> DEFINE n == Len(evolution)
           m == Len(more)
           both == evolution \o more
<1>1. /\ evolution \in Seq(LogRows) /\ n \in Nat /\ m \in Nat /\ DOMAIN evolution = 1..n
      /\ both \in Seq(LogRows) /\ Len(both) = n + m /\ DOMAIN both = 1..(n + m)
      /\ \A i \in 1..(n + m) : both[i] = IF i <= n THEN evolution[i] ELSE more[i - n]
  BY ConcatProperties DEF LogStands
<1>2. m >= 1
  BY <1>1
<1> HIDE DEF n, m
<1>3. \A i \in 1..(n + m) : i \in 1..n \/ i - n \in 1..m
  BY <1>1
<1>4. \A i \in 1..n : both[i] = evolution[i] /\ i \in 1..(n + m)
  BY <1>1
<1>5. \A i \in 1..(n + m) : i \notin 1..n => i - n \in 1..m /\ both[i] = more[i - n]
  BY <1>1
<1>6. n + m \in 1..(n + m) /\ n + m \notin 1..n
  BY <1>1, <1>2
<1>7. \A i \in 1..n : evolution[i] \in LogRows /\ evolution[i].version \in Nat
  <2>1. \A i \in 1..n : evolution[i] \in LogRows
    BY <1>1
  <2>2. \A r \in LogRows : r.version \in Nat
    BY DEF LogRows
  <2> QED
    BY <2>1, <2>2
<1> HIDE DEF both
<1>8. \A i \in 1..(n + m) : both[i].version <= n + m
  <2>1. ASSUME NEW i \in 1..n PROVE both[i].version <= n + m
    <3>1. evolution[i].version <= n /\ evolution[i].version \in Nat
      BY <1>7, <2>1 DEF LogStands, n
    <3> QED
      BY <1>1, <1>4, <2>1, <3>1
  <2>2. ASSUME NEW i \in 1..(n + m), i \notin 1..n PROVE both[i].version <= n + m
    BY <1>5, <2>2 DEF n, m
  <2> QED
    BY <2>1, <2>2
<1>9. ASSUME NEW i \in 1..(n + m), both[i].action \in {"add_column", "create_table"},
             \A j \in 1..(n + m) : j > i => both[j].names \intersect both[i].names = {}
      PROVE  both[i].names \subseteq objects' \union meddled'
  <2>1. CASE i \in 1..n
    <3>0. n + m > i /\ (n + m) - n = m
      BY <1>1, <1>2, <2>1
    <3>1. both[n + m].names = c /\ n + m > i
      BY <1>5, <1>6, <3>0 DEF m
    <3>2. c \intersect both[i].names = {}
      BY <1>6, <1>9, <3>1
    <3>3. \A j \in 1..n : j > i => evolution[j].names \intersect evolution[i].names = {}
      BY <1>4, <1>9, <2>1
    <3>4. evolution[i].names \subseteq objects \union meddled
      BY <1>1, <1>4, <1>9, <2>1, <3>3 DEF LogStands, LogNeverAhead
    <3> QED
      BY <1>4, <2>1, <3>2, <3>4
  <2>2. CASE i \notin 1..n
    BY <1>5, <1>9, <2>2 DEF m
  <2> QED
    BY <2>1, <2>2
<1>10. evolution' = both
  BY DEF both
<1> QED
  BY <1>1, <1>8, <1>9, <1>10 DEF LogStands, LogNeverAhead

\* The evolution is at no version that its log has not reached.
LEMMA EvolutionVersionIs ==
  ASSUME LogStands
  PROVE  EvolutionVersion \in 0..Len(evolution)
<1> DEFINE S == {evolution[i].version : i \in DOMAIN evolution} \union {0}
<1>1. Len(evolution) \in Nat /\ \A i \in DOMAIN evolution : evolution[i].version \in 0..Len(evolution)
  <2>1. evolution \in Seq(LogRows) /\ DOMAIN evolution = 1..Len(evolution) /\ Len(evolution) \in Nat
    BY DEF LogStands
  <2>2. \A i \in 1..Len(evolution) : evolution[i].version \in Nat
    <3>1. \A i \in 1..Len(evolution) : evolution[i] \in LogRows
      BY <2>1
    <3>2. \A r \in LogRows : r.version \in Nat
      BY DEF LogRows
    <3> QED
      BY <3>1, <3>2
  <2> QED
    BY <2>1, <2>2 DEF LogStands
<1>2. S \subseteq 0..Len(evolution) /\ S # {}
  BY <1>1
<1> HIDE DEF S
<1>3. Max(S) \in S
  BY <1>1, <1>2, LargestOfBounded
<1> QED
  BY <1>2, <1>3 DEF EvolutionVersion, S

\* A step keeps the log behind the schema.
LEMMA EvolutionLogStep ==
  ASSUME LogStands, [MigrationNext]_migrationVars
  PROVE  LogStands'
<1> DEFINE n == Len(evolution)
<1>0. n \in Nat /\ EvolutionVersion \in 0..n /\ evolution \in Seq(LogRows)
      /\ objects \subseteq Objects /\ meddled \subseteq Objects
  BY EvolutionVersionIs DEF LogStands
<1>1. ASSUME UNCHANGED evolution, objects' \subseteq Objects, meddled' \subseteq Objects,
             objects \union meddled \subseteq objects' \union meddled'
      PROVE  LogStands'
  BY <1>1 DEF LogStands, LogNeverAhead
<1>2. ASSUME UNCHANGED evolutionVars PROVE LogStands'
  BY <1>2 DEF evolutionVars, LogStands, LogNeverAhead
<1>3. ASSUME NEW o \in Objects, NEW undo \in BOOLEAN, NEW refused \in BOOLEAN,
             ApplyProposal(o, undo, refused)
      PROVE  LogStands'
  <2> DEFINE next == EvolutionVersion + 1
             one == Logged(next, "version_increment", {}, FALSE)
             two == Logged(next, ActionFor(o), {o}, undo)
             new == <<one, two>>
  <2>1. objects' = objects \union {o} /\ meddled' = meddled \ {o}
        /\ (refused => UNCHANGED evolution) /\ (~refused => evolution' = evolution \o new)
    BY <1>3 DEF ApplyProposal
  <2>2. next \in Nat /\ next <= n + 2
    BY <1>0
  <2> HIDE DEF next
  <2>3. one \in LogRows /\ two \in LogRows /\ one.names = {} /\ two.names = {o}
        /\ one.version = next /\ two.version = next
    BY <2>2 DEF Logged, LogRows, ActionFor
  <2> HIDE DEF one, two
  <2>4. new \in Seq(LogRows) /\ Len(new) = 2 /\ new # <<>> /\ 1..2 = {1, 2} /\ new[1] = one /\ new[2] = two
    BY <2>3
  <2> HIDE DEF new
  <2>5. \A i \in 1..Len(new) : new[i].names \subseteq {o} /\ new[i].version <= n + Len(new)
    BY <2>2, <2>3, <2>4
  <2>6. objects' \subseteq Objects /\ meddled' \subseteq Objects
        /\ objects \union meddled \subseteq objects' \union meddled' /\ o \in objects'
    BY <1>0, <2>1
  <2>7. CASE refused
    BY <1>1, <2>1, <2>6, <2>7
  <2>8. CASE ~refused
    <3>1. {o} \in SUBSET Objects /\ (objects \union meddled) \ {o} \subseteq objects' \union meddled'
          /\ {o} \subseteq objects' \union meddled' /\ new[Len(new)].names = {o}
      BY <2>3, <2>4, <2>6
    <3> QED
      BY <2>1, <2>4, <2>5, <2>6, <2>8, <3>1, LogGrows
  <2> QED
    BY <2>7, <2>8
<1>4. ASSUME NEW after \in SUBSET Objects, NEW refused \in BOOLEAN, ApplyRaw(after, refused)
      PROVE  LogStands'
  <2> DEFINE one == Logged(EvolutionVersion, "custom", {}, FALSE)
             new == <<one>>
  <2>1. objects' = after /\ meddled' = meddled \union (objects \ after)
        /\ (refused => UNCHANGED evolution) /\ (~refused => evolution' = Append(evolution, one))
    BY <1>4 DEF ApplyRaw
  <2>2. one \in LogRows /\ one.names = {} /\ one.version = EvolutionVersion
    BY <1>0 DEF Logged, LogRows
  <2> HIDE DEF one
  <2>3. new \in Seq(LogRows) /\ Len(new) = 1 /\ new # <<>> /\ 1..1 = {1} /\ new[1] = one
        /\ Append(evolution, one) = evolution \o new
    BY <1>0, <2>2
  <2> HIDE DEF new
  <2>4. \A i \in 1..Len(new) : new[i].names \subseteq {} /\ new[i].version <= n + Len(new)
    BY <1>0, <2>2, <2>3
  <2>5. objects' \subseteq Objects /\ meddled' \subseteq Objects
        /\ objects \union meddled \subseteq objects' \union meddled'
    BY <1>0, <2>1
  <2>6. CASE refused
    BY <1>1, <2>1, <2>5, <2>6
  <2>7. CASE ~refused
    <3>1. {} \in SUBSET Objects /\ (objects \union meddled) \ {} \subseteq objects' \union meddled'
          /\ {} \subseteq objects' \union meddled' /\ new[Len(new)].names = {}
      BY <2>2, <2>3, <2>5
    <3> QED
      BY <2>1, <2>3, <2>4, <2>5, <2>7, <3>1, LogGrows
  <2> QED
    BY <2>6, <2>7
<1>5. ASSUME NEW refused \in BOOLEAN, RollbackLast(refused) PROVE LogStands'
  <2>1. PICK o \in Objects :
           /\ IF refused \/ o \in Columns \ objects
              THEN RefusedRollback(o)
              ELSE /\ objects' = objects \ {o}
                   /\ evolution' = Append(evolution, Logged(EvolutionVersion + 1, "rollback", {o}, FALSE))
           /\ UNCHANGED meddled
    BY <1>5 DEF RollbackLast, Objects
  <2> DEFINE one == Logged(EvolutionVersion + 1, "rollback", {o}, FALSE)
             new == <<one>>
  <2>2. EvolutionVersion + 1 \in Nat /\ EvolutionVersion + 1 <= n + 1
    BY <1>0
  <2>3. one \in LogRows /\ one.names = {o} /\ one.version = EvolutionVersion + 1 /\ one.action = "rollback"
    BY <2>2 DEF Logged, LogRows
  <2>4. CASE refused \/ o \in Columns \ objects
    BY <1>2, <2>1, <2>4 DEF RefusedRollback, evolutionVars
  <2>5. CASE ~(refused \/ o \in Columns \ objects)
    <3>1. objects' = objects \ {o} /\ evolution' = Append(evolution, one) /\ UNCHANGED meddled
      BY <2>1, <2>5
    <3> HIDE DEF one
    <3>2. new \in Seq(LogRows) /\ Len(new) = 1 /\ new # <<>> /\ 1..1 = {1} /\ new[1] = one
          /\ Append(evolution, one) = evolution \o new
      BY <1>0, <2>3
    <3> HIDE DEF new
    <3>3. \A i \in 1..Len(new) : /\ new[i].names \subseteq {o} /\ new[i].version <= n + Len(new)
                                 /\ new[i].action \notin {"add_column", "create_table"}
      BY <1>0, <2>2, <2>3, <3>2
    <3>4. {o} \in SUBSET Objects /\ (objects \union meddled) \ {o} \subseteq objects' \union meddled'
          /\ objects' \subseteq Objects /\ meddled' \subseteq Objects /\ new[Len(new)].names = {o}
      BY <1>0, <2>3, <3>1, <3>2
    <3> QED
      BY <3>1, <3>2, <3>3, <3>4, LogGrows
  <2> QED
    BY <2>4, <2>5
<1>6. VersionNext => UNCHANGED evolutionVars
  BY DEF VersionNext, RegisterMigration, ApplyMigrations, MigrateTo, DowngradeTo, Finished
<1>7. EvolutionNext => LogStands'
  <2> HIDE DEF n
  <2> QED
    BY <1>3, <1>4, <1>5 DEF EvolutionNext, Objects
<1>8. UNCHANGED migrationVars => UNCHANGED evolutionVars
  BY DEF migrationVars, evolutionVars
<1> QED
  BY <1>2, <1>6, <1>7, <1>8 DEF MigrationNext

\* What the invariant says of the migrations to a reader.
LEMMA MigrationsAreTyped == MigrationInv => MigrationTypeOK /\ BooksMatchSchema /\ LogNeverAhead
  BY DEF MigrationInv, VersionsInv, LogStands, LogRows, Objects, MigrationTypeOK

-----------------------------------------------------------------------------
\* Schema plans: what is done to one table does not undo another's.

PlanActions == {"create", "drop", "add_column", "drop_column", "modify_column", "create_index",
                "drop_index", "drop_auto"}

\* A table differs by an action from what is wanted of it.
IsChange(action, want, has) ==
    \/ action = "create" /\ want # NoTable /\ has = NoTable
    \/ action = "drop" /\ want = NoTable /\ has # NoTable
    \/ /\ want # NoTable /\ has # NoTable
       /\ \/ action = "add_column" /\ want.ref # "no" /\ has.ref = "no"
          \/ action = "drop_column" /\ want.ref = "no" /\ has.ref # "no"
          \/ /\ action = "modify_column"
             /\ \/ "no" \notin {want.ref, has.ref} /\ want.ref # has.ref
                \/ want.auto # has.auto
          \/ action = "drop_auto" /\ has.auto
          \/ action = "create_index" /\ want.index /\ ~has.index
          \/ action = "drop_index" /\ has.index /\ ~want.index

\* The differences of two schemas, as changes of single tables.
LEMMA DifferencesAre ==
  ASSUME NEW desired, NEW before
  PROVE  DiffSchemas(desired, before) =
         {c \in [action : PlanActions, table : Tables] : IsChange(c.action, desired[c.table], before[c.table])}
<1> DEFINE diff == DiffSchemas(desired, before)
           all == [action : PlanActions, table : Tables]
<1>1. ASSUME NEW c \in diff
      PROVE  c \in all /\ IsChange(c.action, desired[c.table], before[c.table])
  <2>1. \E t \in Tables, a \in PlanActions : c = Change(a, t) /\ IsChange(a, desired[t], before[t])
    BY DEF DiffSchemas, Change, IsChange, PlanActions
  <2> QED
    BY <2>1 DEF Change
<1>2. ASSUME NEW c \in all, IsChange(c.action, desired[c.table], before[c.table])
      PROVE  c \in diff
  <2>1. c = Change(c.action, c.table)
    BY DEF Change
  <2> QED
    BY <1>2, <2>1 DEF DiffSchemas, IsChange, PlanActions
<1> HIDE DEF diff, all
<1>3. diff = {c \in all : IsChange(c.action, desired[c.table], before[c.table])}
  BY <1>1, <1>2
<1> QED
  BY <1>3 DEF diff, all

\* A plan of at most one statement has no two.
LEMMA StatementIsOne ==
  ASSUME NEW desired, NEW before, Cardinality(Statements(DiffSchemas(desired, before))) <= 1
  PROVE  \A c, d \in Statements(DiffSchemas(desired, before)) : c = d
<1> DEFINE S == Statements(DiffSchemas(desired, before))
<1>1. IsFiniteSet(S)
  <2>1. IsFiniteSet(PlanActions)
    <3>1. PlanActions = {"create"} \union ({"drop"} \union ({"add_column"} \union ({"drop_column"} \union
              ({"modify_column"} \union ({"create_index"} \union ({"drop_index"} \union {"drop_auto"}))))))
      BY DEF PlanActions
    <3>2. \A x : IsFiniteSet({x})
      BY FS_Singleton
    <3> QED
      BY <3>1, <3>2, FS_Union
  <2>2. IsFiniteSet(PlanActions \X Tables)
    BY <2>1, FS_Product, PlanAssumption DEF PlanAssumption
  <2> DEFINE f == [p \in PlanActions \X Tables |-> [action |-> p[1], table |-> p[2]]]
             all == [action : PlanActions, table : Tables]
  <2>3. f \in Surjection(PlanActions \X Tables, all)
    <3>1. f \in [PlanActions \X Tables -> all]
      OBVIOUS
    <3>2. ASSUME NEW c \in all PROVE \E p \in PlanActions \X Tables : f[p] = c
      <4>1. <<c.action, c.table>> \in PlanActions \X Tables
        OBVIOUS
      <4>2. f[<<c.action, c.table>>] = c
        BY <4>1
      <4> QED
        BY <4>1, <4>2
    <3> QED
      BY <3>1, <3>2 DEF Surjection
  <2>4. IsFiniteSet(all)
    <3> HIDE DEF all, f
    <3> QED
      BY <2>2, <2>3, FS_Surjection
  <2>5. S \subseteq all
    BY DifferencesAre DEF Statements
  <2> HIDE DEF S, all
  <2> QED
    BY <2>4, <2>5, FS_Subset
<1>2. ASSUME NEW c \in S, NEW d \in S, c # d PROVE FALSE
  <2> HIDE DEF S
  <2>1. {c, d} \subseteq S /\ IsFiniteSet({d}) /\ Cardinality({d}) = 1
    BY FS_Singleton
  <2>2. Cardinality({d} \union {c}) = 2
    <3> DEFINE D == {d}
    <3>1. IsFiniteSet(D) /\ Cardinality(D) = 1 /\ c \notin D
      BY <1>2, <2>1
    <3> HIDE DEF D
    <3>2. Cardinality(D \union {c}) = Cardinality(D) + 1
      BY <3>1, FS_AddElement
    <3> QED
      BY <3>1, <3>2 DEF D
  <2>3. {d} \union {c} = {c, d}
    OBVIOUS
  <2>4. 2 <= Cardinality(S) /\ Cardinality(S) \in Nat
    BY <1>1, <2>1, <2>2, <2>3, FS_Subset, FS_CardinalityType
  <2> QED
    BY <2>4 DEF S
<1> QED
  BY <1>2

\* What the one statement makes of a table: one that is wanted, but for the type of its
\* column and the index of a new table.
AloneOn(action, want, has) ==
    /\ IsChange(action, want, has) /\ action \notin {"modify_column", "drop_auto"}
    /\ action = "drop_column" => ~has.index
    /\ \A other \in PlanActions :
           other # action /\ IsChange(other, want, has) => other = "modify_column"

\* What is left to change of a table, that the plan made or not.
Settled(want, has, fresh) ==
    \A action \in PlanActions : IsChange(action, want, has) =>
        action = "modify_column" \/ (fresh /\ action \in {"create_index", "drop_auto"})

\* One statement settles its table, but for a change of type or the indexes of a new table.
LEMMA StatementConverges ==
  ASSUME NEW want \in TableStates \union {NoTable}, NEW has \in TableStates \union {NoTable},
         NEW action \in PlanActions, AloneOn(action, want, has)
  PROVE  /\ AfterStatement(action, want, has) \in TableStates \union {NoTable}
         /\ Settled(want, AfterStatement(action, want, has), has = NoTable)
<1> DEFINE new == AfterStatement(action, want, has)
           State(r, i, u) == [ref |-> r, index |-> i, auto |-> u]
           Refs == {"no", "TEXT", "INTEGER"}
<1> USE DEF PlanActions
<1>0. /\ \A s \in TableStates : /\ s.ref \in Refs /\ s.index \in BOOLEAN /\ s.auto \in BOOLEAN
                                /\ s = State(s.ref, s.index, s.auto) /\ s # NoTable
                                /\ s.index => s.ref # "no"
      /\ \A r \in Refs, i, u \in BOOLEAN : (i => r # "no") => State(r, i, u) \in TableStates
  BY DEF TableStates, NoTable
<1>1. CASE action = "create"
  <2>1. want \in TableStates /\ new = [want EXCEPT !.index = FALSE] /\ has = NoTable
    BY <1>1 DEF AfterStatement, IsChange, AloneOn
  <2>2. want = State(want.ref, want.index, want.auto) /\ want.ref \in Refs /\ want.auto \in BOOLEAN
    BY <1>0, <2>1
  <2>3. new = State(want.ref, FALSE, want.auto)
    <3> HIDE DEF new
    <3> QED
      BY <2>1, <2>2
  <2>4. new \in TableStates /\ new.ref = want.ref /\ new.index = FALSE /\ new.auto = want.auto
        /\ new # NoTable
    <3>1. State(want.ref, FALSE, want.auto) \in TableStates
      BY <1>0, <2>2
    <3> HIDE DEF new
    <3>2. new \in TableStates
      BY <2>3, <3>1
    <3> QED
      BY <1>0, <2>3, <3>2
  <2> HIDE DEF new
  <2> QED
    BY <2>1, <2>2, <2>4, <1>0 DEF IsChange, Settled, new
<1>2. CASE action = "drop"
  <2>1. new = NoTable /\ want = NoTable
    BY <1>2 DEF AfterStatement, IsChange, AloneOn
  <2> HIDE DEF new
  <2> QED
    BY <2>1 DEF IsChange, Settled, new
<1>3. CASE action \notin {"create", "drop"}
  <2>1. want \in TableStates /\ has \in TableStates
    BY <1>3 DEF IsChange, AloneOn
  <2>2. /\ has = State(has.ref, has.index, has.auto) /\ has.ref \in Refs /\ has.index \in BOOLEAN
        /\ has.auto \in BOOLEAN /\ want.ref \in Refs /\ want # NoTable /\ has # NoTable
        /\ has.index => has.ref # "no"
    BY <1>0, <2>1
  <2>3. ~has.auto
    BY <2>2 DEF AloneOn, IsChange
  <2>4. CASE action \in {"add_column", "drop_column"}
    <3>1. new = [has EXCEPT !.ref = want.ref]
      BY <2>4 DEF AfterStatement
    <3>2. new = State(want.ref, has.index, has.auto)
      <4> HIDE DEF new
      <4> QED
        BY <2>2, <3>1
    <3>3. has.index => want.ref # "no"
      BY <2>2, <2>4 DEF IsChange, AloneOn
    <3>4. new \in TableStates /\ new.ref = want.ref /\ new.index = has.index /\ new.auto = has.auto
          /\ new # NoTable
      BY <1>0, <2>2, <3>2, <3>3
    <3>5. ~(has.index /\ ~want.index) /\ ~(want.index /\ ~has.index)
      BY <2>2, <2>4 DEF IsChange, AloneOn
    <3> HIDE DEF new
    <3> QED
      BY <2>2, <2>3, <3>4, <3>5 DEF IsChange, Settled, new
  <2>5. CASE action \in {"create_index", "drop_index"}
    <3> DEFINE i == (action = "create_index")
    <3>1. i \in BOOLEAN
      OBVIOUS
    <3>2. new = [has EXCEPT !.index = i]
      <4>1. CASE action = "create_index"
        <5>1. i = TRUE
          BY <4>1
        <5> QED
          BY <4>1, <5>1 DEF AfterStatement
      <4>2. CASE action = "drop_index"
        <5>1. i = FALSE
          BY <4>2
        <5> QED
          BY <4>2, <5>1 DEF AfterStatement
      <4> QED
        BY <2>5, <4>1, <4>2
    <3>3. ~(want.ref # "no" /\ has.ref = "no") /\ ~(want.ref = "no" /\ has.ref # "no")
      BY <2>2, <2>5 DEF IsChange, AloneOn
    <3>4. i => want.index /\ has.ref # "no"
      BY <1>0, <2>1, <2>2, <2>5, <3>3 DEF IsChange, AloneOn
    <3>5. ~i => ~want.index
      BY <2>2, <2>5 DEF IsChange, AloneOn
    <3> HIDE DEF i, new
    <3>6. new = State(has.ref, i, has.auto)
      BY <2>2, <3>2
    <3>7. new \in TableStates /\ new.ref = has.ref /\ new.index = i /\ new.auto = has.auto
          /\ new # NoTable
      BY <1>0, <2>2, <3>1, <3>4, <3>6
    <3> QED
      BY <2>2, <2>3, <3>1, <3>3, <3>4, <3>5, <3>7 DEF IsChange, Settled, new
  <2>6. action \in {"add_column", "drop_column", "create_index", "drop_index"}
    BY <1>3 DEF AloneOn
  <2> QED
    BY <2>4, <2>5, <2>6
<1> QED
  BY <1>1, <1>2, <1>3

PlanInv ==
    /\ db \in Schemas
    /\ applied \in [MigrationIds -> [version : 0..MaxVersion, standing : BOOLEAN]]
    /\ health \in Seq([score : 0..100, suggestion : BOOLEAN]) /\ Len(health) <= MaxChecks
    /\ PlansConverge

\* The first state of the plans has the invariant.
LEMMA PlanInitially == PlanInit => PlanInv
  BY PlanAssumption DEF PlanAssumption, PlanInit, PlanInv, Schemas, Unmigrated, PlansConverge

\* A plan that can be executed leaves only changes that no statement makes.
LEMMA PlanIsCarriedOut ==
  ASSUME PlanInv, NEW desired \in Schemas, Executable(DiffSchemas(desired, db))
  PROVE  /\ Executed(desired, DiffSchemas(desired, db)) \in Schemas
         /\ \A c \in DiffSchemas(desired, Executed(desired, DiffSchemas(desired, db))) :
                \/ c.action = "modify_column"
                \/ db[c.table] = NoTable /\ c.action \in {"create_index", "drop_auto"}
<1> DEFINE diff == DiffSchemas(desired, db)
           after == Executed(desired, diff)
           S == Statements(diff)
           all == [action : PlanActions, table : Tables]
<1>1. \A c, d \in S : c = d
  BY StatementIsOne DEF Executable
<1>2. diff = {c \in all : IsChange(c.action, desired[c.table], db[c.table])}
  BY DifferencesAre
<1>3. S = {c \in diff : c.action # "modify_column"}
  BY DEF Statements
<1>4. \A c \in S : (c.action = "drop_column" => ~db[c.table].index) /\ c.action # "drop_auto"
  BY DEF Executable
<1>5. db \in Schemas
  BY DEF PlanInv
<1>6. after = [t \in Tables |->
          IF {c \in S : c.table = t} = {} THEN db[t]
          ELSE AfterStatement((CHOOSE c \in {c \in S : c.table = t} : TRUE).action, desired[t], db[t])]
  BY DEF Executed
<1> HIDE DEF diff, after, S
<1>7. ASSUME NEW t \in Tables
      PROVE  /\ after[t] \in TableStates \union {NoTable}
             /\ Settled(desired[t], after[t], db[t] = NoTable)
  <2>1. desired[t] \in TableStates \union {NoTable} /\ db[t] \in TableStates \union {NoTable}
    BY <1>5 DEF Schemas
  <2>2. \A a \in PlanActions : a # "modify_column" /\ IsChange(a, desired[t], db[t]) => Change(a, t) \in S
    BY <1>2, <1>3 DEF Change
  <2>3. CASE {c \in S : c.table = t} = {}
    <3>1. after[t] = db[t]
      BY <1>6, <2>3
    <3>2. \A a : Change(a, t) \notin S
      BY <2>3 DEF Change
    <3> QED
      BY <2>1, <2>2, <3>1, <3>2 DEF Settled
  <2>4. CASE {c \in S : c.table = t} # {}
    <3> DEFINE c == CHOOSE c \in {c \in S : c.table = t} : TRUE
    <3>1. c \in S /\ c.table = t
      BY <2>4
    <3>2. after[t] = AfterStatement(c.action, desired[t], db[t])
      BY <1>6, <2>4
    <3> HIDE DEF c
    <3>3. c.action \in PlanActions /\ IsChange(c.action, desired[t], db[t])
          /\ c.action \notin {"modify_column", "drop_auto"}
          /\ (c.action = "drop_column" => ~db[t].index)
      BY <1>2, <1>3, <1>4, <3>1
    <3>4. ASSUME NEW other \in PlanActions, other # c.action, IsChange(other, desired[t], db[t])
          PROVE  other = "modify_column"
      <4>1. other # "modify_column" => Change(other, t) = c
        BY <1>1, <2>2, <3>1, <3>4
      <4>2. Change(other, t).action = other
        BY DEF Change
      <4> QED
        BY <3>4, <4>1, <4>2
    <3>5. AloneOn(c.action, desired[t], db[t])
      BY <3>3, <3>4 DEF AloneOn
    <3> DEFINE want == desired[t]
               has == db[t]
               does == c.action
    <3> HIDE DEF want, has, does
    <3>6. /\ want \in TableStates \union {NoTable} /\ has \in TableStates \union {NoTable}
          /\ does \in PlanActions /\ AloneOn(does, want, has)
      BY <2>1, <3>3, <3>5 DEF want, has, does
    <3>7. /\ AfterStatement(does, want, has) \in TableStates \union {NoTable}
          /\ Settled(want, AfterStatement(does, want, has), has = NoTable)
      BY <3>6, StatementConverges
    <3> QED
      BY <3>2, <3>7 DEF want, has, does
  <2> QED
    BY <2>3, <2>4
<1>8. after \in Schemas
  BY <1>6, <1>7 DEF Schemas
<1>9. ASSUME NEW c \in DiffSchemas(desired, after)
      PROVE  \/ c.action = "modify_column"
             \/ db[c.table] = NoTable /\ c.action \in {"create_index", "drop_auto"}
  <2>1. c \in all /\ IsChange(c.action, desired[c.table], after[c.table])
    BY <1>9, DifferencesAre
  <2> QED
    BY <1>7, <2>1 DEF Settled
<1> QED
  BY <1>8, <1>9 DEF after, diff

\* Every step of the plans keeps the invariant.
LEMMA PlanStep == PlanInv /\ [PlanNext]_planVars => PlanInv'
<1> SUFFICES ASSUME PlanInv, [PlanNext]_planVars PROVE PlanInv'
  OBVIOUS
<1> USE DEF PlanInv
<1>1. ASSUME NEW m \in MigrationIds, NEW version \in 1..MaxVersion
      PROVE  [applied EXCEPT ![m] = [version |-> version, standing |-> TRUE]] \in
             [MigrationIds -> [version : 0..MaxVersion, standing : BOOLEAN]]
  <2>1. version \in 0..MaxVersion
    BY PlanAssumption DEF PlanAssumption
  <2>2. [version |-> version, standing |-> TRUE] \in [version : 0..MaxVersion, standing : BOOLEAN]
    BY <2>1
  <2> DEFINE r == [version |-> version, standing |-> TRUE]
  <2> HIDE DEF r
  <2>3. [applied EXCEPT ![m] = r] \in [MigrationIds -> [version : 0..MaxVersion, standing : BOOLEAN]]
    BY <2>2 DEF r
  <2> QED
    BY <2>3 DEF r
<1>2. ASSUME NEW m \in MigrationIds, NEW version \in 1..MaxVersion, NEW desired \in Schemas,
             ApplyPlan(m, version, desired)
      PROVE  PlanInv'
  <2>1. /\ Executable(DiffSchemas(desired, db)) /\ db' = Executed(desired, DiffSchemas(desired, db))
        /\ applied' = [applied EXCEPT ![m] = [version |-> version, standing |-> TRUE]]
        /\ left' = {[action |-> c.action, fresh |-> db[c.table] = NoTable] :
                        c \in DiffSchemas(desired, Executed(desired, DiffSchemas(desired, db)))}
        /\ UNCHANGED health
    BY <1>2 DEF ApplyPlan
  <2>2. db' \in Schemas
    BY <2>1, PlanIsCarriedOut
  <2>3. ASSUME NEW c \in left'
        PROVE  \/ c.action = "modify_column"
               \/ c.fresh /\ c.action \in {"create_index", "drop_auto"}
    <3>1. PICK d \in DiffSchemas(desired, Executed(desired, DiffSchemas(desired, db))) :
              c = [action |-> d.action, fresh |-> db[d.table] = NoTable]
      BY <2>1
    <3>2. \/ d.action = "modify_column"
          \/ db[d.table] = NoTable /\ d.action \in {"create_index", "drop_auto"}
      BY <2>1, PlanIsCarriedOut
    <3> DEFINE f == (db[d.table] = NoTable)
    <3>3. c.action = d.action /\ c.fresh = f
      BY <3>1
    <3> QED
      BY <3>2, <3>3
  <2> QED
    BY <1>1, <2>1, <2>2, <2>3 DEF PlansConverge
<1>3. ASSUME NEW m \in MigrationIds, NEW version \in 1..MaxVersion, NEW t \in Tables, NEW u \in Tables,
             ApplyScript(m, version, t, u)
      PROVE  PlanInv'
  <2> DEFINE created == [ref |-> "no", index |-> FALSE, auto |-> FALSE]
             fails == db[u] # NoTable
  <2>1. created \in TableStates \union {NoTable}
    BY DEF TableStates
  <2>2. /\ db' = [db EXCEPT ![t] = created, ![u] = IF fails THEN @ ELSE created]
        /\ applied' = IF fails THEN applied
                     ELSE [applied EXCEPT ![m] = [version |-> version, standing |-> TRUE]]
        /\ UNCHANGED <<health, left>>
    BY <1>3 DEF ApplyScript
  <2> HIDE DEF created, fails
  <2>3. db' \in Schemas
    BY <2>1, <2>2 DEF Schemas
  <2>4. applied' \in [MigrationIds -> [version : 0..MaxVersion, standing : BOOLEAN]]
    BY <1>1, <2>2
  <2> QED
    BY <2>2, <2>3, <2>4 DEF PlansConverge
<1>4. ASSUME NEW m \in MigrationIds, RollbackMigration(m) PROVE PlanInv'
  <2>1. applied' = [applied EXCEPT ![m].standing = FALSE] /\ UNCHANGED <<db, health, left>>
    BY <1>4 DEF RollbackMigration
  <2>2. applied' \in [MigrationIds -> [version : 0..MaxVersion, standing : BOOLEAN]]
    BY <2>1
  <2> QED
    BY <2>1, <2>2 DEF PlansConverge
<1>5. ASSUME NEW free \in {0, 40, 100}, NEW corrupt \in BOOLEAN, NEW bloated \in BOOLEAN,
             GetHealthHistory(free, corrupt, bloated)
      PROVE  PlanInv'
  <2> DEFINE row == [score |-> HealthScore(free, corrupt, bloated),
                     suggestion |-> free > 20 \/ corrupt \/ MissingIndexes # {}]
  <2>1. HealthScore(free, corrupt, bloated) \in 0..100
    BY DEF HealthScore
  <2>2. row \in [score : 0..100, suggestion : BOOLEAN]
    BY <2>1
  <2> HIDE DEF row
  <2>3. health' = Append(health, row) /\ Len(health) < MaxChecks /\ UNCHANGED <<db, applied, left>>
    BY <1>5 DEF GetHealthHistory, row
  <2>4. Len(health') = Len(health) + 1 /\ health' \in Seq([score : 0..100, suggestion : BOOLEAN])
        /\ Len(health) \in Nat
    BY <2>2, <2>3
  <2> QED
    BY <2>3, <2>4, PlanAssumption DEF PlanAssumption, PlansConverge
<1>6. CASE UNCHANGED planVars
  BY <1>6 DEF planVars, PlansConverge
<1> QED
  BY <1>2, <1>3, <1>4, <1>5, <1>6 DEF PlanNext

\* What the invariant says of the plans to a reader.
LEMMA PlansAreTyped == PlanInv => PlanTypeOK
<1> SUFFICES ASSUME PlanInv PROVE PlanTypeOK
  OBVIOUS
<1>1. SchemaVersion <= MaxVersion
  <2> DEFINE S == {applied[m].version : m \in {k \in MigrationIds : applied[k].standing}} \union {0}
  <2>1. S \subseteq 0..MaxVersion /\ S # {} /\ MaxVersion \in Nat
    BY PlanAssumption DEF PlanInv, PlanAssumption
  <2>2. SchemaVersion = Max(S)
    BY DEF SchemaVersion
  <2> HIDE DEF S
  <2>3. Max(S) \in S
    BY <2>1, LargestOfBounded
  <2>4. \A x \in 0..MaxVersion : x <= MaxVersion
    BY <2>1
  <2> QED
    BY <2>1, <2>2, <2>3, <2>4
<1> QED
  BY <1>1 DEF PlanInv, PlanTypeOK, DetectRelationships

-----------------------------------------------------------------------------
\* The tables: a copy of a table holds its rows until it takes its place.

Alterations == [table : DbTables, copy : StoredTables, pc : {"copied", "dropped"}]

\* A table is there at most once, and so is a change of columns.
OneOrNone(S, E) == S = {} \/ \E x \in E : S = {x}

\* A copy holds the rows of its table; a table that is there has its rows, and one whose
\* columns are being changed is missing just while the change is between two statements.
RowsInv ==
    /\ \A a \in altering : /\ a.copy.rows = owed[a.table]
                           /\ stored[a.table] = {} <=> a.pc = "dropped"
    /\ \A t \in DbTables :
           IF Exists(t) THEN \A d \in stored[t] : d.rows = owed[t]
           ELSE owed[t] > 0 => \/ \E a \in altering : a.table = t /\ a.copy.rows = owed[t]
                               \/ \E c \in copies : c.table = t /\ c.rows = owed[t]
    /\ \A i \in DbIndexes : \A t \in indexes[i] : Exists(t)

DbInv ==
    /\ stored \in [DbTables -> SUBSET StoredTables]
    /\ \A t \in DbTables : OneOrNone(stored[t], StoredTables)
    /\ indexes \in [DbIndexes -> SUBSET DbTables]
    /\ copies \subseteq [table : DbTables, rows : 0..MaxTableRows]
    /\ altering \subseteq Alterations /\ OneOrNone(altering, Alterations)
    /\ owed \in [DbTables -> 0..MaxTableRows]
    /\ RowsInv

\* The first state of the tables has the invariant.
LEMMA DbInitially == DbInit => DbInv
  BY DbAssumption DEF DbAssumption, DbInit, DbInv, OneOrNone, RowsInv, Exists

\* A cascade leaves every table with the rows it owes, and takes none where t is.
LEMMA CascadeLeaves ==
  ASSUME DbInv, NEW t \in DbTables, NEW lost \in [DbTables -> 0..MaxTableRows], GoesWith(t, lost)
  PROVE  /\ Left(lost) \in [DbTables -> SUBSET StoredTables]
         /\ OwedLeft(lost) \in [DbTables -> 0..MaxTableRows]
         /\ OwedLeft(lost)[t] = owed[t]
         /\ \A u \in DbTables :
               /\ OneOrNone(Left(lost)[u], StoredTables)
               /\ Left(lost)[u] = {} <=> stored[u] = {}
               /\ \A e \in Left(lost)[u] : e.rows = OwedLeft(lost)[u]
               /\ stored[u] = {} => OwedLeft(lost)[u] = owed[u]
<1> DEFINE L == Left(lost)
           O == OwedLeft(lost)
<1>1. \A u \in DbTables : /\ L[u] = {[d EXCEPT !.rows = @ - lost[u]] : d \in stored[u]}
                          /\ O[u] = owed[u] - lost[u]
  BY DEF Left, OwedLeft
<1>2. DOMAIN L = DbTables /\ DOMAIN O = DbTables /\ L = [u \in DbTables |-> L[u]]
      /\ O = [u \in DbTables |-> O[u]]
  BY DEF Left, OwedLeft
<1> HIDE DEF L, O
<1>3. MaxTableRows \in Nat
  BY DbAssumption DEF DbAssumption
<1>4. lost[t] = 0
  <2>1. ~(lost[t] > 0)
    BY DEF GoesWith
  <2>2. lost[t] \in 0..MaxTableRows
    OBVIOUS
  <2> QED
    BY <1>3, <2>1, <2>2
<1>5. ASSUME NEW u \in DbTables, stored[u] = {}
      PROVE  L[u] = {} /\ O[u] = owed[u] /\ O[u] \in 0..MaxTableRows
  <2>1. ~(lost[u] > 0)
    BY <1>5 DEF GoesWith, Follow
  <2>2. lost[u] \in 0..MaxTableRows /\ owed[u] \in 0..MaxTableRows
    BY DEF DbInv
  <2>3. lost[u] = 0
    BY <1>3, <2>1, <2>2
  <2> QED
    BY <1>1, <1>3, <1>5, <2>2, <2>3
<1>6. ASSUME NEW u \in DbTables, stored[u] # {}
      PROVE  \E e \in StoredTables : L[u] = {e} /\ e.rows = O[u] /\ O[u] \in 0..MaxTableRows
  <2>1. PICK d \in StoredTables : stored[u] = {d}
    BY <1>6 DEF DbInv, OneOrNone
  <2>2. d.rows = owed[u]
    BY <2>1 DEF DbInv, RowsInv, Exists
  <2>3. lost[u] \in 0..MaxTableRows /\ d.rows \in 0..MaxTableRows
    BY DEF StoredTables
  <2>4. lost[u] <= d.rows
    <3>1. CASE lost[u] > 0
      BY <2>1, <3>1 DEF GoesWith
    <3>2. CASE ~(lost[u] > 0)
      BY <1>3, <2>3, <3>2
    <3> QED
      BY <3>1, <3>2
  <2> DEFINE m == d.rows - lost[u]
             e == [d EXCEPT !.rows = @ - lost[u]]
  <2>5. m \in 0..MaxTableRows /\ O[u] = m
    BY <1>1, <1>3, <2>2, <2>3, <2>4
  <2>6. e = [d EXCEPT !.rows = m] /\ L[u] = {e}
    BY <1>1, <2>1
  <2> HIDE DEF m
  <2>7. [d EXCEPT !.rows = m] \in StoredTables /\ [d EXCEPT !.rows = m].rows = m
    BY <2>5 DEF StoredTables
  <2> QED
    BY <2>5, <2>6, <2>7
<1>7. \A u \in DbTables : L[u] \subseteq StoredTables /\ O[u] \in 0..MaxTableRows
  BY <1>5, <1>6
<1>8. L \in [DbTables -> SUBSET StoredTables] /\ O \in [DbTables -> 0..MaxTableRows]
  BY <1>2, <1>7
<1>9. O[t] = owed[t]
  <2>1. owed[t] \in 0..MaxTableRows
    BY DEF DbInv
  <2> QED
    BY <1>1, <1>3, <1>4, <2>1
<1>10. \A u \in DbTables : /\ OneOrNone(L[u], StoredTables) /\ (L[u] = {} <=> stored[u] = {})
                           /\ \A e \in L[u] : e.rows = O[u]
                           /\ stored[u] = {} => O[u] = owed[u]
  BY <1>5, <1>6 DEF OneOrNone
<1> QED
  BY <1>8, <1>9, <1>10 DEF L, O

\* A table that is there alone changes, and keeps what it owes.
LEMMA TableChanges ==
  ASSUME DbInv, DbIdle, NEW t \in DbTables, NEW d \in StoredTables, stored[t] # {},
         stored' = [stored EXCEPT ![t] = {d}], NEW n \in 0..MaxTableRows, d.rows = n,
         owed' = [owed EXCEPT ![t] = n], UNCHANGED <<indexes, copies, altering>>
  PROVE  DbInv'
<1>1. stored' \in [DbTables -> SUBSET StoredTables] /\ owed' \in [DbTables -> 0..MaxTableRows]
  BY DEF DbInv
<1>2. \A u \in DbTables : /\ stored'[u] = IF u = t THEN {d} ELSE stored[u]
                          /\ owed'[u] = IF u = t THEN n ELSE owed[u]
  BY DEF DbInv
<1>3. \A u \in DbTables : OneOrNone(stored'[u], StoredTables)
  BY <1>2 DEF DbInv, OneOrNone
<1>4. \A u \in DbTables : Exists(u)' <=> Exists(u)
  BY <1>2 DEF Exists
<1>5. RowsInv'
  <2>1. altering = {} /\ altering' = {}
    BY DEF DbIdle
  <2>2. \A u \in DbTables : IF Exists(u)' THEN \A e \in stored'[u] : e.rows = owed'[u]
                            ELSE owed'[u] > 0 => \E c \in copies' : c.table = u /\ c.rows = owed'[u]
    BY <1>2, <1>4, <2>1 DEF DbInv, RowsInv, Exists
  <2>3. \A i \in DbIndexes : \A u \in indexes'[i] : Exists(u)'
    BY <1>4 DEF DbInv, RowsInv
  <2> QED
    BY <2>1, <2>2, <2>3 DEF RowsInv, Exists
<1> QED
  BY <1>1, <1>3, <1>5 DEF DbInv

\* Every step of the tables keeps the invariant.
LEMMA DbStep == DbInv /\ [DbNext]_dbVars => DbInv'
<1> SUFFICES ASSUME DbInv, [DbNext]_dbVars PROVE DbInv'
  OBVIOUS
<1>0. MaxTableRows \in Nat /\ 0 \in 0..MaxTableRows
  BY DbAssumption DEF DbAssumption
<1>1. ASSUME NEW t \in DbTables, NEW cols \in SUBSET DbColumns, NEW k \in BOOLEAN,
             NEW f \in SUBSET DbTables, CreateTable(t, cols, k, f)
      PROVE  DbInv'
  <2> DEFINE d == [cols |-> cols, rows |-> 0, keyed |-> k, follows |-> f]
  <2>1. d \in StoredTables /\ d.rows = 0
    BY <1>0 DEF StoredTables
  <2>2. /\ stored' = [stored EXCEPT ![t] = {d}] /\ owed' = [owed EXCEPT ![t] = 0]
        /\ UNCHANGED <<indexes, copies, altering>> /\ stored[t] = {} /\ altering = {}
    BY <1>1 DEF CreateTable, DbIdle, Exists
  <2> HIDE DEF d
  <2>3. stored' \in [DbTables -> SUBSET StoredTables] /\ owed' \in [DbTables -> 0..MaxTableRows]
    BY <1>0, <2>1, <2>2 DEF DbInv
  <2>4. \A u \in DbTables : /\ stored'[u] = IF u = t THEN {d} ELSE stored[u]
                            /\ owed'[u] = IF u = t THEN 0 ELSE owed[u]
    BY <2>2 DEF DbInv
  <2>5. \A u \in DbTables : OneOrNone(stored'[u], StoredTables)
    BY <2>1, <2>4 DEF DbInv, OneOrNone
  <2>6. \A u \in DbTables : IF stored'[u] # {} THEN \A e \in stored'[u] : e.rows = owed'[u]
                            ELSE owed'[u] > 0 => \E c \in copies' : c.table = u /\ c.rows = owed'[u]
    BY <2>1, <2>2, <2>4 DEF DbInv, RowsInv, Exists
  <2>7. \A i \in DbIndexes : \A u \in indexes'[i] : stored'[u] # {}
    BY <2>2, <2>4 DEF DbInv, RowsInv, Exists
  <2>8. RowsInv'
    BY <2>2, <2>6, <2>7 DEF RowsInv, Exists
  <2> QED
    BY <2>2, <2>3, <2>5, <2>8 DEF DbInv
<1>2. ASSUME NEW t \in DbTables, NEW lost \in [DbTables -> 0..MaxTableRows], DropTable(t, lost)
      PROVE  DbInv'
  <2> DEFINE L == Left(lost)
             O == OwedLeft(lost)
  <2>1. /\ stored' = [L EXCEPT ![t] = {}] /\ owed' = [O EXCEPT ![t] = 0]
        /\ indexes' = [i \in DbIndexes |-> indexes[i] \ {t}]
        /\ UNCHANGED <<copies, altering>> /\ altering = {} /\ GoesWith(t, lost)
    BY <1>2 DEF DropTable, DbIdle, WithoutIndexesOf
  <2> HIDE DEF L, O
  <2>2. /\ L \in [DbTables -> SUBSET StoredTables] /\ O \in [DbTables -> 0..MaxTableRows]
        /\ \A u \in DbTables : /\ OneOrNone(L[u], StoredTables) /\ (L[u] = {} <=> stored[u] = {})
                               /\ \A e \in L[u] : e.rows = O[u]
                               /\ stored[u] = {} => O[u] = owed[u]
    BY <2>1, CascadeLeaves DEF L, O
  <2>3. stored' \in [DbTables -> SUBSET StoredTables] /\ owed' \in [DbTables -> 0..MaxTableRows]
        /\ indexes' \in [DbIndexes -> SUBSET DbTables]
    BY <1>0, <2>1, <2>2 DEF DbInv
  <2>4. \A u \in DbTables : /\ stored'[u] = IF u = t THEN {} ELSE L[u]
                            /\ owed'[u] = IF u = t THEN 0 ELSE O[u]
    BY <2>1, <2>2
  <2>5. \A u \in DbTables : OneOrNone(stored'[u], StoredTables)
    BY <2>2, <2>4 DEF OneOrNone
  <2>6. \A u \in DbTables : IF stored'[u] # {} THEN \A e \in stored'[u] : e.rows = owed'[u]
                            ELSE owed'[u] > 0 => \E c \in copies' : c.table = u /\ c.rows = owed'[u]
    BY <2>1, <2>2, <2>4 DEF DbInv, RowsInv, Exists
  <2>7. \A i \in DbIndexes : \A u \in indexes'[i] : stored'[u] # {}
    BY <2>1, <2>2, <2>4 DEF DbInv, RowsInv, Exists
  <2>8. RowsInv'
    BY <2>1, <2>6, <2>7 DEF RowsInv, Exists
  <2> QED
    BY <2>1, <2>3, <2>5, <2>8 DEF DbInv
<1>3. ASSUME NEW t \in DbTables, NEW d \in stored[t]
      PROVE  /\ stored[t] = {d} /\ d \in StoredTables
             /\ d = [cols |-> d.cols, rows |-> d.rows, keyed |-> d.keyed, follows |-> d.follows]
             /\ d.cols \in SUBSET DbColumns /\ d.rows \in 0..MaxTableRows /\ d.keyed \in BOOLEAN
             /\ d.rows = owed[t]
  <2>1. d \in StoredTables /\ stored[t] = {d}
    BY DEF DbInv, OneOrNone
  <2>2. d.rows = owed[t]
    BY DEF DbInv, RowsInv, Exists
  <2> QED
    BY <2>1, <2>2 DEF StoredTables
<1>4. ASSUME NEW t \in DbTables PROVE owed = [owed EXCEPT ![t] = owed[t]]
  BY DEF DbInv
<1>5. ASSUME NEW t \in DbTables, NEW c \in DbColumns, NEW f \in SUBSET DbTables,
             AddColumn(t, c, f)
      PROVE  DbInv'
  <2>1. PICK d \in stored[t] : stored' = [stored EXCEPT ![t] =
           {[d EXCEPT !.cols = @ \union {c}, !.follows = @ \union f]}]
    BY <1>5 DEF AddColumn
  <2> DEFINE new == [d EXCEPT !.cols = @ \union {c}, !.follows = @ \union f]
  <2>2. new \in StoredTables /\ new.rows = d.rows
    <3>1. d \in StoredTables
      BY <1>3
    <3> QED
      BY <3>1 DEF StoredTables
  <2>3. d.rows \in 0..MaxTableRows /\ owed' = [owed EXCEPT ![t] = d.rows]
        /\ DbIdle /\ UNCHANGED <<indexes, copies, altering>>
    BY <1>3, <1>4, <1>5 DEF AddColumn
  <2> HIDE DEF new
  <2> QED
    BY <2>1, <2>2, <2>3, TableChanges DEF new
<1>6. ASSUME NEW t \in DbTables, NEW copy \in StoredTables, stored[t] # {}, copy.rows = owed[t], DbIdle,
             altering' = {[table |-> t, copy |-> copy, pc |-> "copied"]},
             UNCHANGED <<stored, indexes, copies, owed>>
      PROVE  DbInv'
  <2> DEFINE a == [table |-> t, copy |-> copy, pc |-> "copied"]
  <2>1. a \in Alterations /\ a.table = t /\ a.copy = copy /\ a.pc = "copied"
    BY DEF Alterations
  <2>2. altering' = {a} /\ altering = {}
    BY <1>6 DEF DbIdle
  <2> HIDE DEF a
  <2>3. RowsInv'
    BY <1>6, <2>1, <2>2 DEF DbInv, RowsInv, Exists
  <2> QED
    BY <1>6, <2>1, <2>2, <2>3 DEF DbInv, OneOrNone
<1>7. ASSUME NEW t \in DbTables, NEW c \in DbColumns, CopyWithout(t, c) PROVE DbInv'
  <2>1. PICK d \in stored[t] :
           altering' = {[table |-> t, copy |-> [d EXCEPT !.cols = @ \ {c}, !.keyed = FALSE, !.follows = {}],
                         pc |-> "copied"]}
    BY <1>7 DEF CopyWithout
  <2> DEFINE new == [d EXCEPT !.cols = @ \ {c}, !.keyed = FALSE, !.follows = {}]
  <2>2. new \in StoredTables /\ new.rows = owed[t]
    <3>1. d \in StoredTables /\ d.rows = owed[t]
      BY <1>3
    <3>2. new \in StoredTables
      BY <3>1 DEF StoredTables
    <3>3. new.rows = d.rows
      BY <3>1 DEF StoredTables
    <3> QED
      BY <3>1, <3>2, <3>3
  <2>3. DbIdle /\ UNCHANGED <<stored, indexes, copies, owed>>
    BY <1>7 DEF CopyWithout
  <2> HIDE DEF new
  <2> QED
    BY <1>6, <2>1, <2>2, <2>3 DEF new
<1>8. ASSUME NEW t \in DbTables, CopyRenamed(t) PROVE DbInv'
  <2>1. PICK d \in stored[t] :
           altering' = {[table |-> t, copy |-> [d EXCEPT !.keyed = FALSE, !.follows = {}], pc |-> "copied"]}
    BY <1>8 DEF CopyRenamed
  <2> DEFINE new == [d EXCEPT !.keyed = FALSE, !.follows = {}]
  <2>2. new \in StoredTables /\ new.rows = owed[t]
    <3>1. d \in StoredTables /\ d.rows = owed[t]
      BY <1>3
    <3>2. new \in StoredTables
      BY <3>1 DEF StoredTables
    <3>3. new.rows = d.rows
      BY <3>1 DEF StoredTables
    <3> QED
      BY <3>1, <3>2, <3>3
  <2>3. DbIdle /\ UNCHANGED <<stored, indexes, copies, owed>>
    BY <1>8 DEF CopyRenamed
  <2> HIDE DEF new
  <2> QED
    BY <1>6, <2>1, <2>2, <2>3 DEF new
<1>9. ASSUME NEW t \in DbTables, NEW old \in DbColumns, NEW new \in DbColumns, RenameColumn(t, old, new)
      PROVE  DbInv'
  <2>1. PICK d \in stored[t] :
           stored' = [stored EXCEPT ![t] = {[d EXCEPT !.cols = (@ \ {old}) \union {new}]}]
    BY <1>9 DEF RenameColumn
  <2> DEFINE row == [d EXCEPT !.cols = (@ \ {old}) \union {new}]
  <2>2. row \in StoredTables /\ row.rows = d.rows
    BY <1>3 DEF StoredTables
  <2>3. d.rows \in 0..MaxTableRows /\ owed' = [owed EXCEPT ![t] = d.rows]
        /\ DbIdle /\ UNCHANGED <<indexes, copies, altering>>
    BY <1>3, <1>4, <1>9 DEF RenameColumn
  <2> HIDE DEF row
  <2> QED
    BY <2>1, <2>2, <2>3, TableChanges DEF row
<1>10. ASSUME NEW a \in altering
       PROVE  /\ altering = {a} /\ a \in Alterations /\ a.table \in DbTables /\ a.copy \in StoredTables
              /\ a.copy.rows = owed[a.table] /\ a.copy.rows \in 0..MaxTableRows
              /\ stored[a.table] = {} <=> a.pc = "dropped"
  <2>1. altering = {a} /\ a \in Alterations
    BY DEF DbInv, OneOrNone
  <2>2. a.copy.rows = owed[a.table] /\ (stored[a.table] = {} <=> a.pc = "dropped")
    BY DEF DbInv, RowsInv
  <2> QED
    BY <2>1, <2>2 DEF Alterations, StoredTables
<1>11. ASSUME NEW lost \in [DbTables -> 0..MaxTableRows], DropOriginal(lost) PROVE DbInv'
  <2> DEFINE L == Left(lost)
             O == OwedLeft(lost)
  <2>1. PICK a \in altering :
           /\ a.pc = "copied" /\ GoesWith(a.table, lost)
           /\ stored' = [L EXCEPT ![a.table] = {}] /\ owed' = O
           /\ indexes' = [i \in DbIndexes |-> indexes[i] \ {a.table}]
           /\ altering' = {[a EXCEPT !.pc = "dropped"]} /\ UNCHANGED copies
    BY <1>11 DEF DropOriginal, WithoutIndexesOf
  <2> DEFINE b == [a EXCEPT !.pc = "dropped"]
  <2>2. b \in Alterations /\ b.table = a.table /\ b.copy = a.copy /\ b.pc = "dropped"
    BY <1>10 DEF Alterations
  <2>3. altering' = {b} /\ altering = {a} /\ a.table \in DbTables /\ a.copy.rows = owed[a.table]
    BY <1>10, <2>1
  <2> HIDE DEF b, L, O
  <2>4. /\ L \in [DbTables -> SUBSET StoredTables] /\ O \in [DbTables -> 0..MaxTableRows]
        /\ O[a.table] = owed[a.table]
        /\ \A u \in DbTables : /\ OneOrNone(L[u], StoredTables) /\ (L[u] = {} <=> stored[u] = {})
                               /\ \A e \in L[u] : e.rows = O[u]
                               /\ stored[u] = {} => O[u] = owed[u]
    BY <2>1, <2>3, CascadeLeaves DEF L, O
  <2>5. stored' \in [DbTables -> SUBSET StoredTables] /\ indexes' \in [DbIndexes -> SUBSET DbTables]
        /\ owed' \in [DbTables -> 0..MaxTableRows]
    BY <2>1, <2>4 DEF DbInv
  <2>6. \A u \in DbTables : stored'[u] = IF u = a.table THEN {} ELSE L[u]
    BY <2>1, <2>4
  <2>7. \A u \in DbTables : OneOrNone(stored'[u], StoredTables)
    BY <2>4, <2>6 DEF OneOrNone
  <2>8. ASSUME NEW u \in DbTables
        PROVE  IF stored'[u] # {} THEN \A e \in stored'[u] : e.rows = owed'[u]
               ELSE owed'[u] > 0 => \/ b.table = u /\ b.copy.rows = owed'[u]
                                    \/ \E c \in copies' : c.table = u /\ c.rows = owed'[u]
    <3>1. CASE u = a.table
      BY <2>1, <2>2, <2>3, <2>4, <2>6, <3>1
    <3>2. CASE u # a.table /\ stored[u] # {}
      BY <2>1, <2>4, <2>6, <3>2
    <3>3. CASE u # a.table /\ stored[u] = {}
      BY <2>1, <2>3, <2>4, <2>6, <3>3 DEF DbInv, RowsInv, Exists
    <3> QED
      BY <3>1, <3>2, <3>3
  <2>9. \A i \in DbIndexes : \A u \in indexes'[i] : stored'[u] # {}
    BY <2>1, <2>4, <2>6 DEF DbInv, RowsInv, Exists
  <2>10. RowsInv'
    BY <2>1, <2>2, <2>3, <2>4, <2>6, <2>8, <2>9 DEF RowsInv, Exists
  <2> QED
    BY <2>1, <2>2, <2>3, <2>5, <2>7, <2>10 DEF DbInv, OneOrNone
<1>12. CASE RenameCopy
  <2>1. PICK a \in altering :
           /\ a.pc = "dropped" /\ stored' = [stored EXCEPT ![a.table] = {a.copy}]
           /\ altering' = {} /\ UNCHANGED <<indexes, copies, owed>>
    BY <1>12 DEF RenameCopy
  <2>2. altering = {a} /\ a.table \in DbTables /\ a.copy.rows = owed[a.table] /\ a.copy \in StoredTables
    BY <1>10
  <2>3. stored' \in [DbTables -> SUBSET StoredTables]
    BY <2>1, <2>2 DEF DbInv
  <2>4. \A u \in DbTables : stored'[u] = IF u = a.table THEN {a.copy} ELSE stored[u]
    BY <2>1 DEF DbInv
  <2>5. \A u \in DbTables : OneOrNone(stored'[u], StoredTables)
    BY <2>2, <2>4 DEF DbInv, OneOrNone
  <2>6. ASSUME NEW u \in DbTables
        PROVE  IF stored'[u] # {} THEN \A e \in stored'[u] : e.rows = owed'[u]
               ELSE owed'[u] > 0 => \E c \in copies' : c.table = u /\ c.rows = owed'[u]
    BY <2>1, <2>2, <2>4 DEF DbInv, RowsInv, Exists
  <2>7. \A i \in DbIndexes : \A u \in indexes'[i] : stored'[u] # {}
    BY <2>1, <2>4 DEF DbInv, RowsInv, Exists
  <2>8. RowsInv'
    BY <2>1, <2>6, <2>7 DEF RowsInv, Exists
  <2> QED
    BY <2>1, <2>3, <2>5, <2>8 DEF DbInv, OneOrNone
<1>13. CASE DbCrash
  <2>1. /\ copies' = copies \union {[table |-> a.table, rows |-> a.copy.rows] : a \in altering}
        /\ altering' = {} /\ UNCHANGED <<stored, indexes, owed>>
    BY <1>13 DEF DbCrash
  <2>2. copies' \subseteq [table : DbTables, rows : 0..MaxTableRows]
    BY <1>10, <2>1 DEF DbInv
  <2>3. ASSUME NEW u \in DbTables
        PROVE  IF stored'[u] # {} THEN \A e \in stored'[u] : e.rows = owed'[u]
               ELSE owed'[u] > 0 => \E c \in copies' : c.table = u /\ c.rows = owed'[u]
    <3>1. ASSUME stored[u] = {}, owed[u] > 0 PROVE \E c \in copies' : c.table = u /\ c.rows = owed[u]
      <4>1. CASE \E a \in altering : a.table = u /\ a.copy.rows = owed[u]
        <5>1. PICK a \in altering : a.table = u /\ a.copy.rows = owed[u]
          BY <4>1
        <5>2. [table |-> a.table, rows |-> a.copy.rows] \in copies'
          BY <2>1
        <5> QED
          BY <5>1, <5>2
      <4>2. CASE \E c \in copies : c.table = u /\ c.rows = owed[u]
        BY <2>1, <4>2
      <4> QED
        BY <3>1, <4>1, <4>2 DEF DbInv, RowsInv, Exists
    <3> QED
      BY <2>1, <3>1 DEF DbInv, RowsInv, Exists
  <2>4. RowsInv'
    BY <2>1, <2>3 DEF DbInv, RowsInv, Exists
  <2> QED
    BY <2>1, <2>2, <2>4 DEF DbInv, OneOrNone
<1>14. ASSUME NEW old \in DbTables, NEW new \in DbTables, RenameTable(old, new) PROVE DbInv'
  <2> DEFINE renamed(t) == IF t = old THEN new ELSE t
             K == [u \in DbTables |->
                      {[d EXCEPT !.follows = {renamed(t) : t \in @}] : d \in stored[u]}]
  <2>1. /\ altering = {} /\ altering' = {} /\ stored[old] # {} /\ stored[new] = {} /\ old # new
        /\ stored' = [K EXCEPT ![new] = K[old], ![old] = {}]
        /\ owed' = [owed EXCEPT ![new] = owed[old], ![old] = 0]
        /\ indexes' = [i \in DbIndexes |-> IF old \in indexes[i] THEN {new} ELSE indexes[i]]
        /\ UNCHANGED copies
    BY <1>14 DEF RenameTable, DbIdle, Exists
  <2>2. ASSUME NEW u \in DbTables
        PROVE  /\ K[u] \subseteq StoredTables /\ OneOrNone(K[u], StoredTables)
               /\ K[u] = {} <=> stored[u] = {}
               /\ stored[u] # {} => \A e \in K[u] : e.rows = owed[u]
    <3>1. CASE stored[u] = {}
      BY <3>1 DEF OneOrNone
    <3>2. CASE stored[u] # {}
      <4>1. PICK d \in StoredTables : stored[u] = {d}
        BY <3>2 DEF DbInv, OneOrNone
      <4>2. d.rows = owed[u]
        BY <4>1 DEF DbInv, RowsInv, Exists
      <4> DEFINE to == {renamed(t) : t \in d.follows}
                 e == [d EXCEPT !.follows = to]
      <4>3. to \subseteq DbTables
        BY DEF StoredTables
      <4>4. K[u] = {e}
        BY <4>1
      <4> HIDE DEF to
      <4>5. e \in StoredTables /\ e.rows = d.rows
        BY <4>3 DEF StoredTables
      <4> HIDE DEF e, K
      <4> QED
        BY <3>2, <4>2, <4>4, <4>5 DEF OneOrNone
    <3> QED
      BY <3>1, <3>2
  <2>3. K \in [DbTables -> SUBSET StoredTables]
    <3>1. \A u \in DbTables : K[u] \in SUBSET StoredTables
      BY <2>2
    <3>2. K = [u \in DbTables |-> K[u]]
      OBVIOUS
    <3> HIDE DEF K
    <3> QED
      BY <3>1, <3>2
  <2> HIDE DEF K
  <2>4. stored' \in [DbTables -> SUBSET StoredTables] /\ owed' \in [DbTables -> 0..MaxTableRows]
    BY <1>0, <2>1, <2>3 DEF DbInv
  <2>5. \A u \in DbTables :
           /\ stored'[u] = IF u = old THEN {} ELSE IF u = new THEN K[old] ELSE K[u]
           /\ owed'[u] = IF u = old THEN 0 ELSE IF u = new THEN owed[old] ELSE owed[u]
    BY <2>1, <2>3 DEF DbInv
  <2>6. \A u \in DbTables : OneOrNone(stored'[u], StoredTables)
    BY <2>2, <2>5 DEF OneOrNone
  <2>7. indexes' \in [DbIndexes -> SUBSET DbTables]
    BY <2>1 DEF DbInv
  <2>8. ASSUME NEW u \in DbTables
        PROVE  IF stored'[u] # {} THEN \A e \in stored'[u] : e.rows = owed'[u]
               ELSE owed'[u] > 0 => \E c \in copies' : c.table = u /\ c.rows = owed'[u]
    <3>1. CASE u = old
      BY <1>0, <2>5, <3>1
    <3>2. CASE u = new
      <4>1. stored'[u] = K[old] /\ owed'[u] = owed[old] /\ K[old] # {}
        BY <2>1, <2>2, <2>5, <3>2
      <4>2. \A e \in K[old] : e.rows = owed[old]
        BY <2>1, <2>2
      <4> QED
        BY <4>1, <4>2
    <3>3. CASE u # old /\ u # new
      <4>1. stored'[u] = K[u] /\ owed'[u] = owed[u]
        BY <2>5, <3>3
      <4>2. CASE stored[u] # {}
        <5>1. K[u] # {} /\ \A e \in K[u] : e.rows = owed[u]
          BY <2>2, <4>2
        <5> QED
          BY <4>1, <5>1
      <4>3. CASE stored[u] = {}
        <5>1. K[u] = {}
          BY <2>2, <4>3
        <5>2. owed[u] > 0 => \E c \in copies : c.table = u /\ c.rows = owed[u]
          BY <2>1, <4>3 DEF DbInv, RowsInv, Exists
        <5> QED
          BY <2>1, <4>1, <5>1, <5>2
      <4> QED
        BY <4>2, <4>3
    <3> QED
      BY <3>1, <3>2, <3>3
  <2>9. ASSUME NEW i \in DbIndexes, NEW u \in indexes'[i] PROVE stored'[u] # {}
    <3>1. \A v \in indexes[i] : v \in DbTables /\ stored[v] # {}
      BY DEF DbInv, RowsInv, Exists
    <3>2. u = new \/ (u \in indexes[i] /\ old \notin indexes[i])
      BY <2>1
    <3>3. CASE u = new
      <4>1. stored'[u] = K[old]
        BY <2>1, <2>5, <3>3
      <4>2. K[old] # {}
        BY <2>1, <2>2
      <4> QED
        BY <4>1, <4>2
    <3>4. CASE u # new /\ u \in indexes[i] /\ old \notin indexes[i]
      <4>1. u \in DbTables /\ stored[u] # {} /\ u # old
        BY <3>1, <3>4
      <4>2. stored'[u] = K[u]
        BY <2>5, <3>4, <4>1
      <4>3. K[u] # {}
        BY <2>2, <4>1
      <4> QED
        BY <4>2, <4>3
    <3> QED
      BY <3>2, <3>3, <3>4
  <2>10. RowsInv'
    BY <2>1, <2>8, <2>9 DEF RowsInv, Exists
  <2> QED
    BY <2>1, <2>4, <2>6, <2>7, <2>10 DEF DbInv, OneOrNone
<1>15. ASSUME NEW i \in DbIndexes, NEW on \in SUBSET DbTables, \A t \in on : Exists(t),
              indexes' = [indexes EXCEPT ![i] = on], UNCHANGED <<stored, copies, altering, owed>>
       PROVE  DbInv'
  <2>1. indexes' \in [DbIndexes -> SUBSET DbTables]
        /\ \A j \in DbIndexes : indexes'[j] = IF j = i THEN on ELSE indexes[j]
    BY <1>15 DEF DbInv
  <2>2. RowsInv'
    BY <1>15, <2>1 DEF DbInv, RowsInv, Exists
  <2> QED
    BY <1>15, <2>1, <2>2 DEF DbInv
<1>16. ASSUME NEW i \in DbIndexes, NEW t \in DbTables, CreateIndex(i, t) PROVE DbInv'
  <2>1. {t} \in SUBSET DbTables /\ \A u \in {t} : Exists(u)
    BY <1>16 DEF CreateIndex
  <2> QED
    BY <1>15, <1>16, <2>1 DEF CreateIndex
<1>17. ASSUME NEW i \in DbIndexes, DropIndex(i) PROVE DbInv'
  <2>1. {} \in SUBSET DbTables /\ \A u \in {} : Exists(u)
    OBVIOUS
  <2> QED
    BY <1>15, <1>17, <2>1 DEF DropIndex
<1>18. ASSUME NEW t \in DbTables, NEW n \in 1..MaxTableRows, Insert(t, n) PROVE DbInv'
  <2>1. PICK d \in stored[t] :
           /\ d.rows + n <= MaxTableRows
           /\ stored' = [stored EXCEPT ![t] = {[d EXCEPT !.rows = @ + n]}]
           /\ owed' = [owed EXCEPT ![t] = @ + n]
    BY <1>18 DEF Insert
  <2> DEFINE row == [d EXCEPT !.rows = @ + n]
             m == d.rows + n
  <2>2. d \in StoredTables /\ d.rows \in 0..MaxTableRows /\ d.rows = owed[t]
    BY <1>3
  <2>3. m \in 0..MaxTableRows
    BY <1>0, <2>1, <2>2
  <2>4. row \in StoredTables /\ row.rows = m
    BY <2>2, <2>3 DEF StoredTables
  <2>5. owed' = [owed EXCEPT ![t] = m] /\ DbIdle /\ UNCHANGED <<indexes, copies, altering>>
    BY <1>18, <2>1, <2>2 DEF Insert
  <2> HIDE DEF row, m
  <2> QED
    BY <2>1, <2>3, <2>4, <2>5, TableChanges DEF row
<1>19. ASSUME NEW t \in DbTables, NEW n \in 1..MaxTableRows,
              NEW lost \in [DbTables -> 0..MaxTableRows], DeleteRows(t, n, lost)
       PROVE  DbInv'
  <2> DEFINE L == Left(lost)
             O == OwedLeft(lost)
  <2>1. PICK d \in stored[t] :
           /\ n <= d.rows
           /\ stored' = [L EXCEPT ![t] = {[d EXCEPT !.rows = @ - n]}]
           /\ owed' = [O EXCEPT ![t] = @ - n]
    BY <1>19 DEF DeleteRows
  <2> DEFINE row == [d EXCEPT !.rows = @ - n]
             m == d.rows - n
  <2> HIDE DEF L, O
  <2>2. /\ L \in [DbTables -> SUBSET StoredTables] /\ O \in [DbTables -> 0..MaxTableRows]
        /\ O[t] = owed[t]
        /\ \A u \in DbTables : /\ OneOrNone(L[u], StoredTables) /\ (L[u] = {} <=> stored[u] = {})
                               /\ \A e \in L[u] : e.rows = O[u]
                               /\ stored[u] = {} => O[u] = owed[u]
    BY <1>19, CascadeLeaves DEF L, O, DeleteRows
  <2>3. d \in StoredTables /\ d.rows \in 0..MaxTableRows /\ d.rows = owed[t]
    BY <1>3
  <2>4. m \in 0..MaxTableRows
    BY <1>0, <2>1, <2>3
  <2>5. row \in StoredTables /\ row.rows = m
    BY <2>3, <2>4 DEF StoredTables
  <2>6. /\ owed' = [O EXCEPT ![t] = m] /\ altering = {} /\ UNCHANGED <<indexes, copies, altering>>
        /\ stored' = [L EXCEPT ![t] = {row}]
    BY <1>19, <2>1, <2>2, <2>3 DEF DeleteRows, DbIdle
  <2> HIDE DEF row, m
  <2>7. stored' \in [DbTables -> SUBSET StoredTables] /\ owed' \in [DbTables -> 0..MaxTableRows]
    BY <2>2, <2>4, <2>5, <2>6
  <2>8. \A u \in DbTables : /\ stored'[u] = IF u = t THEN {row} ELSE L[u]
                            /\ owed'[u] = IF u = t THEN m ELSE O[u]
    BY <2>2, <2>6
  <2>9. \A u \in DbTables : OneOrNone(stored'[u], StoredTables)
    BY <2>2, <2>5, <2>8 DEF OneOrNone
  <2>10. \A u \in DbTables : IF stored'[u] # {} THEN \A e \in stored'[u] : e.rows = owed'[u]
                             ELSE owed'[u] > 0 => \E c \in copies' : c.table = u /\ c.rows = owed'[u]
    <3>1. ASSUME NEW u \in DbTables, u # t, stored[u] = {}
          PROVE  owed'[u] > 0 => \E c \in copies' : c.table = u /\ c.rows = owed'[u]
      <4>1. owed'[u] = owed[u] /\ copies' = copies
        BY <2>2, <2>6, <2>8, <3>1
      <4>2. owed[u] > 0 => \E c \in copies : c.table = u /\ c.rows = owed[u]
        BY <2>6, <3>1 DEF DbInv, RowsInv, Exists
      <4> QED
        BY <4>1, <4>2
    <3> QED
      BY <2>2, <2>5, <2>8, <3>1
  <2>11. ASSUME NEW i \in DbIndexes, NEW u \in indexes'[i] PROVE stored'[u] # {}
    <3>1. u \in DbTables /\ stored[u] # {}
      BY <2>6 DEF DbInv, RowsInv, Exists
    <3>2. CASE u = t
      BY <2>8, <3>1, <3>2
    <3>3. CASE u # t
      BY <2>2, <2>8, <3>1, <3>3
    <3> QED
      BY <3>2, <3>3
  <2>12. RowsInv'
    BY <2>6, <2>10, <2>11 DEF RowsInv, Exists
  <2> QED
    BY <2>6, <2>7, <2>9, <2>12 DEF DbInv
<1>20. CASE UNCHANGED dbVars
  BY <1>20 DEF dbVars, DbInv, RowsInv, Exists
<1> QED
  BY <1>1, <1>2, <1>5, <1>7, <1>8, <1>9, <1>11, <1>12, <1>13, <1>14, <1>16, <1>17, <1>18, <1>19, <1>20 DEF DbNext

\* What the invariant says of the tables to a reader.
LEMMA DbIsTyped == DbInv => DbTypeOK /\ RowsSurvive
<1> SUFFICES ASSUME DbInv PROVE DbTypeOK /\ RowsSurvive
  OBVIOUS
<1>1. ASSUME NEW t \in DbTables PROVE Cardinality(stored[t]) <= 1
  <2>1. Cardinality({}) = 0 /\ \A c : Cardinality({c}) = 1
    BY FS_EmptySet, FS_Singleton
  <2>2. Cardinality(stored[t]) = 0 \/ Cardinality(stored[t]) = 1
    BY <2>1 DEF DbInv, OneOrNone
  <2> QED
    BY <2>2
<1>2. DbTypeOK
  BY <1>1 DEF DbInv, DbTypeOK, Alterations
<1>3. RowsSurvive
  BY DEF DbInv, RowsInv, RowsSurvive
<1> QED
  BY <1>2, <1>3

-----------------------------------------------------------------------------
\* Git: a snapshot that was made is of a commit that holds its tree.

CommitRecords == [tree : Trees, first : 0..MaxCommits, past : SUBSET (1..MaxCommits)]

SnapshotRecords == [commit : 1..MaxCommits, of : Trees, made : BOOLEAN]

\* What comes before a commit was made before it, the first commit too.
HistoryStands(cs) ==
    /\ cs \in Seq(CommitRecords) /\ Len(cs) \in 1..MaxCommits
    /\ \A i \in 1..Len(cs) : /\ cs[i].first \in 0..(i - 1) /\ cs[i].past \subseteq 1..(i - 1)
                             /\ 1 \in cs[i].past \union {i}

SnapshotsStand(cs, taken) ==
    /\ taken \in Seq(SnapshotRecords)
    /\ \A i \in 1..Len(taken) : /\ taken[i].commit <= Len(cs)
                                /\ taken[i].made => cs[taken[i].commit].tree = taken[i].of

BranchesStand(heads, at, n) == heads \in [Branches -> 0..n] /\ at \in Branches /\ heads[at] # 0

GitInv ==
    /\ HistoryStands(commits) /\ SnapshotsStand(commits, snapshots)
    /\ BranchesStand(branches, current, Len(commits))
    /\ index \in Trees /\ work \in Trees /\ unmerged \subseteq GitFiles
    /\ merging \subseteq 1..Len(commits) /\ (unmerged # {} => merging # {})

\* The first state of git has the invariant.
LEMMA GitInitially == GitInit => GitInv
<1> SUFFICES ASSUME GitInit PROVE GitInv
  OBVIOUS
<1> DEFINE root == [tree |-> NoFiles, first |-> 0, past |-> {}]
<1>1. MaxCommits \in Nat \ {0} /\ MaxVersions \in Nat /\ FirstBranch \in Branches
  BY GitAssumption
<1>2. NoFiles \in Trees
  BY <1>1 DEF NoFiles, Trees, ConflictMarks
<1>3. root \in CommitRecords /\ root.first = 0 /\ root.past = {}
  BY <1>1, <1>2 DEF CommitRecords
<1>4. commits = <<root>>
  BY DEF GitInit
<1> HIDE DEF root
<1>5. commits \in Seq(CommitRecords) /\ Len(commits) = 1 /\ commits[1] = root
  BY <1>3, <1>4
<1>6. HistoryStands(commits)
  <2>1. \A i \in 1..1 : i = 1
    OBVIOUS
  <2>2. Len(commits) \in 1..MaxCommits
    BY <1>1, <1>5
  <2>3. 0 \in 0..(1 - 1)
    OBVIOUS
  <2> QED
    BY <1>3, <1>5, <2>1, <2>2, <2>3 DEF HistoryStands
<1>7. SnapshotsStand(commits, snapshots)
  <2> DEFINE none == <<>>
  <2>1. snapshots = none /\ none \in Seq(SnapshotRecords) /\ Len(none) = 0
    BY DEF GitInit
  <2> HIDE DEF none
  <2> QED
    BY <2>1 DEF SnapshotsStand
<1>8. BranchesStand(branches, current, Len(commits))
  BY <1>1, <1>5 DEF BranchesStand, GitInit
<1> QED
  BY <1>2, <1>6, <1>7, <1>8 DEF GitInv, GitInit

\* A commit after all others, whose past holds the first.
LEMMA HistoryGrows ==
  ASSUME NEW cs, HistoryStands(cs), Len(cs) < MaxCommits,
         NEW c \in CommitRecords, c.first \in 0..Len(cs), c.past \subseteq 1..Len(cs), 1 \in c.past
  PROVE  /\ HistoryStands(Append(cs, c)) /\ Len(Append(cs, c)) = Len(cs) + 1
         /\ Append(cs, c)[Len(cs) + 1] = c
         /\ \A i \in 1..Len(cs) : Append(cs, c)[i] = cs[i]
<1> DEFINE n == Len(cs)
           new == Append(cs, c)
<1>1. cs \in Seq(CommitRecords) /\ n \in 1..MaxCommits /\ MaxCommits \in Nat
  BY GitAssumption DEF HistoryStands
<1>2. new \in Seq(CommitRecords) /\ Len(new) = n + 1 /\ new[n + 1] = c /\ \A i \in 1..n : new[i] = cs[i]
  BY <1>1
<1> HIDE DEF new
<1>3. n + 1 \in 1..MaxCommits /\ (n + 1) - 1 = n
  BY <1>1
<1>4. ASSUME NEW i \in 1..(n + 1)
      PROVE  /\ new[i].first \in 0..(i - 1) /\ new[i].past \subseteq 1..(i - 1)
             /\ 1 \in new[i].past \union {i}
  <2>1. CASE i = n + 1
    BY <1>2, <1>3, <2>1
  <2>2. CASE i # n + 1
    <3>1. i \in 1..n
      BY <1>1, <2>2
    <3> QED
      BY <1>2, <3>1 DEF HistoryStands
  <2> QED
    BY <2>1, <2>2
<1>5. HistoryStands(new)
  BY <1>2, <1>3, <1>4 DEF HistoryStands
<1> QED
  BY <1>2, <1>5 DEF new

\* A snapshot stays one of the same tree when there are more commits.
LEMMA SnapshotsStay ==
  ASSUME NEW cs, HistoryStands(cs), NEW taken, SnapshotsStand(cs, taken),
         NEW new, Len(new) = Len(cs) + 1, \A i \in 1..Len(cs) : new[i] = cs[i]
  PROVE  SnapshotsStand(new, taken)
<1>1. Len(cs) \in Nat
  BY DEF HistoryStands
<1>2. ASSUME NEW i \in 1..Len(taken)
      PROVE  taken[i].commit <= Len(new) /\ (taken[i].made => new[taken[i].commit].tree = taken[i].of)
  <2>1. taken[i] \in SnapshotRecords
    BY DEF SnapshotsStand
  <2>2. taken[i].commit \in 1..MaxCommits /\ taken[i].commit <= Len(cs)
    BY <2>1 DEF SnapshotRecords, SnapshotsStand
  <2>3. taken[i].commit \in 1..Len(cs) /\ taken[i].commit <= Len(cs) + 1
    BY <1>1, <2>2, GitAssumption
  <2> QED
    BY <2>3 DEF SnapshotsStand
<1> QED
  BY <1>2 DEF SnapshotsStand

\* A snapshot of a commit that holds its tree, if it was made.
LEMMA SnapshotTaken ==
  ASSUME NEW cs, NEW taken, SnapshotsStand(cs, taken), NEW s \in SnapshotRecords,
         s.commit <= Len(cs), s.made => cs[s.commit].tree = s.of
  PROVE  SnapshotsStand(cs, Append(taken, s))
<1> DEFINE m == Len(taken)
           new == Append(taken, s)
<1>1. taken \in Seq(SnapshotRecords) /\ m \in Nat
  BY DEF SnapshotsStand
<1>2. new \in Seq(SnapshotRecords) /\ Len(new) = m + 1 /\ new[m + 1] = s /\ \A i \in 1..m : new[i] = taken[i]
  BY <1>1
<1> HIDE DEF new
<1>3. \A i \in 1..(m + 1) : i \in 1..m \/ i = m + 1
  BY <1>1
<1>4. \A i \in 1..m : taken[i].commit <= Len(cs) /\ (taken[i].made => cs[taken[i].commit].tree = taken[i].of)
  BY DEF SnapshotsStand
<1> HIDE DEF m
<1>5. SnapshotsStand(cs, new)
  BY <1>2, <1>3, <1>4 DEF SnapshotsStand
<1> QED
  BY <1>5 DEF new

\* The branch that is checked out moves, to a new commit or to any.
LEMMA BranchesMove ==
  ASSUME NEW n \in Nat, BranchesStand(branches, current, n)
  PROVE  /\ BranchesStand([branches EXCEPT ![current] = n + 1], current, n + 1)
         /\ \A c \in 1..n : BranchesStand([branches EXCEPT ![current] = c], current, n)
<1>1. BranchesStand([branches EXCEPT ![current] = n + 1], current, n + 1)
  <2>1. \A k \in 0..n : k \in 0..(n + 1)
    OBVIOUS
  <2>2. n + 1 \in 0..(n + 1) /\ n + 1 # 0
    OBVIOUS
  <2> QED
    BY <2>1, <2>2 DEF BranchesStand
<1>2. ASSUME NEW c \in 1..n PROVE BranchesStand([branches EXCEPT ![current] = c], current, n)
  <2>1. c \in 0..n /\ c # 0
    OBVIOUS
  <2> QED
    BY <2>1 DEF BranchesStand
<1> QED
  BY <1>1, <1>2

\* The commit that is checked out, and any other.
LEMMA HeadStands ==
  ASSUME GitInv
  PROVE  /\ Len(commits) \in 1..MaxCommits /\ MaxCommits \in Nat
         /\ HeadCommit \in 1..Len(commits) /\ HeadTree \in Trees
         /\ \A c \in 1..Len(commits) : /\ commits[c].tree \in Trees /\ commits[c].first \in 0..Len(commits)
                                       /\ Past(c) \subseteq 1..Len(commits) /\ 1 \in Past(c)
<1> DEFINE n == Len(commits)
<1>1. n \in 1..MaxCommits /\ MaxCommits \in Nat /\ commits \in Seq(CommitRecords)
  BY GitAssumption DEF GitInv, HistoryStands
<1>2. HeadCommit \in 1..n
  <2>1. branches[current] \in 0..n /\ branches[current] # 0
    BY DEF GitInv, BranchesStand
  <2> QED
    BY <1>1, <2>1 DEF HeadCommit
<1>3. ASSUME NEW c \in 1..n
      PROVE  /\ commits[c].tree \in Trees /\ commits[c].first \in 0..n
             /\ Past(c) \subseteq 1..n /\ 1 \in Past(c)
  <2>1. commits[c] \in CommitRecords
    BY <1>1
  <2>2. commits[c].tree \in Trees
    BY <2>1 DEF CommitRecords
  <2>3. commits[c].first \in 0..(c - 1) /\ commits[c].past \subseteq 1..(c - 1)
        /\ 1 \in commits[c].past \union {c}
    BY DEF GitInv, HistoryStands
  <2>4. 0..(c - 1) \subseteq 0..n /\ 1..(c - 1) \subseteq 1..n
    BY <1>1
  <2> QED
    BY <2>2, <2>3, <2>4 DEF Past
<1> QED
  BY <1>1, <1>2, <1>3 DEF HeadTree

\* A commit of what is staged.
LEMMA CommitIsMade ==
  ASSUME GitInv, NEW staged \in Trees, Len(commits) < MaxCommits, CommitOf(staged)
  PROVE  /\ HistoryStands(commits') /\ SnapshotsStand(commits', snapshots)
         /\ BranchesStand(branches', current, Len(commits'))
         /\ Len(commits') = Len(commits) + 1 /\ commits'[Len(commits) + 1].tree = staged
         /\ merging' = {}
<1> DEFINE n == Len(commits)
           past == UNION {Past(c) : c \in merging \union {HeadCommit}}
           new == [tree |-> staged, first |-> HeadCommit, past |-> past]
<1>1. commits' = Append(commits, new) /\ branches' = [branches EXCEPT ![current] = n + 1] /\ merging' = {}
  BY DEF CommitOf
<1>2. /\ n \in 1..MaxCommits /\ MaxCommits \in Nat /\ HeadCommit \in 1..n
      /\ \A c \in 1..n : Past(c) \subseteq 1..n /\ 1 \in Past(c)
  BY HeadStands
<1>3. past \subseteq 1..n /\ 1 \in past
  BY <1>2 DEF GitInv
<1> HIDE DEF past
<1>4. 1..n \subseteq 1..MaxCommits /\ HeadCommit \in 0..n /\ HeadCommit \in 0..MaxCommits
  BY <1>2
<1>5. new \in CommitRecords /\ new.first = HeadCommit /\ new.past = past /\ new.tree = staged
  BY <1>3, <1>4 DEF CommitRecords
<1> HIDE DEF new
<1>6. /\ HistoryStands(commits') /\ Len(commits') = n + 1 /\ commits'[n + 1] = new
      /\ \A i \in 1..n : commits'[i] = commits[i]
  <2>1. HistoryStands(commits) /\ new.first \in 0..n /\ new.past \subseteq 1..n /\ 1 \in new.past
    BY <1>3, <1>4, <1>5 DEF GitInv
  <2> QED
    BY <1>1, <1>5, <2>1, HistoryGrows
<1>7. SnapshotsStand(commits', snapshots)
  BY <1>6, SnapshotsStay DEF GitInv
<1>8. BranchesStand(branches', current, n + 1)
  <2>1. n \in Nat /\ BranchesStand(branches, current, n)
    BY <1>2 DEF GitInv
  <2> QED
    BY <1>1, <2>1, BranchesMove
<1> QED
  BY <1>1, <1>5, <1>6, <1>7, <1>8

\* A checkout leaves trees.
LEMMA MoveKeepsTrees ==
  ASSUME GitInv, NEW c \in 1..Len(commits), MoveTo(c)
  PROVE  index' \in Trees /\ work' \in Trees
<1>1. commits[c].tree \in Trees /\ index \in Trees /\ work \in Trees
  BY HeadStands DEF GitInv
<1> QED
  BY <1>1 DEF MoveTo, Trees

\* The trees a merge leaves.
LEMMA MergeKeepsTrees ==
  ASSUME GitInv, NEW source \in 1..Len(commits)
  PROVE  /\ Max(Past(source) \intersect Past(HeadCommit)) \in 1..Len(commits)
         /\ \A base \in 1..Len(commits) : Merged(source, base) \in Trees
<1> DEFINE n == Len(commits)
           S == Past(source) \intersect Past(HeadCommit)
<1>1. n \in Nat /\ S \subseteq 1..n /\ 1 \in S
  BY HeadStands
<1>2. Max(S) \in 1..n
  <2> HIDE DEF S
  <2>1. S \subseteq 0..n /\ S # {}
    BY <1>1
  <2> QED
    BY <1>1, <2>1, LargestOfBounded
<1>3. ASSUME NEW base \in 1..n PROVE Merged(source, base) \in Trees
  <2> DEFINE ours == HeadTree
             theirs == commits[source].tree
  <2>1. ours \in Trees /\ theirs \in Trees
    BY HeadStands
  <2>2. ConflictMarks \in 0..ConflictMarks
    BY GitAssumption DEF ConflictMarks
  <2>3. \A f \in GitFiles : Merged(source, base)[f] \in {ours[f], theirs[f], ConflictMarks}
    <3> HIDE DEF ours, theirs
    <3>1. \A a, b, c : (IF a = c \/ a = b THEN b ELSE IF b = c THEN a ELSE ConflictMarks)
                         \in {b, a, ConflictMarks}
      OBVIOUS
    <3> QED
      BY <3>1 DEF Merged, ours, theirs
  <2>4. \A f \in GitFiles : Merged(source, base)[f] \in 0..ConflictMarks
    <3> HIDE DEF ours, theirs
    <3>1. \A f \in GitFiles : ours[f] \in 0..ConflictMarks /\ theirs[f] \in 0..ConflictMarks
      BY <2>1 DEF Trees
    <3> QED
      BY <2>2, <2>3, <3>1
  <2> QED
    BY <2>4 DEF Merged, Trees
<1> QED
  BY <1>2, <1>3

\* Every step of git keeps the invariant.
LEMMA GitStep == GitInv /\ [GitNext]_gitVars => GitInv'
<1> SUFFICES ASSUME GitInv, [GitNext]_gitVars PROVE GitInv'
  OBVIOUS
<1> DEFINE n == Len(commits)
<1>1. /\ n \in 1..MaxCommits /\ MaxCommits \in Nat /\ n \in Nat /\ HeadCommit \in 1..n /\ HeadTree \in Trees
      /\ \A c \in 1..n : /\ commits[c].tree \in Trees /\ commits[c].first \in 0..n
                         /\ Past(c) \subseteq 1..n /\ 1 \in Past(c)
  BY HeadStands
<1>2. /\ HistoryStands(commits) /\ SnapshotsStand(commits, snapshots)
      /\ BranchesStand(branches, current, n) /\ current \in Branches
      /\ branches \in [Branches -> 0..n]
      /\ index \in Trees /\ work \in Trees /\ unmerged \subseteq GitFiles
      /\ merging \subseteq 1..n /\ (unmerged # {} => merging # {})
  BY DEF GitInv, BranchesStand
<1> HIDE DEF n
<1> DEFINE Same == UNCHANGED <<commits, branches, current, merging, snapshots>>
<1>3. ASSUME Same, index' \in Trees, work' \in Trees, unmerged' \subseteq unmerged PROVE GitInv'
  BY <1>2, <1>3 DEF GitInv, n
\* The branch moves to a commit there is.
<1>4. ASSUME NEW c \in 1..n, branches' = [branches EXCEPT ![current] = c],
             UNCHANGED <<commits, current, snapshots>>, index' \in Trees, work' \in Trees,
             \/ unmerged' = {} /\ merging' = {}
             \/ UNCHANGED <<unmerged, merging>>
      PROVE  GitInv'
  <2>1. BranchesStand(branches', current', Len(commits'))
    <3>1. BranchesStand([branches EXCEPT ![current] = c], current, n)
      BY <1>1, <1>2, BranchesMove
    <3> QED
      BY <1>4, <3>1 DEF n
  <2> QED
    BY <1>2, <1>4, <2>1 DEF GitInv, n
\* A commit was made.
<1>5. ASSUME NEW staged \in Trees, Len(commits) < MaxCommits, CommitOf(staged), unmerged' = {},
             current' = current, index' \in Trees, work' \in Trees,
             SnapshotsStand(commits', snapshots')
      PROVE  GitInv'
  BY <1>2, <1>5, CommitIsMade DEF GitInv
\* Another branch is made, left or switched to.
<1>6. ASSUME BranchesStand(branches', current', n), UNCHANGED <<commits, unmerged, merging, snapshots>>,
             index' \in Trees, work' \in Trees
      PROVE  GitInv'
  BY <1>2, <1>6 DEF GitInv, n
<1>7. ASSUME NEW f \in GitFiles, NEW v \in 0..MaxVersions, Edit(f, v) PROVE GitInv'
  <2>1. v \in 0..ConflictMarks
    BY GitAssumption DEF ConflictMarks
  <2>2. [work EXCEPT ![f] = v] \in Trees
    BY <1>2, <2>1 DEF Trees
  <2> QED
    BY <1>2, <1>3, <1>7, <2>2 DEF Edit
<1>8. ASSUME NEW f \in GitFiles, AddFile(f) PROVE GitInv'
  <2>1. [index EXCEPT ![f] = work[f]] \in Trees
    BY <1>2 DEF Trees
  <2> QED
    BY <1>2, <1>3, <1>8, <2>1 DEF AddFile
<1>9. ASSUME AddAll PROVE GitInv'
  BY <1>2, <1>3, <1>9 DEF AddAll, AllStaged
<1>10. ASSUME CommitStaged PROVE GitInv'
  <2>1. SnapshotsStand(commits', snapshots')
    BY <1>2, <1>10, CommitIsMade DEF CommitStaged
  <2> QED
    BY <1>2, <1>5, <1>10, <2>1 DEF CommitStaged, Committable
<1>11. ASSUME NEW files \in SUBSET GitFiles, NEW refused \in BOOLEAN, CommitChanges(files, refused) PROVE GitInv'
  <2> DEFINE staged == IF files = {} THEN AllStaged
                       ELSE [f \in GitFiles |-> IF f \in files THEN work[f] ELSE index[f]]
             conflicts == IF files = {} THEN {} ELSE unmerged \ files
  <2>1. staged \in Trees
    BY <1>2 DEF AllStaged, Trees
  <2>2. /\ index' = staged /\ unmerged' = conflicts /\ UNCHANGED <<current, work, snapshots>>
        /\ conflicts \subseteq unmerged
    BY <1>11 DEF CommitChanges
  <2>3. CASE Committable(staged, conflicts) /\ ~refused
    <3>1. Len(commits) < MaxCommits /\ CommitOf(staged) /\ conflicts = {}
      BY <1>11, <2>3 DEF CommitChanges, Committable
    <3> HIDE DEF staged, conflicts
    <3>2. SnapshotsStand(commits', snapshots')
      BY <2>1, <2>2, <3>1, CommitIsMade
    <3> QED
      BY <1>2, <1>5, <2>1, <2>2, <3>1, <3>2
  <2>4. CASE ~(Committable(staged, conflicts) /\ ~refused)
    <3>1. UNCHANGED <<commits, branches, merging>>
      BY <1>11, <2>4 DEF CommitChanges
    <3> HIDE DEF staged, conflicts
    <3> QED
      BY <1>2, <1>3, <2>1, <2>2, <3>1
  <2> QED
    BY <2>3, <2>4
<1>12. ASSUME NEW refused \in BOOLEAN, CreateSnapshot(refused) PROVE GitInv'
  <2> DEFINE ok == Committable(AllStaged, {}) /\ ~refused
             made(c) == [commit |-> c, of |-> work, made |-> ok \/ AllStaged = HeadTree]
  <2>1. /\ index' = work /\ unmerged' = {} /\ UNCHANGED <<current, work>> /\ AllStaged = work
    BY <1>12 DEF CreateSnapshot, AllStaged
  <2>2. \A c \in 1..MaxCommits : made(c) \in SnapshotRecords /\ made(c).commit = c /\ made(c).of = work
    BY <1>2 DEF SnapshotRecords
  <2>3. CASE ok
    <3>1. Len(commits) < MaxCommits /\ CommitOf(work) /\ snapshots' = Append(snapshots, made(n + 1))
      BY <1>12, <2>1, <2>3 DEF CreateSnapshot, n
    <3>2. /\ SnapshotsStand(commits', snapshots) /\ Len(commits') = n + 1 /\ commits'[n + 1].tree = work
      BY <1>2, <3>1, CommitIsMade DEF n
    <3>3. n + 1 \in 1..MaxCommits
      BY <1>1, <3>1 DEF n
    <3> HIDE DEF made
    <3>4. SnapshotsStand(commits', snapshots')
      <4>1. made(n + 1) \in SnapshotRecords /\ made(n + 1).commit = n + 1 /\ made(n + 1).of = work
        BY <2>2, <3>3
      <4>2. n + 1 <= Len(commits')
        BY <1>1, <3>2
      <4> QED
        BY <3>1, <3>2, <4>1, <4>2, SnapshotTaken
    <3> QED
      BY <1>2, <1>5, <2>1, <3>1, <3>4
  <2>4. CASE ~ok
    <3>1. snapshots' = Append(snapshots, made(HeadCommit)) /\ UNCHANGED <<commits, branches, merging>>
      BY <1>12, <2>4 DEF CreateSnapshot
    <3>2. HeadCommit \in 1..MaxCommits /\ HeadCommit <= Len(commits)
      BY <1>1 DEF n
    <3>3. made(HeadCommit).made => commits[HeadCommit].tree = work
      BY <2>1, <2>4 DEF HeadTree
    <3> HIDE DEF made
    <3>4. SnapshotsStand(commits, Append(snapshots, made(HeadCommit)))
      BY <1>2, <2>2, <3>2, <3>3, SnapshotTaken
    <3> HIDE DEF ok
    <3> QED
      BY <1>2, <2>1, <3>1, <3>4 DEF GitInv, n
  <2> QED
    BY <2>3, <2>4
<1>13. ASSUME NEW b \in Branches, NEW base \in Branches, CreateBranch(b, base) PROVE GitInv'
  <2>1. branches[base] \in 1..n
    BY <1>1, <1>2, <1>13 DEF CreateBranch
  <2>2. index' \in Trees /\ work' \in Trees
    BY <1>13, <2>1, MoveKeepsTrees DEF CreateBranch, n
  <2>3. BranchesStand(branches', current', n)
    BY <1>1, <1>2, <1>13, <2>1 DEF CreateBranch, BranchesStand
  <2> QED
    BY <1>6, <1>13, <2>2, <2>3 DEF CreateBranch
<1>14. ASSUME NEW b \in Branches, NEW base \in Branches, BranchOnly(b, base) PROVE GitInv'
  <2>1. BranchesStand(branches', current', n)
    BY <1>1, <1>2, <1>14 DEF BranchOnly, BranchesStand
  <2> QED
    BY <1>2, <1>6, <1>14, <2>1 DEF BranchOnly
<1>15. ASSUME NEW b \in Branches, SwitchBranch(b) PROVE GitInv'
  <2>1. branches[b] \in 1..n
    BY <1>1, <1>2, <1>15 DEF SwitchBranch
  <2>2. index' \in Trees /\ work' \in Trees
    BY <1>15, <2>1, MoveKeepsTrees DEF SwitchBranch, n
  <2>3. BranchesStand(branches', current', n)
    BY <1>2, <1>15 DEF SwitchBranch, BranchesStand
  <2> QED
    BY <1>6, <1>15, <2>2, <2>3 DEF SwitchBranch
<1>16. ASSUME NEW b \in Branches, MergeBranch(b) PROVE GitInv'
  <2> DEFINE source == branches[b]
             base == Max(Past(source) \intersect Past(HeadCommit))
             result == Merged(source, base)
             touched == {f \in GitFiles : result[f] # HeadTree[f]}
             torn == {f \in touched : result[f] = ConflictMarks}
             placed(tree) == [f \in GitFiles |-> IF f \in touched THEN result[f] ELSE tree[f]]
             new == [tree |-> result, first |-> HeadCommit, past |-> Past(source) \union Past(HeadCommit)]
  <2>1. source \in 1..n
    BY <1>1, <1>2, <1>16 DEF MergeBranch
  <2>2. result \in Trees
    BY <2>1, MergeKeepsTrees DEF n
  <2>3. /\ merging = {} /\ work' = placed(work)
        /\ index' = [f \in GitFiles |-> IF f \in torn THEN index[f] ELSE placed(index)[f]]
        /\ unmerged' = torn /\ UNCHANGED <<current, snapshots>>
    BY <1>16 DEF MergeBranch
  <2>4. torn = {} => /\ Len(commits) < MaxCommits /\ commits' = Append(commits, new)
                     /\ branches' = [branches EXCEPT ![current] = n + 1] /\ UNCHANGED merging
    BY <1>16 DEF MergeBranch, n
  <2>5. torn # {} => merging' = {source} /\ UNCHANGED <<commits, branches>>
    BY <1>16 DEF MergeBranch
  <2>6. torn \subseteq GitFiles
    OBVIOUS
  <2>7. new.tree = result /\ new.first = HeadCommit /\ new.past = Past(source) \union Past(HeadCommit)
        /\ new \in CommitRecords
    <3>1. Past(source) \union Past(HeadCommit) \subseteq 1..MaxCommits /\ HeadCommit \in 0..MaxCommits
      BY <1>1, <2>1
    <3> HIDE DEF result, source
    <3> QED
      BY <2>2, <3>1 DEF CommitRecords
  <2> HIDE DEF result
  <2>8. \A tree \in Trees : placed(tree) \in Trees
    BY <2>2 DEF Trees
  <2>9. work' \in Trees /\ index' \in Trees
    <3>1. placed(index) \in Trees /\ placed(work) \in Trees
      BY <1>2, <2>8
    <3> HIDE DEF placed, torn
    <3> QED
      BY <1>2, <2>3, <3>1 DEF Trees
  <2> HIDE DEF source, new, torn
  <2>10. CASE torn = {}
    <3>1. HistoryStands(commits') /\ Len(commits') = n + 1 /\ \A i \in 1..n : commits'[i] = commits[i]
      <4>1. /\ new.first \in 0..Len(commits) /\ new.past \subseteq 1..Len(commits) /\ 1 \in new.past
        BY <1>1, <2>1, <2>7 DEF n
      <4>2. commits' = Append(commits, new) /\ Len(commits) < MaxCommits /\ new \in CommitRecords
            /\ HistoryStands(commits)
        BY <1>2, <2>4, <2>7, <2>10
      <4>3. /\ HistoryStands(Append(commits, new)) /\ Len(Append(commits, new)) = Len(commits) + 1
            /\ \A i \in 1..Len(commits) : Append(commits, new)[i] = commits[i]
        BY <4>1, <4>2, HistoryGrows
      <4> QED
        BY <4>2, <4>3 DEF n
    <3>2. SnapshotsStand(commits', snapshots)
      BY <1>2, <3>1, SnapshotsStay DEF n
    <3>3. BranchesStand(branches', current, n + 1)
      BY <1>1, <1>2, <2>4, <2>10, BranchesMove
    <3> QED
      BY <2>3, <2>4, <2>9, <2>10, <3>1, <3>2, <3>3 DEF GitInv
  <2>11. CASE torn # {}
    BY <1>2, <2>1, <2>3, <2>5, <2>6, <2>9, <2>11 DEF GitInv, n
  <2> QED
    BY <2>10, <2>11
<1>17. ASSUME NEW b \in Branches, NEW force \in BOOLEAN, DeleteBranch(b, force) PROVE GitInv'
  <2>1. BranchesStand(branches', current', n)
    BY <1>1, <1>2, <1>17 DEF DeleteBranch, BranchesStand
  <2> QED
    BY <1>2, <1>6, <1>17, <2>1 DEF DeleteBranch
<1>18. ASSUME NEW c \in 1..n, ResetHard(c) PROVE GitInv'
  <2> DEFINE tree == commits[c].tree
  <2>1. tree \in Trees
    BY <1>1
  <2>2. [f \in GitFiles |-> IF tree[f] = 0 /\ index[f] = 0 THEN work[f] ELSE tree[f]] \in Trees
    <3> HIDE DEF tree
    <3> QED
      BY <1>2, <2>1 DEF Trees
  <2> QED
    BY <1>4, <1>18, <2>1, <2>2 DEF ResetHard
<1>19. ASSUME NEW c \in 1..MaxCommits, Rollback(c) PROVE GitInv'
  BY <1>18, <1>19 DEF Rollback, n
<1>20. ASSUME RollbackOne PROVE GitInv'
  <2>1. commits[HeadCommit].first \in 1..n
    BY <1>1, <1>20 DEF RollbackOne
  <2> QED
    BY <1>18, <1>20, <2>1 DEF RollbackOne
<1>21. ASSUME NEW c \in 1..MaxCommits, ResetSoft(c) PROVE GitInv'
  BY <1>2, <1>4, <1>21 DEF ResetSoft, n
<1>22. ASSUME UNCHANGED gitVars PROVE GitInv'
  BY <1>2, <1>3, <1>22 DEF gitVars
<1> QED
  BY <1>7, <1>8, <1>9, <1>10, <1>11, <1>12, <1>13, <1>14, <1>15, <1>16, <1>17, <1>19, <1>20, <1>21, <1>22
  DEF GitNext

\* What the invariant says of git to a reader.
LEMMA GitIsTyped == GitInv => GitTypeOK /\ SnapshotsHold
<1> SUFFICES ASSUME GitInv PROVE GitTypeOK /\ SnapshotsHold
  OBVIOUS
<1> DEFINE n == Len(commits)
           Smaller == [commit : 1..n, of : Trees, made : BOOLEAN]
<1>1. snapshots \in Seq(Smaller)
  <2>1. snapshots \in Seq(SnapshotRecords) /\ Len(snapshots) \in Nat
    BY DEF GitInv, SnapshotsStand
  <2>2. ASSUME NEW i \in 1..Len(snapshots) PROVE snapshots[i] \in Smaller
    <3>1. snapshots[i] \in SnapshotRecords /\ snapshots[i].commit <= n
      BY <2>1 DEF GitInv, SnapshotsStand
    <3>2. n \in Nat
      BY HeadStands
    <3>3. \A r \in SnapshotRecords : r.commit <= n => r \in Smaller
      BY <3>2 DEF SnapshotRecords
    <3> QED
      BY <3>1, <3>3
  <2>3. snapshots = [i \in 1..Len(snapshots) |-> snapshots[i]]
    BY <2>1
  <2> HIDE DEF Smaller
  <2>4. [i \in 1..Len(snapshots) |-> snapshots[i]] \in Seq(Smaller)
    BY <2>1, <2>2, SeqDef
  <2> QED
    BY <2>3, <2>4
<1>2. commits \in Seq(CommitRecords) /\ n \in 1..MaxCommits
  BY DEF GitInv, HistoryStands
<1>3. branches \in [Branches -> 0..n] /\ current \in Branches /\ branches[current] # 0
  BY DEF GitInv, BranchesStand
<1>4. GitTypeOK
  BY <1>1, <1>2, <1>3 DEF GitTypeOK, GitInv, CommitRecords
<1>5. SnapshotsHold
  BY DEF SnapshotsHold, GitInv, SnapshotsStand
<1> QED
  BY <1>4, <1>5

-----------------------------------------------------------------------------
\* The sum of the parts.

ContinuityInv ==
    /\ part \in {"recovery", "known", "checkpoints", "backups", "scheduler", "memory",
                 "migrations", "evolution", "plans", "db", "git"}
    /\ RecoveryInv /\ KnownInv /\ CkptInv /\ BackupInv /\ SchedulerInv
    /\ MemoryInv /\ MigrationInv /\ PlanInv /\ DbInv /\ GitInv

\* The first state of the sum has the invariant.
LEMMA ContinuityInitially == Init => ContinuityInv
<1> SUFFICES ASSUME Init PROVE ContinuityInv
  OBVIOUS
<1>1. RecoveryInv /\ KnownInv /\ CkptInv /\ BackupInv /\ SchedulerInv
  BY RecoveryInitially, KnownInitially, CkptInitially, BackupInitially, SchedulerInitially
  DEF Init
<1>2. MemoryInv /\ MigrationInv /\ PlanInv /\ DbInv /\ GitInv
  BY MemoryInitially, MigrationInitially, PlanInitially, DbInitially, GitInitially DEF Init
<1> QED
  BY <1>1, <1>2 DEF Init, ContinuityInv

\* A step of the sum is, for every part, a step of it or none.
LEMMA PartsMove ==
  ASSUME [Next]_continuityVars
  PROVE  /\ part' = part
         /\ [RecoveryNext]_recoveryVars /\ [KnownNext]_knownVars /\ [CkptNext]_ckptVars
         /\ [BackupNext]_backupVars /\ [SchedulerNext]_schedulerVars /\ [MemoryNext]_memoryVars
         /\ [MigrationNext]_migrationVars /\ [PlanNext]_planVars /\ [DbNext]_dbVars
         /\ [GitNext]_gitVars
<1>1. CASE RecoveryPart
  BY <1>1 DEF RecoveryPart
<1>2. CASE KnownPart
  BY <1>2 DEF KnownPart
<1>3. CASE CkptPart
  BY <1>3 DEF CkptPart
<1>4. CASE BackupPart
  BY <1>4 DEF BackupPart
<1>5. CASE SchedulerPart
  BY <1>5 DEF SchedulerPart
<1>6. CASE MemoryPart
  BY <1>6 DEF MemoryPart
<1>7. CASE MigrationPart
  BY <1>7 DEF MigrationPart, MigrationNext
<1>8. CASE PlanPart
  BY <1>8 DEF PlanPart
<1>9. CASE DbPart
  BY <1>9 DEF DbPart
<1>10. CASE GitPart
  BY <1>10 DEF GitPart
<1>11. CASE UNCHANGED continuityVars
  BY <1>11 DEF continuityVars
<1> QED
  BY <1>1, <1>2, <1>3, <1>4, <1>5, <1>6, <1>7, <1>8, <1>9, <1>10, <1>11 DEF Next

\* Every step of the sum keeps the invariant.
LEMMA ContinuityStep == ContinuityInv /\ [Next]_continuityVars => ContinuityInv'
<1> SUFFICES ASSUME ContinuityInv, [Next]_continuityVars PROVE ContinuityInv'
  OBVIOUS
<1> USE PartsMove DEF ContinuityInv
<1>1. RecoveryInv' /\ KnownInv' /\ CkptInv' /\ BackupInv'
  BY RecoveryStep, KnownStep, CkptStep, BackupStep
<1>2. SchedulerInv' /\ MemoryInv'
  BY SchedulerStep, MemoryStep
<1>3. MigrationInv'
  BY VersionsStep, EvolutionLogStep DEF MigrationInv
<1>4. PlanInv' /\ DbInv' /\ GitInv'
  BY PlanStep, DbStep, GitStep
<1> QED
  BY <1>1, <1>2, <1>3, <1>4

\* Every part keeps its inductive invariant, in every behaviour.
THEOREM PartsKeepInvariants == Spec => []ContinuityInv
  BY ContinuityInitially, ContinuityStep, PTL DEF Spec

\* Every part keeps its types and bounds.
THEOREM ContinuityIsTyped == Spec => []ContinuityTypeOK
<1>1. ContinuityInv => ContinuityTypeOK
  BY RecoveryIsTyped, KnownIsTyped, CkptIsTyped, BackupsAreTyped, SchedulerIsTyped,
     MemoryIsTyped, MigrationsAreTyped, PlansAreTyped, DbIsTyped, GitIsTyped
  DEF ContinuityInv, ContinuityTypeOK
<1> QED
  BY <1>1, PartsKeepInvariants, PTL

\* A restart goes on from the right place: no session is restarted more often than allowed
\* over any number of deaths, an agent resumes from the checkpoint it began last, or raises if that was cut, a
\* manager reads what it was told, and memory and disk hold the same entries, but for those a
\* failure, a decay or a limit set apart.
THEOREM RestartsGoOnRightly == Spec => []RestartsGoOn
<1>1. ContinuityInv => RestartsGoOn
  BY MemoryIsTyped DEF ContinuityInv, RestartsGoOn, RecoveryInv, KnownInv, CkptInv
<1> QED
  BY <1>1, PartsKeepInvariants, PTL

\* What was saved is there: through a restore that leaves no database, until a dump expires,
\* through the changes of a table's columns, unless a cascade takes it, and in the commit of
\* a snapshot.
THEOREM WhatIsSavedStays == Spec => []SavedIsThere
<1>1. ContinuityInv => SavedIsThere
  BY BackupsAreTyped, SchedulerIsTyped, DbIsTyped, GitIsTyped DEF ContinuityInv, SavedIsThere
<1> QED
  BY <1>1, PartsKeepInvariants, PTL

\* The schema is what the books say: records and changes of a version part only where a run
\* parted them, the log of the evolution is not ahead of the schema, and a plan that went
\* through has nothing left that it can change.
THEOREM BooksAreFollowed == Spec => []SchemaFollowsBooks
<1>1. ContinuityInv => SchemaFollowsBooks
  BY MigrationsAreTyped DEF ContinuityInv, SchemaFollowsBooks, PlanInv
<1> QED
  BY <1>1, PartsKeepInvariants, PTL
================================================================================
