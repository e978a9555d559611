--------------------------- MODULE SessionRecovery --------------------------
(***************************************************************************)
(* recovery/auto_recovery.py: AutoRecoveryManager and GatewayManager, over *)
(* the event store.  The recovery of the sessions never leaves the event   *)
(* loop, so nothing runs between its steps; the process may be killed      *)
(* after any committed event, and recovery begins anew after a restart.    *)
(***************************************************************************)
EXTENDS EventStore

CONSTANTS
    RestartLimit,      \* auto_restart_limit, not 0
    NoRecovery         \* no recovery in progress

ASSUME RecoveryAssumption ==
    /\ RestartLimit \in Nat \ {0}
    /\ {"session.created", "session.completed", "session.interrupted", "session.recovered"}
           \subseteq LogTypes
    /\ NoRecovery \notin Seq(LogSessions)

VARIABLES
    known,     \* sessions the session manager has in memory
    late,      \* sessions deleted in this process, which a prompt may still work for
    config,    \* RecoveryConfig
    todo,      \* sessions _recover_sessions has yet to come to, or NoRecovery
    report,    \* session_results, as a function from sessions to what became of them
    stateFile, \* content of state_file: none, state or report
    owing      \* history: sessions whose last event was an interruption when they
               \* were scanned, and which the recovery has not looked after

recoveryVars == <<logVars, known, late, config, todo, report, stateFile, owing>>

Results == {"recovered", "interrupted", "active", "unknown", "", "error"}
Scanned == {r.session : r \in Range(rows)}
Interrupted == {s \in Scanned : Last(Of(s)).type = "session.interrupted"}

RecoveryInit ==
    /\ LogInit
    /\ known = {} /\ late = {}
    /\ config \in [recover_interrupted : BOOLEAN, archive_stale : BOOLEAN, notify_admin : BOOLEAN]
    /\ todo = NoRecovery /\ report = [s \in {} |-> ""]
    /\ stateFile \in {"none", "state"}
    /\ owing = {}

CreateSession(s) ==
    /\ todo = NoRecovery /\ Of(s) = <<>> /\ s \notin known \union late
    /\ AppendEvent(s, "session.created")
    /\ known' = known \union {s}
    /\ UNCHANGED <<late, config, todo, report, stateFile, owing>>

\* Of a session that is in memory, or of a prompt whose session was deleted.
SessionWorks(s, ty) ==
    /\ todo = NoRecovery /\ s \in known \union late
    /\ ty \notin {"session.created", "session.recovered"}
    /\ AppendEvent(s, ty)
    /\ UNCHANGED <<known, late, config, todo, report, stateFile, owing>>

SessionDeleted(s) ==
    /\ todo = NoRecovery /\ s \in known
    /\ DeleteSession(s)
    /\ known' = known \ {s} /\ late' = late \union {s}
    /\ UNCHANGED <<config, todo, report, stateFile, owing>>

SavesState ==
    /\ todo = NoRecovery /\ stateFile # "state"
    /\ stateFile' = "state"
    /\ UNCHANGED <<logVars, known, late, config, todo, report, owing>>

Killed ==
    /\ ProcessEnds
    /\ known' = {} /\ late' = {} /\ todo' = NoRecovery /\ report' = [s \in {} |-> ""] /\ owing' = {}
    /\ UNCHANGED <<config, stateFile>>

Opened ==
    /\ EnsureDb
    /\ UNCHANGED <<known, late, config, todo, report, stateFile, owing>>

\* The state is loaded, for the report only, and the sessions are listed.
Recover ==
    /\ opened /\ todo = NoRecovery
    /\ todo' = SetToSeq(Scanned)
    /\ report' = [s \in {} |-> ""]
    /\ owing' = IF config.recover_interrupted THEN Interrupted ELSE {}
    /\ UNCHANGED <<logVars, known, late, config, stateFile>>

\* Mutant: the restarts are looked for in the first event only.
RestartsOfFirst(s) == {r \in Range(GetEvents(s, 0, 1)) : r.type = "session.recovered"}

\* The limit of get_events, 1000, is larger than the limit of restarts.
Restarts(s) == {r \in Range(Of(s)) : r.type = "session.recovered"}

\* A session was told of before, or not.
Told(s, status) ==
    [t \in DOMAIN report \union {s} |-> IF t = s THEN status ELSE report[t]]

\* archive_session raises for a session the manager does not have, and one it has begins
\* with its creation (RecoveryTypeOK): none of those comes here.
Archive(s) ==
    /\ report' = Told(s, "error")
    /\ UNCHANGED logVars

\* At the limit it is archived instead.
Restart(s) ==
    IF Cardinality(Restarts(s)) >= RestartLimit
      THEN Archive(s)
      ELSE /\ AppendEvent(s, "session.recovered")
           /\ report' = Told(s, "recovered")

Reported(s, status) == report' = Told(s, status) /\ UNCHANGED logVars

\* The "last" event is that of get_events(limit=1): the first one.
RecoverSession ==
    LET s == Head(todo)
        type == GetEvents(s, 0, 1)[1].type
    IN
    /\ todo # NoRecovery /\ todo # <<>>
    /\ CASE type = "session.completed" ->
                IF config.archive_stale THEN Archive(s) ELSE Reported(s, "")
         [] type = "session.interrupted" ->
                IF config.recover_interrupted THEN Restart(s) ELSE Reported(s, "interrupted")
         [] type = "session.created" -> Reported(s, "active")
         [] OTHER ->
                IF config.recover_interrupted THEN Restart(s) ELSE Reported(s, "unknown")
    /\ owing' = IF report'[s] = "active" THEN owing ELSE owing \ {s}
    /\ todo' = Tail(todo)
    /\ UNCHANGED <<known, late, config, stateFile>>

\* The gateways are restored; the report is written over the state file when it has
\* something to say.  A gateway that fails is logged.
RecoveryEnds ==
    LET said == \E s \in DOMAIN report : report[s] \in {"recovered", "active", "error"} IN
    /\ todo = <<>>
    /\ todo' = NoRecovery
    /\ stateFile' = IF config.notify_admin /\ said THEN "report" ELSE stateFile
    /\ UNCHANGED <<logVars, known, late, config, report, owing>>

RecoveryNext ==
    \/ \E s \in LogSessions : CreateSession(s) \/ SessionDeleted(s)
    \/ \E s \in LogSessions, ty \in LogTypes : SessionWorks(s, ty)
    \/ SavesState \/ Killed \/ Opened \/ Recover \/ RecoverSession \/ RecoveryEnds

RecoverySpec == RecoveryInit /\ [][RecoveryNext]_recoveryVars

-----------------------------------------------------------------------------

RecoveryTypeOK ==
    /\ LogTypeOK
    /\ known \union late \subseteq LogSessions /\ owing \subseteq LogSessions
    /\ \A s \in known : Of(s) # <<>> => Of(s)[1].type = "session.created"
    /\ DOMAIN config = {"recover_interrupted", "archive_stale", "notify_admin"}
    /\ todo = NoRecovery \/ todo \in Seq(LogSessions)
    /\ DOMAIN report \subseteq LogSessions /\ Range(report) \subseteq Results
    /\ stateFile \in {"none", "state", "report"}

\* However often the process dies and recovers, in the middle of a recovery too, a
\* session is restarted at most auto_restart_limit times.
RestartsStayLimited ==
    \A s \in LogSessions :
        Len(Only(Of(s), {r \in EventRows : r.type = "session.recovered"})) <= RestartLimit

\* Expected from "recover_interrupted: Restart interrupted sessions": a recovery that
\* is over has restarted, or refused to restart, each interrupted session.
InterruptedAreRestarted == todo = <<>> => owing = {}
=============================================================================
