-------------------------- MODULE SessionLifecycle --------------------------
(***************************************************************************)
(* The life of sessions: runtime/session.py (SessionManager, LiveSession), *)
(* state_machine.py (StateMachine), the rows of store/event_store.py, and  *)
(* the part of runtime/sdk.py that owns a session while a prompt runs      *)
(* (RuntimeSDK.submit_prompt, RuntimeSDK.interrupt).                       *)
(*                                                                         *)
(* Everything runs in one event loop.  No method of SessionManager is ever *)
(* suspended: append_event has no await in it and the manager's lock is    *)
(* never held across one, so each method is one action.  submit_prompt is  *)
(* suspended while it waits for the session's lock, while the model        *)
(* streams, and while the client is told of a failure.                     *)
(*                                                                         *)
(* A session object outlives its removal from the manager: a prompt that   *)
(* was submitted before still writes to it, and appends events under its   *)
(* id.                                                                     *)
(***************************************************************************)
EXTENDS Naturals, Sequences

CONSTANTS
    Sessions,   \* session ids (uuid4, never used twice)
    Sockets,    \* WebSocket connections
    Prompts,    \* tasks that submit prompts
    ReapAge,    \* timeout of reap_failed_sessions, in ticks; bound of age
    NoPrompt,   \* nobody holds the lock
    NoSession   \* the target of an idle prompt

ASSUME LifecycleAssumption ==
    /\ ReapAge \in Nat \ {0}
    /\ NoPrompt \notin Prompts
    /\ NoSession \notin Sessions

VARIABLES
    registered,  \* keys of SessionManager._sessions
    status,      \* LiveSession.status, "none" before the id exists
    conns,       \* LiveSession.ws_connections
    age,         \* time since LiveSession.updated_at, up to ReapAge
    fsm,         \* StateMachine._states
    stored,      \* sessions that have rows in the events table
    lockKeys,    \* keys of RuntimeSDK._session_locks
    holder,      \* the prompt that holds the lock of a session
    waiters,     \* the prompts that wait for it, in order
    phase,       \* the await a prompt is suspended at
    target,      \* the session a prompt was submitted to, while it lives
    escaped,     \* history: sessions whose last prompt ended by an exception out
                 \* of submit_prompt
    busyRemoved  \* history: sessions removed while a prompt of theirs was alive

manager == <<registered, status, conns, age, fsm, stored>>
lock == <<lockKeys, holder, waiters>>
prompt == <<phase, target>>
history == <<escaped, busyRemoved>>
vars == <<registered, status, conns, age, fsm, stored, lockKeys, holder, waiters,
          phase, target, escaped, busyRemoved>>

Statuses == {"none", "created", "ready", "running", "interrupted", "failed", "idle", "archived"}
FsmStates == {"created", "ready", "running", "interrupted", "failed", "idle"}

\* streaming   inside wait_for(_stream_llm)
\* rejecting   _stream_llm tells the client that the prompt is refused (prompt
\*             injection) or that the context overflowed
\* returning   _stream_llm is over, its awaiting task not yet resumed
\* refused     the same, after a refusal
\* reporting   submit_prompt tells the client of a timeout or an exception
Working == {"streaming", "rejecting", "returning", "refused", "reporting"}
Phases == {"idle", "queued"} \union Working

VALID_TRANSITIONS ==
    {<<"created", "ready">>, <<"ready", "running">>, <<"running", "ready">>,
     <<"running", "failed">>, <<"running", "interrupted">>,
     <<"interrupted", "ready">>, <<"ready", "idle">>}

Init ==
    /\ registered = {}
    /\ status = [s \in Sessions |-> "none"]
    /\ conns = [s \in Sessions |-> {}]
    /\ age = [s \in Sessions |-> 0]
    /\ fsm = [s \in Sessions |-> "created"]
    /\ stored = {}
    /\ lockKeys = {}
    /\ holder = [s \in Sessions |-> NoPrompt]
    /\ waiters = [s \in Sessions |-> <<>>]
    /\ phase = [p \in Prompts |-> "idle"]
    /\ target = [p \in Prompts |-> NoSession]
    /\ escaped = {}
    /\ busyRemoved = {}

\* StateMachine.transition under the callers' try: an invalid one changes nothing.
Transition(s, new) ==
    fsm' = IF <<fsm[s], new>> \in VALID_TRANSITIONS THEN [fsm EXCEPT ![s] = new] ELSE fsm

SetStatus(s, new) == status' = [status EXCEPT ![s] = new]
Touch(s) == age' = [age EXCEPT ![s] = 0]
AppendEvent(s) == stored' = stored \union {s}

\* Some prompt waits for, or holds, the lock of s.
Busy(s) == \E p \in Prompts : target[p] = s

-----------------------------------------------------------------------------
(* SessionManager *)

\* The new LiveSession keeps its default status while the state machine goes on
\* to ready.  fork_session and resume_session look their source up, create a
\* session in this way, and leave the source as it is.
CreateSession(s) ==
    /\ status[s] = "none"
    /\ registered' = registered \union {s}
    /\ SetStatus(s, "created")
    /\ Touch(s)
    /\ Transition(s, "ready")
    /\ AppendEvent(s)
    /\ UNCHANGED <<conns, lock, prompt, history>>

\* Mutant: a client does not wake an idle session.
AddWsConnectionKeepsStatus(s, ws) ==
    /\ s \in registered
    /\ conns' = [conns EXCEPT ![s] = @ \union {ws}]
    /\ Touch(s)
    /\ AppendEvent(s)
    /\ UNCHANGED <<registered, status, fsm, lock, prompt, history>>

AddWsConnection(s, ws) ==
    /\ s \in registered
    /\ conns' = [conns EXCEPT ![s] = @ \union {ws}]
    /\ SetStatus(s, "ready")
    /\ Touch(s)
    /\ IF fsm[s] # "ready" THEN Transition(s, "ready") ELSE UNCHANGED fsm
    /\ AppendEvent(s)
    /\ UNCHANGED <<registered, lock, prompt, history>>

RemoveWsConnection(s, ws) ==
    /\ s \in registered
    /\ conns' = [conns EXCEPT ![s] = @ \ {ws}]
    /\ IF conns'[s] = {} /\ status[s] = "ready"
         THEN SetStatus(s, "idle") /\ Transition(s, "idle")
         ELSE UNCHANGED <<status, fsm>>
    /\ UNCHANGED <<registered, age, stored, lock, prompt, history>>

InterruptSession(s) ==
    /\ s \in registered
    /\ status[s] = "running"
    /\ SetStatus(s, "interrupted")
    /\ Touch(s)
    /\ Transition(s, "interrupted")
    /\ AppendEvent(s)
    /\ UNCHANGED <<registered, conns, lock, prompt, history>>

\* outcome is "ready" or "failed".
CompleteSession(s, outcome) ==
    /\ s \in registered
    /\ SetStatus(s, outcome)
    /\ Touch(s)
    /\ Transition(s, outcome)
    /\ AppendEvent(s)
    /\ UNCHANGED <<registered, conns, lock, prompt, history>>

\* Mutant: the state machine takes any string for a state.
ArchiveSessionForced(s) ==
    /\ s \in registered
    /\ SetStatus(s, "archived")
    /\ Touch(s)
    /\ conns' = [conns EXCEPT ![s] = {}]
    /\ fsm' = [fsm EXCEPT ![s] = "archived"]
    /\ AppendEvent(s)
    /\ UNCHANGED <<registered, lock, prompt, history>>

\* "archived" is no State: the state machine is left where it is.
ArchiveSession(s) ==
    /\ s \in registered
    /\ SetStatus(s, "archived")
    /\ Touch(s)
    /\ conns' = [conns EXCEPT ![s] = {}]
    /\ AppendEvent(s)
    /\ UNCHANGED <<registered, fsm, lock, prompt, history>>

\* rename_session, tag_session.
EditSession(s) ==
    /\ s \in registered
    /\ Touch(s)
    /\ AppendEvent(s)
    /\ UNCHANGED <<registered, status, conns, fsm, lock, prompt, history>>

\* Mutant: the lock goes with the session, a prompt in it or not.
RemoveDropsLock(gone) ==
    /\ registered' = registered \ gone
    /\ stored' = stored \ gone
    /\ busyRemoved' = busyRemoved \union {s \in gone : Busy(s)}
    /\ lockKeys' = lockKeys \ gone
    /\ holder' = [s \in Sessions |-> IF s \in gone THEN NoPrompt ELSE holder[s]]
    /\ UNCHANGED <<status, conns, age, fsm, waiters, prompt, escaped>>

\* Mutant: the events stay behind.
RemoveKeepsEvents(gone) ==
    /\ registered' = registered \ gone
    /\ busyRemoved' = busyRemoved \union {s \in gone : Busy(s)}
    /\ UNCHANGED <<status, conns, age, fsm, stored, lock, prompt, escaped>>

\* The sessions leave the manager and the store; objects, state machine and locks stay.
Remove(gone) ==
    /\ registered' = registered \ gone
    /\ stored' = stored \ gone
    /\ busyRemoved' = busyRemoved \union {s \in gone : Busy(s)}
    /\ UNCHANGED <<status, conns, age, fsm, lock, prompt, escaped>>

DeleteSession(s) == s \in registered /\ Remove({s})

Reapable == {s \in registered : status[s] = "failed" /\ age[s] = ReapAge}

ReapFailedSessions == Reapable # {} /\ Remove(Reapable)

Tick ==
    /\ \E s \in registered : age[s] < ReapAge
    /\ age' = [s \in Sessions |-> IF s \in registered /\ age[s] < ReapAge THEN age[s] + 1 ELSE age[s]]
    /\ UNCHANGED <<registered, status, conns, fsm, stored, lock, prompt, history>>

-----------------------------------------------------------------------------
(* RuntimeSDK *)

\* The lock is held: the prompt runs.
Start(p, s) ==
    /\ holder' = [holder EXCEPT ![s] = p]
    /\ phase' = [phase EXCEPT ![p] = "streaming"]
    /\ SetStatus(s, "running")
    /\ Touch(s)
    /\ escaped' = escaped \ {s}

\* asyncio.Lock.acquire: at once when the lock is free and nobody waits for it.
SubmitPrompt(p, s) ==
    /\ phase[p] = "idle"
    /\ s \in registered
    /\ lockKeys' = lockKeys \union {s}
    /\ target' = [target EXCEPT ![p] = s]
    /\ IF holder[s] = NoPrompt /\ waiters[s] = <<>>
         THEN Start(p, s) /\ UNCHANGED waiters
         ELSE /\ waiters' = [waiters EXCEPT ![s] = Append(@, p)]
              /\ phase' = [phase EXCEPT ![p] = "queued"]
              /\ UNCHANGED <<holder, status, age, escaped>>
    /\ UNCHANGED <<registered, conns, fsm, stored, busyRemoved>>

\* Mutant: a release wakes any waiter.
AcquireInAnyOrder(p) ==
    LET s == target[p] IN
    /\ phase[p] = "queued"
    /\ holder[s] = NoPrompt
    /\ waiters' = [waiters EXCEPT ![s] = SelectSeq(@, LAMBDA q : q # p)]
    /\ Start(p, s)
    /\ UNCHANGED <<registered, conns, fsm, stored, lockKeys, target, busyRemoved>>

\* The first waiter is woken after a release.
Acquire(p) ==
    LET s == target[p] IN
    /\ phase[p] = "queued"
    /\ holder[s] = NoPrompt
    /\ Head(waiters[s]) = p
    /\ waiters' = [waiters EXCEPT ![s] = Tail(@)]
    /\ Start(p, s)
    /\ UNCHANGED <<registered, conns, fsm, stored, lockKeys, target, busyRemoved>>

\* _stream_llm appends an event (assistant, tool, permission, warning).
StreamAppends(p) ==
    /\ phase[p] = "streaming"
    /\ AppendEvent(target[p])
    /\ UNCHANGED <<registered, status, conns, age, fsm, lock, prompt, history>>

GoTo(p, next) ==
    /\ phase' = [phase EXCEPT ![p] = next]
    /\ UNCHANGED <<registered, conns, age, fsm, stored, lock, target, history>>

StreamReturns(p) == phase[p] = "streaming" /\ GoTo(p, "returning") /\ UNCHANGED status

StreamRejects(p) == phase[p] = "streaming" /\ GoTo(p, "rejecting") /\ UNCHANGED status

RejectionSent(p) ==
    /\ phase[p] = "rejecting"
    /\ GoTo(p, "refused")
    /\ SetStatus(target[p], "failed")

\* An exception, or the prompt timeout.
StreamRaises(p) ==
    phase[p] \in {"streaming", "rejecting"} /\ GoTo(p, "reporting") /\ UNCHANGED status

\* The way out of submit_prompt: _check_resources may append a warning, the lock
\* is released.
Leave(p) ==
    /\ phase' = [phase EXCEPT ![p] = "idle"]
    /\ target' = [target EXCEPT ![p] = NoSession]
    /\ holder' = [holder EXCEPT ![target[p]] = NoPrompt]
    /\ stored' \in {stored, stored \union {target[p]}}
    /\ UNCHANGED <<registered, conns, age, fsm, lockKeys, waiters, busyRemoved>>

\* Mutant: the status of a finished prompt is left to the stream.
PromptSucceedsSilently(p) ==
    /\ phase[p] \in {"returning", "refused"}
    /\ Leave(p)
    /\ UNCHANGED <<status, escaped>>

PromptSucceeds(p) ==
    /\ phase[p] \in {"returning", "refused"}
    /\ SetStatus(target[p], "ready")
    /\ Leave(p)
    /\ UNCHANGED escaped

PromptFails(p) ==
    /\ phase[p] = "reporting"
    /\ SetStatus(target[p], "failed")
    /\ Leave(p)
    /\ UNCHANGED escaped

\* on_event raises: the status is never set.
ReportRaises(p) ==
    /\ phase[p] = "reporting"
    /\ Leave(p)
    /\ escaped' = escaped \union {target[p]}
    /\ UNCHANGED status

\* RuntimeSDK.interrupt: nothing stops the stream.
SdkInterrupt(s) ==
    /\ s \in registered
    /\ SetStatus(s, "interrupted")
    /\ AppendEvent(s)
    /\ UNCHANGED <<registered, conns, age, fsm, lock, prompt, history>>

\* What a prompt does by itself, once submitted.
Progress(p) ==
    \/ Acquire(p)
    \/ StreamReturns(p)
    \/ StreamRejects(p)
    \/ StreamRaises(p)
    \/ RejectionSent(p)
    \/ PromptSucceeds(p)
    \/ PromptFails(p)
    \/ ReportRaises(p)

ManagerStep(s) ==
    \/ CreateSession(s)
    \/ \E ws \in Sockets : AddWsConnection(s, ws) \/ RemoveWsConnection(s, ws)
    \/ InterruptSession(s)
    \/ \E outcome \in {"ready", "failed"} : CompleteSession(s, outcome)
    \/ ArchiveSession(s)
    \/ EditSession(s)
    \/ DeleteSession(s)
    \/ SdkInterrupt(s)

Next ==
    \/ Tick
    \/ ReapFailedSessions
    \/ \E s \in Sessions : ManagerStep(s) \/ \E p \in Prompts : SubmitPrompt(p, s)
    \/ \E p \in Prompts : StreamAppends(p) \/ Progress(p)

Spec == Init /\ [][Next]_vars

\* A stream ends or meets the prompt timeout (wait_for), a client is told or the
\* sending raises, a free lock wakes its first waiter.
FairSpec == Spec /\ \A p \in Prompts : WF_vars(Progress(p))

-----------------------------------------------------------------------------
(* Properties *)

\* The types of the variables.
TypeOK ==
    /\ registered \subseteq Sessions
    /\ status \in [Sessions -> Statuses]
    /\ conns \in [Sessions -> SUBSET Sockets]
    /\ age \in [Sessions -> 0..ReapAge]
    /\ fsm \in [Sessions -> FsmStates]
    /\ stored \subseteq Sessions
    /\ lockKeys \subseteq Sessions
    /\ holder \in [Sessions -> Prompts \union {NoPrompt}]
    /\ waiters \in [Sessions -> Seq(Prompts)]
    /\ phase \in [Prompts -> Phases]
    /\ target \in [Prompts -> Sessions \union {NoSession}]
    /\ escaped \subseteq Sessions
    /\ busyRemoved \subseteq Sessions

\* "only one active task runs per session at a time", also across the deletion
\* and the reaping of the session.
OnePromptPerSession ==
    \A p, q \in Prompts :
        phase[p] \in Working /\ phase[q] \in Working /\ target[p] = target[q] => p = q

\* A session that is idle or archived has no client left to send events to,
\* whatever order clients come, go and archive in.
QuietHasNoSockets ==
    \A s \in Sessions : status[s] \in {"idle", "archived"} => conns[s] = {}

\* A session that says it is running has a prompt at work.  The one way to leave
\* it running for ever is an exception out of the report of a failure.
RunningHasPrompt ==
    \A s \in Sessions : status[s] = "running" => holder[s] # NoPrompt \/ s \in escaped

\* Events of a removed session come back only if it was removed under a prompt.
OrphansWereBusy ==
    \A s \in stored \ registered : s \in busyRemoved

\* Every prompt submitted gets its turn and ends: no prompt waits for ever behind
\* the others of its session, and none is left holding the lock.
PromptsEnd == \A p \in Prompts : phase[p] # "idle" ~> phase[p] = "idle"

\* "Delete a session and its events."
NoOrphanEvents == \A s \in stored : s \in registered

\* "Reap failed sessions that have been idle for timeout seconds": a session that
\* has just failed is not due yet.
FailureStartsTheClock ==
    [][\A p \in Prompts : PromptFails(p) => target[p] \notin Reapable']_vars

\* "Failed sessions removed, not left in _sessions": a prompt that was refused and
\* reported as session_failed does not end as a success.
RefusalIsNotSuccess ==
    [][\A p \in Prompts : phase[p] = "refused" /\ phase'[p] # "refused"
                              => status'[target[p]] = "failed"]_vars
=============================================================================
