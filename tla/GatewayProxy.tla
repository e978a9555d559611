---------------------------- MODULE GatewayProxy ----------------------------
(***************************************************************************)
(* gateway_proxy.py: frontends that speak JSON-RPC are connected to the    *)
(* sessions of the backend.  Per session one WebSocket to the backend, in  *)
(* _tektos_ws, and one task that reads it, in _tektos_readers.  Requests   *)
(* of different frontends, the readers and the backend interleave at every *)
(* await.                                                                  *)
(***************************************************************************)
EXTENDS Integers, Sequences, FiniteSets

CONSTANTS
    ProxySessions,
    MaxLinks,      \* bound: connections to the backend ever made
    MaxConnects,   \* bound: prompts of a session that wait for a connection
    MaxTurns       \* bound: message ids ever given out

ASSUME ProxyAssumption == {MaxLinks, MaxConnects, MaxTurns} \subseteq Nat

VARIABLES
    links,       \* the connections: "open", "closed" normally, or "broken"
    linkOf,      \* _tektos_ws: the connection of a session, 0 for none
    reader,      \* _tektos_readers: what the task does, and the connection it reads
    connects,    \* prompts that wait for websockets.connect
    closing,     \* the await session.close is suspended at
    deleted,     \* sessions the backend has deleted
    messageId,   \* _assistant_msg_ids, 0 for none
    nextMessage, \* the next message id
    turn,        \* history: ids of what was forwarded since the last completion
    ended        \* history: ids that were completed

proxyVars == <<links, linkOf, reader, connects, closing, deleted, messageId, nextMessage, turn, ended>>
talk == <<messageId, nextMessage, turn, ended>>

NoReader == [at |-> "none", link |-> 0]
Reading(link) == [at |-> "reading", link |-> link]
Alive(s) == reader[s].at \in {"reading", "reconnecting", "spinning"}

ProxyInit ==
    /\ links = <<>>
    /\ linkOf = [s \in ProxySessions |-> 0]
    /\ reader = [s \in ProxySessions |-> NoReader]
    /\ connects = [s \in ProxySessions |-> 0]
    /\ closing = [s \in ProxySessions |-> "no"]
    /\ deleted = {}
    /\ messageId = [s \in ProxySessions |-> 0]
    /\ nextMessage = 1
    /\ turn = [s \in ProxySessions |-> {}]
    /\ ended = [s \in ProxySessions |-> {}]

Open(link) == link # 0 /\ links[link] = "open"

\* Start reader if not running: a task that has ended is still registered.
StartReader(s, link) ==
    reader' = IF reader[s].at = "none" THEN [reader EXCEPT ![s] = Reading(link)] ELSE reader

\* handle_prompt_submit over the connection there is.
SubmitOpen(s) ==
    /\ Open(linkOf[s]) /\ reader[s].at = "none"
    /\ StartReader(s, linkOf[s])
    /\ UNCHANGED <<links, linkOf, connects, closing, deleted, talk>>

\* ... and without one: it connects.
SubmitConnects(s) ==
    /\ ~Open(linkOf[s]) /\ connects[s] < MaxConnects
    /\ connects' = [connects EXCEPT ![s] = @ + 1]
    /\ UNCHANGED <<links, linkOf, reader, closing, deleted, talk>>

\* A session the backend has deleted accepts no connection.
Connected(s) ==
    /\ Len(links) < MaxLinks /\ s \notin deleted
    /\ links' = Append(links, "open")
    /\ linkOf' = [linkOf EXCEPT ![s] = Len(links) + 1]

SubmitConnected(s) ==
    /\ connects[s] > 0 /\ connects' = [connects EXCEPT ![s] = @ - 1]
    /\ Connected(s) /\ StartReader(s, Len(links) + 1)
    /\ UNCHANGED <<closing, deleted, talk>>

SubmitFailed(s) ==
    /\ connects[s] > 0 /\ connects' = [connects EXCEPT ![s] = @ - 1]
    /\ UNCHANGED <<links, linkOf, reader, closing, deleted, talk>>

\* The backend, or the network, ends a connection.
LinkEnds(link, how) ==
    /\ links[link] = "open" /\ links' = [links EXCEPT ![link] = how]
    /\ UNCHANGED <<linkOf, reader, connects, closing, deleted, talk>>

(***************************************************************************)
(* _ws_reader_loop                                                         *)
(***************************************************************************)

\* assistant.delta and assistant.reasoning: under the id of the turn.
Fresh(s) == messageId[s] = 0
IdOf(s) == IF Fresh(s) THEN nextMessage ELSE messageId[s]
Allocated(s) ==
    IF Fresh(s) THEN nextMessage <= MaxTurns /\ nextMessage' = nextMessage + 1
    ELSE UNCHANGED nextMessage

Hears(s) == reader[s].at = "reading" /\ Open(reader[s].link)

ReadDelta(s) ==
    /\ Hears(s) /\ Allocated(s)
    /\ messageId' = [messageId EXCEPT ![s] = IdOf(s)]
    /\ turn' = [turn EXCEPT ![s] = @ \union {IdOf(s)}]
    /\ UNCHANGED <<links, linkOf, reader, connects, closing, deleted, ended>>

\* Mutant: the id is read and stays.
RotateNot(s) == messageId

\* The id is popped.
Rotate(s) == [messageId EXCEPT ![s] = 0]

\* assistant.completed; a turn without a delta gets an id of its own.
ReadCompleted(s) ==
    /\ Hears(s) /\ Allocated(s)
    /\ messageId' = Rotate(s)
    /\ ended' = [ended EXCEPT ![s] = @ \union {IdOf(s)}]
    /\ turn' = [turn EXCEPT ![s] = {}]
    /\ UNCHANGED <<links, linkOf, reader, connects, closing, deleted>>

\* A connection that was closed normally ends the iteration without an exception: the loop
\* around it starts over on the same connection, which ends at once, and so on.
ReaderSpins(s) ==
    /\ reader[s].at = "reading" /\ links[reader[s].link] = "closed"
    /\ reader' = [reader EXCEPT ![s].at = "spinning"]
    /\ UNCHANGED <<links, linkOf, connects, closing, deleted, talk>>

\* One that broke raises ConnectionClosed, and the reader connects anew, once.
ReaderLoses(s) ==
    /\ reader[s].at = "reading" /\ links[reader[s].link] = "broken"
    /\ reader' = [reader EXCEPT ![s].at = "reconnecting"]
    /\ UNCHANGED <<links, linkOf, connects, closing, deleted, talk>>

ReaderReconnects(s) ==
    /\ reader[s].at = "reconnecting" /\ Connected(s)
    /\ reader' = [reader EXCEPT ![s] = Reading(Len(links) + 1)]
    /\ UNCHANGED <<connects, closing, deleted, talk>>

ReaderGivesUp(s) ==
    /\ reader[s].at = "reconnecting"
    /\ reader' = [reader EXCEPT ![s].at = "ended"]
    /\ UNCHANGED <<links, linkOf, connects, closing, deleted, talk>>

(***************************************************************************)
(* handle_session_close                                                    *)
(***************************************************************************)

\* ws.close is awaited, of a connection that is open.
CloseBegins(s) ==
    /\ closing[s] = "no" /\ s \notin deleted
    /\ closing' = [closing EXCEPT ![s] = IF Open(linkOf[s]) THEN "socket" ELSE "reader"]
    /\ links' = IF Open(linkOf[s]) THEN [links EXCEPT ![linkOf[s]] = "closed"] ELSE links
    /\ UNCHANGED <<linkOf, reader, connects, deleted, talk>>

\* The entry that is there by now is the one that goes.
CloseForgets(s) ==
    /\ closing[s] = "socket" /\ closing' = [closing EXCEPT ![s] = "reader"]
    /\ linkOf' = [linkOf EXCEPT ![s] = 0]
    /\ UNCHANGED <<links, reader, connects, deleted, talk>>

\* A reader that runs is cancelled and forgotten; one that has ended stays registered.
CloseCancels(s) ==
    /\ closing[s] = "reader" /\ closing' = [closing EXCEPT ![s] = "delete"]
    /\ reader' = IF Alive(s) THEN [reader EXCEPT ![s] = NoReader] ELSE reader
    /\ UNCHANGED <<links, linkOf, connects, deleted, talk>>

CloseDeletes(s, ok) ==
    /\ closing[s] = "delete" /\ closing' = [closing EXCEPT ![s] = "no"]
    /\ deleted' = IF ok THEN deleted \union {s} ELSE deleted
    /\ UNCHANGED <<links, linkOf, reader, connects, talk>>

ProxyNext ==
    \/ \E s \in ProxySessions :
          \/ SubmitOpen(s) \/ SubmitConnects(s) \/ SubmitConnected(s) \/ SubmitFailed(s)
          \/ ReadDelta(s) \/ ReadCompleted(s)
          \/ ReaderSpins(s) \/ ReaderLoses(s) \/ ReaderReconnects(s) \/ ReaderGivesUp(s)
          \/ CloseBegins(s) \/ CloseForgets(s) \/ CloseCancels(s)
          \/ \E ok \in BOOLEAN : CloseDeletes(s, ok)
    \/ \E link \in DOMAIN links, how \in {"closed", "broken"} : LinkEnds(link, how)

ProxySpec == ProxyInit /\ [][ProxyNext]_proxyVars

-----------------------------------------------------------------------------
ProxyTypeOK ==
    /\ Len(links) <= MaxLinks /\ \A k \in DOMAIN links : links[k] \in {"open", "closed", "broken"}
    /\ linkOf \in [ProxySessions -> 0..MaxLinks]
    /\ \A s \in ProxySessions : reader[s].link \in 0..Len(links)
    /\ connects \in [ProxySessions -> 0..MaxConnects]
    /\ closing \in [ProxySessions -> {"no", "socket", "reader", "delete"}]
    /\ deleted \subseteq ProxySessions
    /\ messageId \in [ProxySessions -> 0..MaxTurns] /\ nextMessage \in 1..(MaxTurns + 1)

\* What a frontend is sent between two completions is of one message, one that was not
\* completed before: over lost connections, readers that are replaced and closed sessions.
TurnsAreMessages ==
    /\ \A s \in ProxySessions : Cardinality(turn[s]) <= 1 /\ turn[s] \intersect ended[s] = {}
    /\ \A s, r \in ProxySessions : s # r => (turn[s] \union ended[s]) \intersect (turn[r] \union ended[r]) = {}

\* gateway_proxy.py:296: a connection prompts are sent over has a reader, that forwards
\* what the backend answers.
PromptsAreAnswered ==
    \A s \in ProxySessions : Open(linkOf[s]) => reader[s].at # "ended"
=============================================================================
