--------------------------- MODULE GatewayAdapter ---------------------------
(***************************************************************************)
(* gateway_adapter.py: one frontend speaks JSON-RPC over stdin and stdout. *)
(* A request is handled to its end before the next line is read, and the   *)
(* read blocks the event loop: the tasks that read the sessions' WebSockets *)
(* get a turn only while a handler awaits.                                 *)
(***************************************************************************)
EXTENDS Integers, Sequences, FiniteSets

CONSTANTS
    AdapterSessions,
    MaxSockets,    \* bound: connections to the backend ever made
    MaxWritten,    \* bound: events written for one session
    MaxUnread      \* bound: prompts of one session that wait for their completion

ASSUME AdapterAssumption == MaxSockets \in Nat /\ MaxWritten \in Nat /\ MaxUnread \in Nat

VARIABLES
    sockets,     \* connections: their session, whether they are open, and events not yet read
    socketOf,    \* _tektos_ws: the connection of a session, 0 for none
    task,        \* _ws_readers: "none", "created", "reading", and the connection it reads
    handling,    \* the request, and the await its handler is suspended at
    gone,        \* sessions the backend has deleted
    prompted,    \* history: sessions with a prompt that was accepted over their connection when
                 \* no reader was registered, and no completion read since
    unread,      \* history: prompts accepted over the connection of a session, less the
                 \* completions read since
    written      \* per session, how many events reached stdout

adapterVars == <<sockets, socketOf, task, handling, gone, prompted, unread, written>>

NotHandling == [at |-> "readline", of |-> CHOOSE s \in AdapterSessions : TRUE]
At(stage, s) == handling = [at |-> stage, of |-> s]
Goes(stage, s) == handling' = [at |-> stage, of |-> s]
NoTask == [at |-> "none", socket |-> 0]
Awaiting == handling.at # "readline"

AdapterInit ==
    /\ sockets = <<>>
    /\ socketOf = [s \in AdapterSessions |-> 0]
    /\ task = [s \in AdapterSessions |-> NoTask]
    /\ handling = NotHandling
    /\ gone = {} /\ prompted = {}
    /\ unread = [s \in AdapterSessions |-> 0]
    /\ written = [s \in AdapterSessions |-> 0]

Live(k) == k # 0 /\ sockets[k].open

(***************************************************************************)
(* _submit_prompt                                                          *)
(***************************************************************************)

Submit(s) ==
    /\ ~Awaiting /\ unread[s] < MaxUnread
    /\ Goes(IF Live(socketOf[s]) THEN "send" ELSE "connect", s)
    /\ UNCHANGED <<sockets, socketOf, task, gone, prompted, unread, written>>

\* The reader of the former connection may still be there.
SubmitReconnected(s) ==
    /\ At("connect", s) /\ s \notin gone /\ Len(sockets) < MaxSockets /\ Goes("send", s)
    /\ sockets' = Append(sockets, [of |-> s, open |-> TRUE, queue |-> <<>>])
    /\ socketOf' = [socketOf EXCEPT ![s] = Len(sockets) + 1]
    /\ prompted' = prompted \ {s} /\ unread' = [unread EXCEPT ![s] = 0]
    /\ UNCHANGED <<task, gone, written>>

SubmitNotConnected(s) ==
    /\ At("connect", s) /\ handling' = NotHandling
    /\ UNCHANGED <<sockets, socketOf, task, gone, prompted, unread, written>>

\* A reader is started unless one is registered, of whatever prompt and connection.
ReaderStarted(s) == IF task[s].at = "none"
                    THEN [task EXCEPT ![s] = [at |-> "created", socket |-> socketOf[s]]]
                    ELSE task

\* The prompt is sent; on a connection that has closed meanwhile this raises.
SubmitSent(s) ==
    /\ At("send", s) /\ handling' = NotHandling
    /\ IF Live(socketOf[s])
       THEN /\ task' = ReaderStarted(s)
            /\ unread' = [unread EXCEPT ![s] = @ + 1]
            /\ prompted' = IF task[s].at = "none" THEN prompted \union {s} ELSE prompted
       ELSE UNCHANGED <<task, prompted, unread>>
    /\ UNCHANGED <<sockets, socketOf, gone, written>>

(***************************************************************************)
(* The backend, and _ws_reader_loop.  The backend sends a socket whatever  *)
(* happens to the session, its prompts by other clients included.          *)
(***************************************************************************)

BackendSays(k, event) ==
    /\ Live(k) /\ Len(sockets[k].queue) < 2
    /\ sockets' = [sockets EXCEPT ![k].queue = Append(@, event)]
    /\ UNCHANGED <<socketOf, task, handling, gone, prompted, unread, written>>

BackendLeaves(k) ==
    /\ Live(k) /\ sockets' = [sockets EXCEPT ![k].open = FALSE]
    /\ UNCHANGED <<socketOf, task, handling, gone, prompted, unread, written>>

\* The loop runs only under an await of the handler; how soon is left open.
TaskBegins(s) ==
    /\ Awaiting /\ task[s].at = "created" /\ task' = [task EXCEPT ![s].at = "reading"]
    /\ UNCHANGED <<sockets, socketOf, handling, gone, prompted, unread, written>>

\* Mutant: a reader that has ended stays registered, as in the proxy.
UnregisteredNot(s) == [task EXCEPT ![s].socket = 0]

\* finally: it takes itself out.
Unregistered(s) == [task EXCEPT ![s] = NoTask]

Running(s) == Awaiting /\ task[s].at = "reading" /\ task[s].socket # 0

\* The first completion that is read ends the reader, whose prompt it ever answers.
TaskReads(s) ==
    LET k == task[s].socket  event == Head(sockets[k].queue) IN
    /\ Running(s) /\ sockets[k].queue # <<>> /\ written[s] < MaxWritten
    /\ sockets' = [sockets EXCEPT ![k].queue = Tail(@)]
    /\ written' = [written EXCEPT ![s] = @ + 1]
    /\ IF event = "completed"
       THEN /\ task' = Unregistered(s) /\ prompted' = prompted \ {s}
            /\ unread' = IF k = socketOf[s] /\ unread[s] > 0 THEN [unread EXCEPT ![s] = @ - 1]
                         ELSE unread
       ELSE UNCHANGED <<task, prompted, unread>>
    /\ UNCHANGED <<socketOf, handling, gone>>

TaskEnds(s) ==
    /\ Running(s) /\ ~sockets[task[s].socket].open /\ sockets[task[s].socket].queue = <<>>
    /\ task' = Unregistered(s)
    /\ UNCHANGED <<sockets, socketOf, handling, gone, prompted, unread, written>>

(***************************************************************************)
(* _close_session                                                          *)
(***************************************************************************)

CloseSession(s) ==
    /\ ~Awaiting /\ s \notin gone
    /\ Goes(IF socketOf[s] # 0 THEN "close" ELSE "cancel", s)
    /\ UNCHANGED <<sockets, socketOf, task, gone, prompted, unread, written>>

SocketClosed(s) ==
    /\ At("close", s) /\ Goes("cancel", s)
    /\ sockets' = [sockets EXCEPT ![socketOf[s]].open = FALSE]
    /\ socketOf' = [socketOf EXCEPT ![s] = 0]
    /\ UNCHANGED <<task, gone, prompted, unread, written>>

\* The reader is cancelled and awaited.  If it had begun it takes itself out, and to take
\* it out a second time is a KeyError: the request ends there.
ReaderCancelled(s) ==
    /\ At("cancel", s) /\ task' = Unregistered(s)
    /\ IF task[s].at = "reading" THEN handling' = NotHandling ELSE Goes("delete", s)
    /\ UNCHANGED <<sockets, socketOf, gone, prompted, unread, written>>

SessionDeleted(s, ok) ==
    /\ At("delete", s) /\ handling' = NotHandling
    /\ IF ok THEN gone' = gone \union {s}
       ELSE UNCHANGED gone
    /\ UNCHANGED <<sockets, socketOf, task, prompted, unread, written>>

\* Any other request: an HTTP round trip.
OtherRequest ==
    /\ ~Awaiting /\ Goes("other", NotHandling.of)
    /\ UNCHANGED <<sockets, socketOf, task, gone, prompted, unread, written>>
OtherAnswered ==
    /\ handling.at = "other" /\ handling' = NotHandling
    /\ UNCHANGED <<sockets, socketOf, task, gone, prompted, unread, written>>

AdapterNext ==
    \/ \E s \in AdapterSessions :
          \/ Submit(s) \/ SubmitReconnected(s) \/ SubmitNotConnected(s) \/ SubmitSent(s)
          \/ TaskBegins(s) \/ TaskReads(s) \/ TaskEnds(s)
          \/ CloseSession(s) \/ SocketClosed(s) \/ ReaderCancelled(s)
          \/ \E ok \in BOOLEAN : SessionDeleted(s, ok)
    \/ \E k \in DOMAIN sockets :
          BackendLeaves(k) \/ \E event \in {"delta", "completed"} : BackendSays(k, event)
    \/ OtherRequest \/ OtherAnswered

AdapterSpec == AdapterInit /\ [][AdapterNext]_adapterVars

-----------------------------------------------------------------------------
AdapterTypeOK ==
    /\ \A k \in DOMAIN sockets : sockets[k].of \in AdapterSessions /\ Len(sockets[k].queue) <= 2
    /\ socketOf \in [AdapterSessions -> 0..MaxSockets]
    /\ \A s \in AdapterSessions : task[s].at \in {"none", "created", "reading"}
    /\ handling.at \in {"readline", "connect", "send", "close", "cancel", "delete", "other"}
    /\ gone \subseteq AdapterSessions /\ unread \in [AdapterSessions -> 0..MaxUnread]
    /\ written \in [AdapterSessions -> 0..MaxWritten]

\* A connection that is open is the one of its session; a reader that is registered reads
\* the connection of its session, or a former one that is closed; and a prompt that was
\* accepted when none was registered has one on its connection until a completion is read.
AcceptedAreRead ==
    /\ \A k \in DOMAIN sockets : sockets[k].open => socketOf[sockets[k].of] = k
    /\ \A s \in AdapterSessions : task[s].at # "none" =>
           /\ task[s].socket # 0
           /\ task[s].socket = socketOf[s] \/ ~sockets[task[s].socket].open
    /\ \A s \in prompted : Live(socketOf[s]) =>
           task[s].at # "none" /\ task[s].socket = socketOf[s]

\* gateway_adapter.py:229: "send a prompt to Tektos and connect WebSocket for streaming".
\* A prompt that was accepted, and whose completion was not read, has a reader on its
\* connection, as long as that is open.
PromptsAreStreamed ==
    \A s \in AdapterSessions : unread[s] > 0 /\ Live(socketOf[s]) =>
        task[s].at # "none" /\ task[s].socket = socketOf[s]
=============================================================================
