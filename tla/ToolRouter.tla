------------------------------ MODULE ToolRouter ------------------------------
(***************************************************************************)
(* runtime/tool_router.py over tools/registry.py: the router picks a tool  *)
(* for a task, calls it through the registry with retries, and judges from *)
(* the text it gets whether the call failed.  MCPClient imports the tools  *)
(* of a server into the same registry.                                     *)
(***************************************************************************)
EXTENDS Integers, Sequences, FiniteSets, SequencesExt, FiniteSetsExt

CONSTANTS
    RoutedTools,  \* the tools of the router that are looked at
    Servers,      \* URLs of MCP servers
    Listing,      \* [Servers -> Seq(RoutedTools)]: what a server lists
    NoServer,     \* _server_url = None
    Local,        \* the owner of a tool that was registered here
    MaxRouted     \* bound: attempts ever

\* _init_default_capabilities.
MaxRetries == [terminal |-> 3, execute_code |-> 2, read_file |-> 3, write_file |-> 3,
               search_files |-> 2, web_search |-> 3, delegate_task |-> 2]

ASSUME RouterAssumption ==
    /\ NoServer \notin Servers /\ Local \notin Servers /\ MaxRouted \in Nat
    /\ Listing \in [Servers -> Seq(RoutedTools)] /\ RoutedTools \subseteq DOMAIN MaxRetries

VARIABLES
    registry,     \* the tools that are registered: owner, enabled, call_count
    server,       \* _server_url
    listed,       \* tools a connection has still to import; NoServer when none is open
    counts,       \* performance: total, successful and failed calls by tool
    embedded,     \* _tool_embedding_cache
    call,         \* the call that is being tried, or NoCall
    effects       \* executions of a handler on behalf of the call that returned

routerVars == <<registry, server, listed, counts, embedded, call, effects>>

\* route_tool: the keywords of a task lead to a tool and what may take its place.
Routes == [shell |-> <<"terminal", "execute_code">>, read |-> <<"read_file", "terminal">>,
           write |-> <<"write_file", "terminal">>, search |-> <<"search_files", "terminal">>,
           web |-> <<"web_search", "web_extract">>, delegate |-> <<"delegate_task", "terminal">>,
           other |-> <<"terminal", "execute_code">>]
Tasks == {t \in DOMAIN Routes : Range(Routes[t]) \intersect RoutedTools # {}}

NoCall == [tool |-> "none"]
Calling == call # NoCall
Registered(owner) == [owner |-> owner, enabled |-> TRUE, calls |-> 0]

RouterInit ==
    /\ registry = << >> /\ server = NoServer /\ listed = NoServer
    /\ counts = [t \in RoutedTools |-> [total |-> 0, good |-> 0, bad |-> 0]]
    /\ embedded = {} /\ call = NoCall /\ effects = 0

\* register: the last one to register a name has it, with a count of its own.
WithTool(tool, owner) ==
    [t \in DOMAIN registry \union {tool} |-> IF t = tool THEN Registered(owner) ELSE registry[t]]
Attempts == FoldSet(LAMBDA t, n : n + counts[t].total, 0, RoutedTools)

RegisterTool(tool) ==
    /\ registry' = WithTool(tool, Local)
    /\ UNCHANGED <<server, listed, counts, embedded, call, effects>>

UnregisterTool(tool) ==
    /\ tool \in DOMAIN registry
    /\ registry' = [t \in DOMAIN registry \ {tool} |-> registry[t]]
    /\ UNCHANGED <<server, listed, counts, embedded, call, effects>>

Toggle(tool) ==
    /\ tool \in DOMAIN registry
    /\ registry' = [registry EXCEPT ![tool].enabled = ~@]
    /\ UNCHANGED <<server, listed, counts, embedded, call, effects>>

(***************************************************************************)
(* MCPClient.                                                              *)
(***************************************************************************)

Connect(url) ==
    /\ listed = NoServer
    /\ server' = url /\ listed' = Listing[url]
    /\ UNCHANGED <<registry, counts, embedded, call, effects>>

\* _import_tool: the handler keeps the URL the client has now.  A built-in of the same
\* name is overwritten.
ImportTool ==
    /\ listed # NoServer /\ listed # <<>>
    /\ registry' = WithTool(Head(listed), server)
    /\ listed' = Tail(listed)
    /\ UNCHANGED <<server, counts, embedded, call, effects>>

\* The end of _connect_http and _connect_sse; what fails in between, the request itself
\* or a malformed entry of the list, forgets the URL and leaves what is imported.
Imported == listed = <<>> /\ listed' = NoServer /\ UNCHANGED server
ConnectFails == listed # NoServer /\ listed' = NoServer /\ server' = NoServer
Disconnect == listed = NoServer /\ server # NoServer /\ server' = NoServer /\ UNCHANGED listed

(***************************************************************************)
(* The router.                                                             *)
(***************************************************************************)

\* success_rate > 0.8, of a tool that was called.
Trusted(tool) ==
    tool \in RoutedTools /\ counts[tool].total > 0 /\ 10 * counts[tool].good > 8 * counts[tool].total

\* get_best_tool_for_task.
Best(task) ==
    LET primary == Routes[task][1]  fallback == Routes[task][2] IN
    IF ~Trusted(primary) /\ Trusted(fallback) THEN fallback ELSE primary

\* semantic_route_tool: the most similar of the tools whose description could be embedded
\* now or before; without one, the keywords decide.
SemanticRoute(task, up) ==
    LET candidates == embedded \union up IN
    IF candidates = {} THEN {Routes[task][1]} ELSE candidates

\* execute_with_recovery; max_retries of 0 means the tool's own.
Dispatch(tool, retries) ==
    /\ ~Calling /\ tool \in RoutedTools
    /\ call' = [tool |-> tool, left |-> IF retries = 0 THEN MaxRetries[tool] ELSE retries]
    /\ effects' = 0
    /\ UNCHANGED <<registry, server, listed, counts>>

CallByKeywords(task) == \E retries \in {0, 1} : Dispatch(Best(task), retries) /\ UNCHANGED embedded
CallBySimilarity(task, up) ==
    /\ \E tool \in SemanticRoute(task, up) : Dispatch(tool, 0)
    /\ embedded' = embedded \union up

\* ToolRegistry.execute: what becomes of one call of the handler.  A handler returns a
\* text, a text that reads "... is disabled" or begins with "error:", or raises; the
\* handler of an imported tool turns all that fails into the text "MCP error: ...".
Texts(tool) ==
    IF tool \notin DOMAIN registry THEN {"unknown"}
    ELSE IF ~registry[tool].enabled THEN {"disabled"}
    ELSE {"text", "looks_failed"} \union (IF registry[tool].owner = Local THEN {"raised"} ELSE {"mcp_error"})

\* _execute_tool: the text decides, whatever happened.
Failed(text) == text \in {"unknown", "disabled", "looks_failed", "raised"}
Returned(text) == text \in {"text", "looks_failed", "mcp_error"}

\* Mutant: the call is counted when it has succeeded or is given up.
CountedAtTheEnd(c, failed, last) ==
    [total |-> c.total + (IF failed /\ ~last THEN 0 ELSE 1),
     good |-> c.good + (IF failed THEN 0 ELSE 1), bad |-> c.bad + (IF failed THEN 1 ELSE 0)]

\* The counts of one attempt.
CountedCall(c, failed, last) ==
    [total |-> c.total + 1,
     good |-> c.good + (IF failed THEN 0 ELSE 1), bad |-> c.bad + (IF failed THEN 1 ELSE 0)]

\* One attempt; the recovery strategies log, and the same tool is tried again.
Attempt(text) ==
    LET tool == call.tool  last == call.left = 1 IN
    /\ Calling /\ Attempts < MaxRouted /\ text \in Texts(tool)
    /\ counts' = [counts EXCEPT ![tool] = CountedCall(@, Failed(text), last)]
    /\ registry' = IF Returned(text) THEN [registry EXCEPT ![tool].calls = @ + 1] ELSE registry
    /\ effects' = effects + (IF Returned(text) THEN 1 ELSE 0)
    /\ call' = IF Failed(text) /\ ~last THEN [call EXCEPT !.left = @ - 1] ELSE NoCall
    /\ UNCHANGED <<server, listed, embedded>>

RouterNext ==
    \/ \E tool \in RoutedTools : RegisterTool(tool) \/ UnregisterTool(tool) \/ Toggle(tool)
    \/ \E url \in Servers : Connect(url)
    \/ ImportTool
    \/ (Imported \/ ConnectFails \/ Disconnect) /\ UNCHANGED <<registry, counts, embedded, call, effects>>
    \/ \E task \in Tasks :
          \/ CallByKeywords(task)
          \/ \E up \in SUBSET RoutedTools : CallBySimilarity(task, up)
    \/ \E text \in {"unknown", "disabled", "text", "looks_failed", "raised", "mcp_error"} : Attempt(text)

RouterSpec == RouterInit /\ [][RouterNext]_routerVars

-----------------------------------------------------------------------------
RouterTypeOK ==
    /\ DOMAIN registry \subseteq RoutedTools
    /\ \A t \in DOMAIN registry : registry[t].owner \in Servers \union {Local} /\ registry[t].calls \in Nat
    /\ server \in Servers \union {NoServer} /\ embedded \subseteq RoutedTools
    /\ Calling => call.tool \in RoutedTools /\ call.left \in 1..MaxRetries[call.tool]

\* The counts a tool is trusted by add up between any two attempts, retries, calls of
\* tools that are gone or disabled, and calls that are given up included.
CountsAddUp == \A t \in RoutedTools : counts[t].total = counts[t].good + counts[t].bad

\* tool_router.py:351: what the registry reports as a failure are the calls that failed;
\* a handler that returned is not run again for the same call.
DoneOnce == effects <= 1
=============================================================================
