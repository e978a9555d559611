--------------------------------- MODULE Hooks ---------------------------------
(***************************************************************************)
(* runtime/hooks.py, and what the runtime does around a tool call: it      *)
(* fires tool.before in a task nobody waits for, runs the tool, announces  *)
(* the file a tool wrote as an artifact, and fires tool.after the same way.*)
(***************************************************************************)
EXTENDS Integers, Sequences, FiniteSets, Selection

CONSTANTS
    CustomHooks,  \* hooks registered by others, for both events
    FilePaths,    \* the files tools write
    MaxFires,     \* bound: fires ever
    MaxWrites     \* bound: versions of a file

ASSUME HookAssumption == MaxFires \in Nat /\ MaxWrites \in Nat /\ "none" \notin FilePaths

VARIABLES
    handlers,     \* _handlers: by event, in the order of registration
    fires,        \* the fires so far: what is still to run, and the results
    hot,          \* the GPU is above its ceiling
    tool,         \* the tool call under way: NoTool, "asked", "runs" or the path that was written
    seen_artifacts,         \* _seen_artifacts: versions by path
    announced     \* artifact events that were delivered

hookVars == <<handlers, fires, hot, tool, seen_artifacts, announced>>

Events == {"tool.before", "tool.after"}
Priorities == [critical |-> 0, high |-> 10, normal |-> 50, low |-> 90]
NoTool == "none"

Hook(fn, priority) == [fn |-> fn, priority |-> priority]
Snapshot(event) == handlers[event]

\* BuiltinHooks._register_defaults with a resource monitor.
HooksInit ==
    /\ handlers = [e \in Events |-> IF e = "tool.before" THEN <<Hook("audit", 50), Hook("thermal", 50)>>
                                    ELSE <<Hook("audit", 50)>>]
    /\ fires = <<>> /\ hot = FALSE /\ tool = NoTool
    /\ seen_artifacts = [p \in FilePaths |-> 0] /\ announced = <<>>

Register(event, fn, priority) ==
    /\ ~\E i \in 1..Len(handlers[event]) : handlers[event][i].fn = fn
    /\ handlers' = [handlers EXCEPT ![event] = Append(@, Hook(fn, Priorities[priority]))]
    /\ UNCHANGED <<fires, hot, tool, seen_artifacts, announced>>

Unregister(event, fn) ==
    /\ \E i \in 1..Len(handlers[event]) : handlers[event][i].fn = fn
    /\ handlers' = [handlers EXCEPT ![event] = Only(@, {h \in Range(@) : h.fn # fn})]
    /\ UNCHANGED <<fires, hot, tool, seen_artifacts, announced>>

\* Mutant: the handlers run in the order they were registered.
OrderedAsRegistered(hooks) == hooks

\* sorted by priority; of the same priority the one registered first.
Ordered(hooks) ==
    LET before(i, j) == hooks[i].priority < hooks[j].priority \/ (hooks[i].priority = hooks[j].priority /\ i < j)
        rank(i) == Cardinality({j \in 1..Len(hooks) : before(j, i)}) + 1
    IN  [n \in 1..Len(hooks) |-> hooks[CHOOSE i \in 1..Len(hooks) : rank(i) = n]]

\* fire: the handlers of this moment, whatever is registered or unregistered later.
Fired(event, stop) ==
    Append(fires, [stop |-> stop, due |-> Ordered(Snapshot(event)), left |-> Ordered(Snapshot(event)), results |-> <<>>])

\* HookManager.fire, awaited by its caller.
Fire(event) ==
    /\ Len(fires) < MaxFires - (IF tool = NoTool THEN 0 ELSE 1) /\ fires' = Fired(event, TRUE)
    /\ UNCHANGED <<handlers, hot, tool, seen_artifacts, announced>>

\* What a hook can return, or raise; the thermal guard passes when the monitor fails.
Outcomes(fn) == CASE fn = "audit" -> {"continue"}
                  [] fn = "thermal" -> IF hot THEN {"abort", "continue"} ELSE {"continue"}
                  [] OTHER -> {"continue", "reject", "raised"}

\* One hook of a fire.  What is raised counts as an abort, and does not stop the fire.
RunHook(i, outcome) ==
    LET f == fires[i]  ends == f.stop /\ outcome \in {"abort", "reject"} IN
    /\ f.left # <<>> /\ outcome \in Outcomes(Head(f.left).fn)
    /\ fires' = [fires EXCEPT ![i] = [f EXCEPT !.left = IF ends THEN <<>> ELSE Tail(@),
                                               !.results = Append(@, outcome)]]
    /\ UNCHANGED <<handlers, hot, tool, seen_artifacts, announced>>

Heat == hot' = ~hot /\ UNCHANGED <<handlers, fires, tool, seen_artifacts, announced>>

(***************************************************************************)
(* A tool call, after its approval.                                        *)
(***************************************************************************)

\* _fire_hook: a task, and the tool runs without waiting for it.
CallTool ==
    /\ tool = NoTool /\ Len(fires) + 1 < MaxFires
    /\ fires' = Fired("tool.before", FALSE) /\ tool' = "runs"
    /\ UNCHANGED <<handlers, hot, seen_artifacts, announced>>

\* The tool is done; tool.after is fired when it wrote no file.
ToolReturns ==
    /\ tool = "runs" /\ tool' = NoTool
    /\ fires' = Fired("tool.after", FALSE)
    /\ UNCHANGED <<handlers, hot, seen_artifacts, announced>>

\* _emit_artifact_from_tool: the version is counted before the event is sent.
FileWritten(p) ==
    /\ tool = "runs" /\ seen_artifacts[p] < MaxWrites /\ tool' = p
    /\ seen_artifacts' = [seen_artifacts EXCEPT ![p] = @ + 1]
    /\ UNCHANGED <<handlers, fires, hot, announced>>

\* The event is delivered, or raises and is lost; then tool.after.
Announce(delivered) ==
    /\ tool \in FilePaths /\ tool' = NoTool
    /\ announced' = IF delivered THEN Append(announced, <<tool, seen_artifacts[tool]>>) ELSE announced
    /\ fires' = Fired("tool.after", FALSE)
    /\ UNCHANGED <<handlers, hot, seen_artifacts>>

HooksNext ==
    \/ \E event \in Events, fn \in CustomHooks :
          (\E priority \in {"critical", "low"} : Register(event, fn, priority)) \/ Unregister(event, fn)
    \/ \E event \in Events : Fire(event)
    \/ \E i \in 1..Len(fires), outcome \in {"continue", "abort", "reject", "raised"} : RunHook(i, outcome)
    \/ Heat \/ CallTool \/ ToolReturns
    \/ \E p \in FilePaths : FileWritten(p)
    \/ \E delivered \in BOOLEAN : Announce(delivered)

HooksSpec == HooksInit /\ [][HooksNext]_hookVars

-----------------------------------------------------------------------------
HooksTypeOK ==
    /\ Len(fires) <= MaxFires /\ tool \in {NoTool, "runs"} \union FilePaths
    /\ \A i \in 1..Len(fires) : Len(fires[i].results) + Len(fires[i].left) <= Len(fires[i].due)
    /\ \A p \in FilePaths : seen_artifacts[p] \in 0..MaxWrites

\* A fire that is over ran every handler that was registered when it began, in the order
\* of priority, or stopped where a handler said so: handlers that come and go while other
\* handlers run, and handlers that raise, change nothing.
FiresAreComplete ==
    \A i \in 1..Len(fires) :
        LET f == fires[i]  n == Len(f.results) IN
        /\ \A j, k \in 1..Len(f.due) : j < k => f.due[j].priority <= f.due[k].priority
        /\ f.left = <<>> /\ n < Len(f.due) => f.stop /\ f.results[n] \in {"abort", "reject"}

\* The client knows an artifact before it is updated; an event that is lost is not sent
\* again, so this does not hold.
UpdateFollowsCreate ==
    \A i \in 1..Len(announced) : \E j \in 1..i : announced[j] = <<announced[i][1], 1>>

\* hooks.py:135: with stop_on_abort a fire returns at the first abort; one that was raised
\* is in its results like any other.
AbortIsLast ==
    \A i \in 1..Len(fires) : fires[i].stop =>
        \A n \in 1..(Len(fires[i].results) - 1) : fires[i].results[n] \notin {"abort", "reject", "raised"}
=============================================================================
