# TEKTOS-Ultima: a TLA+ development

TEKTOS-Ultima is an agent backend: clients open *sessions*, submit *prompts*, and a
runtime streams a language model's answers, runs the tools it asks for and stops it
when it loops. Paths below are relative to `src/src/tektos/` unless they start with
`src/`. The whole backend is one Python process with one asyncio event loop: what
lies between two awaits is atomic, and everything hard about it happens at the
awaits.

## 1. Inventory

| component | state it keeps | operations | interacts with |
|---|---|---|---|
| LLM failover client, `runtime/llm_client.py` | cooldown deadline, flag of the active endpoint, two counters | `get`, `post`, `stream` | used by every prompt's stream and by a probe task, concurrently |
| Session manager, `runtime/session.py`, and `state_machine.py` | sessions, their status, their sockets, a second status in the state machine | create, add/remove socket, interrupt, complete, archive, fork, resume, rename, tag, delete, reap | writes rows to the event store; the SDK writes `status` behind its back |
| Prompt execution, `runtime/sdk.py` `submit_prompt` | one lock per session, status | submit, timeout, failure report, interrupt | holds the session object across its removal from the manager |
| Agent loop, `runtime/sdk.py` `_stream_llm`, and `runtime/loop_safety.py` | per prompt: turn, nudges, tool rounds, last turn's observations; per SDK: the monitor | turns of the loop, `check_turn`, `reset` | monitor shared by all prompts of the SDK; tool calls go through the gate |
| Tool gate, `runtime/sdk.py` `_handle_tool_completion`, and `runtime/approval_registry.py` | completed ids of the prompt, pending questions | screen, ask, run, report; register, approve, reject, wait, discard, clear | the human's clicks, timeouts and the prompt timeout race |
| Event store, `store/event_store.py` | rows `(session, seq, type, payload)` in SQLite, an FTS index | append, read, search, delete | session manager, agent loop |
| Event bus, `event_bus.py` | subscriptions by filter | subscribe, unsubscribe, publish, clear | synchronous callbacks that call the bus again |
| WebSocket manager, `runtime/ws_manager.py` | a set of sockets per session | add, remove, broadcast | sockets come and go during the awaits of a broadcast |
| Gateways, `gateway_proxy.py`, `gateway_adapter.py` | connections, a reader task each, the turn that is forwarded | connect, prompt, read, reconnect, delete | backend, frontends; readers that end late |
| Hooks, `runtime/hooks.py` | handlers by event and priority | register, fire, abort | the SDK fires them around its tools |
| Agents, `runtime/multi_agent_orchestrator.py`, `hierarchical_agent.py` | agents, tasks, dependencies | create, assign, run, reassign | agent loop |
| Skills, `skills/` | a table and a SKILL.md per skill | create, run, improve, merge, prune | reflection, executor |
| Tool router, `runtime/tool_router.py`, `tools/registry.py` | registered tools, counts by tool | import, route, call with retries | MCP servers, tools |
| Loop guard, `runtime/loop_guard.py` | a window of calls, a phase | record, reset | none: nothing calls it |
| Automatic recovery, `recovery/auto_recovery.py` | health and restarts of services; a report and a state file for sessions | check, restart, monitor; recover | overlapping checks; the event store after a crash |
| Self repair, `self_repair/` | history, effectiveness, snapshots, monitors | repair: workflow, then strategy, then degrade | immune system |
| Immune system, `runtime/immune_system.py` | active threats, memory, effectiveness of responses | check, respond, monitor | SDK, self repair |
| Thermal regulation, `thermal/` | PID state, limits | regulate, optimize, apply, reset | sensors, GPU |
| Metabolism, `metabolism.py` | levels of resources and context | update, assess, publish | event bus |
| Self improvement, `self_improvement/engine.py` | meta-learning, benchmarks, experience, in files | handle the end of a session, query | event bus, crashes |
| Self modification, `runtime/self_modification.py` | requests and the files they change | submit, execute, roll back, self-test | agents and people editing the same files |
| Context, `runtime/context_*.py`, `conversation_compressor.py` | the history, its summaries and tiers; the constraints of the session | record, compress, compact; start, update, curate | agent loop |
| Persisted state, `runtime/session_state.py`, `state_manager.py` | one file LAST_KNOWN_STATE.md | update, snapshot | two managers of the one file |
| Long-running agent, `runtime/long_running_agent.py` | progress and checkpoints on disk | start, pause, resume, clean up | crashes |
| Database, `db_manager.py` | tables, backups | tables, columns, rows; backup, restore, clean-up | crashes between statements |
| Backups, `memory/backup_scheduler.py` | dumps and the records of them | run, expire, restore | the disk, the databases |
| Memory, `memory/memory_system.py`, `persistence.py` | four tiers in memory, three of them on disk | add, promote, prune, decay, reload | disk that fails |
| Migrations and schema, `migrations/`, `schema_evolution.py` | recorded versions, the schema, the evolution log; plans | apply, downgrade; propose, roll back; compare, plan, execute | two connections to one database |
| Git operations, `gitops/engine.py`, `git_integration.py` | commits, branches, index, snapshots | stage, commit, switch, merge, snapshot, roll back | people and tools in the work tree |
| The rest | — | retrieval, prompts and planners, providers, telemetry, frontends | text, I/O, HTTP or user interface |

What makes the components correct:

* **Failover client** — a cooldown, the reported endpoint and the counters agree
  although answers come in any order; nobody probes a cooling primary; the client
  returns to a healthy one.
* **Sessions** — a session runs one prompt at a time, every prompt gets its turn, the
  status tells the truth, deletion leaves nothing behind.
* **Agent loop** — every prompt ends, within its turns, and tells the client so exactly
  once; it is stopped only for what it did itself.
* **Tool gate** — nothing runs in manual mode without consent to the question that was
  asked; a call runs once and is reported once.
* **What carries signals and work** — who stays subscribed or connected gets what is sent,
  once and in order; tasks wait for what they depend on; counts add up, catalogues and
  their files agree.
* **Self care** — a fault is attended to within its limit, what is said of it is true, what
  was learnt is not lost on the way, a correction corrects or is undone.
* **What outlives the process** — a restart goes on from the right place, what was saved is
  there until it expires, the schema is what the books say it is.

`PROJECT.json` lists every component, modelled or not, and the hazards the properties are for,
each at its line, with the property that covers it or the reason why none does; the table at the
end of section 4 has what is known to go wrong.

## 2. Plan

Done: the first five components; then the parts that carry signals and work, self care, and
what outlives the process, each in modules of their own. The safety and action properties of
all of them are proved.

Next, most important first:

1. A composition of `SessionLifecycle` and `AgentLoop` through `submit_prompt`, with an
   abstract "a prompt is submitted, is answered or fails" specification that both implement,
   checked and then proved like `FailoverContract`.
2. The window of `rate_limiter.py`, and the chunks of a streamed turn in `AgentLoop`.
3. Abstract specifications for the parts of the sums: a log of numbered events for
   `EventStore`, a map from names to values for the two managers of `KnownState`.

## 3. The modules

**`FailoverContract`** — what the client promises: a request goes to the primary unless
it is known down, a failure makes it known down and moves the request to the fallback.
No clock, counters or streams.

**`LLMFailover`** — `FailoverLLMClient` and `_FailoverStream`. A request is a `"call"` or a
`"stream"`; `phase[r]` is the await it is suspended at. `Issue` is the synchronous part
before the first await (the switch, then the cooldown); `PrimaryOk`, `PrimaryFails`,
`StreamClosed`, `PrimaryRaises` and `FallbackAnswer` are what follows each answer;
`MarkPrimaryDown` and `MarkPrimaryRecovered` have the names of their methods.
`_primary_down_until` is kept as the time left. `caught` and `served` are history
variables. The refinement maps "known down" to "cooling": an open stream is with its
caller and no longer counts.

**`SessionLifecycle`** — `SessionManager`, `StateMachine`, the existence of rows in the
event store, and `submit_prompt`. No method of the manager is ever suspended
(`append_event` has no await in it), so each is one action. A prompt is queued for the
lock, streams, may be refused (`rejecting`, `refused`), and returns or reports its
failure. The session object survives `Remove`: a prompt that is alive still writes its
status and appends events. The two statuses are kept apart (`status`, `fsm`), because the
code keeps them apart.

**`AgentLoop`** — `_stream_llm` and `LoopSafetyMonitor`. One prompt per session, all
sharing `mon`. `NextTurn` is the head of the loop with `check_turn`; `Stream...` are the
ways in which a model's answer ends; `RunTools` covers the tools of the turn. Of the
answer the model keeps the commands called (one value per turn), the length of the text
and whether it claims completion. It assumes that a model that was offered no tools calls
none, and it leaves out retrieval, planning, and whatever only changes the conversation
(stall counter, checkpoint, repeated-command nudge). `Cut` is an exception or the prompt
timeout at any await.

**`ToolGate`** — `_handle_tool_completion` for one session, and `ApprovalRegistry`. `stage` is
the await of the call. The approval callback is defined in no file of the repository; it is
modelled from the use that the registry documents (`register`, then `wait_for_decision`) and
`Ask` says so. Clicks, `discard`, `clear_session`, timeouts and the end of the prompt come at
any await; `discard` forgets open questions too, whose waiters then time out, and each threat of
self-modification asks a question of its own. `consented`, `refused` and `abandoned` are
history: what the human said to the question that was being asked.

### Signals and work (composed by `MCSignals`)

**`EventBus`** — `frames` is the stack of `publish` calls: a callback may publish, subscribe
and unsubscribe. A dictionary is the sequence of its keys, and an iterator raises at its next
step when the size has changed, as Python's do; `owed` is who a publish has still to call.
**`WSFanout`** — set objects have an identity, because `broadcast` goes on iterating the set
that was the session's when it began. `broadcast_all` walks the sessions it listed first.
**`EventStore`** — rows, sequence numbers, the search index and a client that pages. Each
operation is one transaction; the process may end between any two.
**`GatewayProxy`**, **`GatewayAdapter`** — the two ends of a gateway: a connection, the task
that reads it, and what happens to both when one is replaced, lost or closed. Every await is
a step. `prompted` and `unread` remember the prompts of a session whose completion was not read,
and whether a reader was registered when they were sent; the backend may say anything at any time.
**`Hooks`** — handlers by priority, fires in progress, and the artifact events of the SDK.
**`MultiAgent`** — the flat orchestrator (tasks and agents; it keeps the dependencies of a task and
looks at none of them) and the hierarchy (steps with
dependencies, run in batches). `undone` are the steps that were added anew since.
**`Skills`** — registry, manager and executor; a skill is its topics, which stand for the
words by which the code compares skills; an improvement replaces them, adds to them or leaves them
as they are. `torn` are the files a process died before.
**`ToolRouter`** — the registry with its owners (built-in or MCP), routes, retries and counts.
A tool is an outcome; the router judges success from the text, as the code does.
**`LoopGuard`** — `runtime/loop_guard.py`, which nothing in `src/` calls.

### Self care (composed by `MCSelfCare`)

**`AutoRecovery`** — the service half of `auto_recovery.py`. `ServiceHealth` objects have an
identity: registering a service again makes a new one, and a check that holds the old one writes
to it. **`SelfRepair`** — workflow, strategy, strategy again and degradation, on a context each
attempt changes, with the arithmetic of the thermal ones; the tracker and the monitors.
**`ImmuneSystem`** — a check is one step: detectors, the health score their threats weigh on,
responses, the bounded memory. What a text matches is an input. **`Thermal`** — the PID
regulator in twentieths of its units, so that every value is an integer, and the step-wise
optimizer. A cycle comes up to an interval after the one before, since the monitor can be
started twice; a longer pause is not modelled, nor one that makes no whole twentieths. `paced`
says that all came an interval apart. **`Metabolism`** — levels by thresholds and what is
published when they change.
**`SelfImprovement`** — the end of a session as the awaits and writes of its handler, with
crashes between two writes and in the middle of one. **`SelfModification`** — requests, the
content of the target as what others and the engine make of it, self-tests. A rollback plan is none,
the content to restore, or a dictionary without it (`Lacking`).
**`ContextCompaction`** — curator, compressor and compactor on indices of the history; a group of
old events that holds something to preserve raises, as the code does, and nothing is summed up.
**`ContextConstraints`** — `ACEFramework`: constraints, drift, curation, metrics.

### What outlives the process (composed by `MCContinuity`)

**`SessionRecovery`** extends `EventStore` with the session half of `auto_recovery.py`: the
process is killed after any event and recovery begins anew. **`KnownState`** — two managers of
one file; a field is kept for each way a field can fare in it. **`Checkpoints`** — files named
after whole seconds and written in place: a death or an error leaves the newest one cut, and to
resume from it raises. **`Backups`**, **`DbManager`** — `db_manager.py`; a restore removes
before it copies, a column is dropped by copy, drop and rename, and the process may die in
between. Of foreign keys the model has what `ON DELETE CASCADE` does (`follows`, `keyed`): the
rows an action takes along are a choice within `GoesWith`, which says where they can be lost,
not which they are.
**`BackupScheduler`** — dumps, their records, expiry by modification time. **`MemoryTiers`** —
the four tiers and the disk; `split` are the entries a failed write, a decay on one side, or the
limit or the failure of a reload set apart. **`Migrations`** — the engine with its two
connections (a version's record and its changes; `parted` are the versions a run that stopped
half-way, or a function that swallowed its failure, has parted), and the evolution engine, which
shares no table with it: columns and tables it adds, raw SQL that adds and drops what it likes
(`meddled`), the log, the rollback of its last row. Raw SQL is taken to leave the engine's own
tables alone. Proposals of other actions are recorded without SQL or cannot be made of the
arguments, and are left out. **`SchemaPlans`** — the difference of two schemas, the indexes
SQLite makes by itself (`auto`) included, the SQL made of it, and what that does. **`GitOps`** —
two front ends to one repository; git itself is modelled by what its commands do to commits,
index and work tree.

### The sums

The parts of `MCSignals`, `MCSelfCare` and `MCContinuity` share no state in the code (`rows` of
`EventStore` and `SessionRecovery` is the same module). Each of these modules extends its parts
and adds the variable `part`: the first state names the part that moves, the others stay as
they begin. The states of the run are then the sum of the states of the parts, not their
product, and an invariant of the run is a CASE over the part, whose branches are the named
invariants of the modules. An action property speaks of steps that change the state of its
own part, so several can stand side by side. The modules keep, beside the definitions they break,
mutants for the invariants of each part; `PROJECT.json` names one for each property of a run.

The first four modules run by themselves: each configuration names the component's module.

### What they share, and the proofs

**`Selection`** — `Only(seq, set)`, the filter of a list by the set of elements that stay. The
modules use it, and a fold where the code adds up, since both can be reasoned about.
**`FoldFacts`** — what a fold over a list does, for an operator that is a constant of the module.
**`EventStoreProofs`** — facts on lists and filters, and the log. **`CallProofs`**
(`LLMFailover` and `ToolGate`), **`SessionLifecycleProofs`**, **`AgentLoopProofs`**,
**`SignalsProofs`**,
**`ContinuityProofs`**, **`SelfCareProofs`** — the proofs of the components and of the sums.

## 4. The runs

| run | what it shows | distinct states |
|---|---|---|
| `llm_failover` | three requests, cooldown of two ticks: the safety properties, the return to the primary, the refinement of `FailoverContract` | 94,145 |
| `session_lifecycle` | one session, two sockets, three prompts: one prompt at a time, no starvation, truthful status | 29,494 |
| `agent_alone` | one prompt after the other, three text lengths, two commands, up to six turns: exactly one close, no stop without cause | 266,161 |
| `agent_shared` | two prompts that reset each other's monitor: each still bounded, each ended | 182,271 |
| `tool_gate` | two tool ids, used again by later prompts, a question for every threat: consent, refusal, one run, one report | 13,327 |
| `signals` | the ten parts of `MCSignals`: delivery while the receivers change, order of work, true counts and catalogues | about 417,000 |
| `self_care` | the nine parts of `MCSelfCare`: faults attended to, knowledge kept, corrections that hold | about 519,000 |
| `continuity` | the eleven parts of `MCContinuity`, with deaths between their steps: restarts, saved data, schema | about 516,000 |

Bounds, and why they are enough:

* `Requests = {r1, r2, r3}`: one request that is late, one that marks the primary down and
  one that is routed by it; `Cooldown = 2` lets a request come in, and an answer go out, in
  the middle of a cooldown. `CounterCap = 2` is where the counters stop: a second failover
  and a second recovery happen. Both counters saturate at the same value and
  `FailoversAreRecovered` is the weaker for it there; the theorem is about every cap.
* One session is enough for `SessionLifecycle`: sessions share nothing but the reaper.
  Three prompts make a queue of two behind a holder, which order needs; two sockets make
  the last disconnect differ from another. `ReapAge = 2` has an age that is neither new nor
  due. Ids are never used again, so the run may end: deadlock is not checked there.
* `agent_alone`: `RepetitionWindow = 3`, `RepetitionThreshold = 2` as in the code (a confirmed
  repetition, its warning and its withdrawal all happen in six turns), `MaxTurns = 6` instead of
  15, `NudgeLimit = 3` as in the code, `ReadonlyBudget = 3`, so that a spent budget, a
  repetition and the turn limit can meet. Lengths 0, 10 and 60: silent, and two that are not
  similar. `MaxWall = 1`: the time is up, or not. `HardTurns = 100` as in the code: like there,
  it is never reached, since the monitor's limit comes first.
* `agent_shared` is smaller in all of these, for two prompts: `Begin` and the spent budget
  of one happen at every state of the other.
* `tool_gate`: two ids; a prompt uses one while the other has an old question.
* `signals`: two subscribers, a filter and the wildcard, publishes nested twice; three sessions,
  so that `broadcast_all` can go past one that has vanished, with two sockets and three set
  objects; pages of two among four rows of two sessions; three proxy turns over three
  connections; two connections of the adapter, three events and two prompts that wait for their
  completion, so that one is sent while the reader of another, or of a lost connection, is
  there; two agents of which one cannot do one of two jobs; two skills, which is enough for a
  merge, with `Threshold = 60` between the similarities of the two sets of topics; two tools
  that stand in for each other; seven calls in a window of four.
* `self_care`: two services and a caller beside the monitor; one restart allowed, so that the
  limit is met; temperatures on every side of the thresholds of regulator, workflow and
  detectors and one reading that is missing; three cycles of the regulator or the optimizer,
  after which the integral of a cold time has met its limit, no seconds, one or an interval
  apart; two sessions whose handlers interleave and one torn write; two requests on one file;
  histories of three messages with a budget of two.
* `continuity`: four rows of a session; two edits by each manager; checkpoints of three seconds
  (`MaxClock = 2`), each written, cut or not begun; `retention_days = 0`, so that a dump expires
  within the one day the clock can advance; tiers of one and two entries with four in all and
  one restart; three versions of migrations; one column and one table that come and go, with six
  rows in the log; two tables and two columns of at most one row for the database manager, so
  that a row can go with another; two tables, one of them new, for the plans; three commits on
  two branches.

These three runs say `CHECK_DEADLOCK FALSE`: a bounded part comes to its bound and stops, and a
deleted gateway session stays deleted. Every disjunct of every part fires within the bounds.

Fairness. `WF(Progress(r))` and `WF(Progress(p))` say that an await of a request or prompt
ends. The code justifies them: httpx gets connect and read timeouts
(`runtime/llm_client.py:81`), the caller leaves a stream it opened (`async with`), a prompt
runs under `wait_for` (`runtime/sdk.py:736`), and asyncio's lock wakes its first waiter.
`WF(Tick)` in `LLMFailover` is the passage of time. Nobody is obliged to issue a request,
submit a prompt or click. `ToolGate` and the three sums state no fairness and no liveness.

### Where code and documentation disagree

Four runs end in a counterexample, each for a sentence of the repository:

* `agent_bystander` — "Each LiveSession owns exactly one RuntimeSDK instance"
  (`runtime/sdk.py:480`). One SDK serves many sessions, and one session's prompt is stopped by
  the verdict on another's: the trace has a prompt at its first turn, within its time, stopped
  because another has used up the turns. With one prompt at a time `StoppedForItself` holds.
* `migration_batch` — "identified by an integer version and applied atomically"
  (`migrations/engine.py:48`). The migration to version 3 swallows its exception
  (`migrations/initial.py:197`), and is recorded as applied.
* `recovery_interrupted` — "Restart interrupted sessions" (`recovery/auto_recovery.py:589`). The
  "last" event is the first one, `get_events(limit=1)` in ascending order; an interrupted
  session that begins with its creation reads as active.
* `adapter_second_prompt` — "send a prompt to Tektos and connect WebSocket for streaming"
  (`gateway_adapter.py:229`). A reader is started only when none is registered (`:261`), and it
  leaves at the first completion it reads (`:327`): a second prompt that was sent meanwhile is
  read by nobody.

Further sentences that the code contradicts are kept as definitions beside the properties that
hold. TLC finds each violated, most of them in one step or two; no run repeats them:

| definition | what it takes from the repository | what the code does |
|---|---|---|
| `LLMFailover!FallbackReportIsTrue` | "URL of whichever endpoint served the most recent successful request" (`runtime/llm_client.py:106`) | names the fallback from the moment the primary fails |
| `SessionLifecycle!NoOrphanEvents` | "Delete a session and its events." (`runtime/session.py:422`) | a running prompt goes on writing; only such prompts do (`OrphansWereBusy`) |
| `SessionLifecycle!FailureStartsTheClock` | "failed sessions that have been idle for timeout seconds" (`runtime/session.py:442`) | the clock was set when the prompt began |
| `SessionLifecycle!RefusalIsNotSuccess` | "Failed sessions removed" (`runtime/session.py:8`) | a refused prompt ends as ready |
| `AgentLoop!DifferentCommandsAreNoLoop` | "a sequence of *different* bash commands is not flagged" (`runtime/loop_safety.py:144`) | silent tool turns are, whatever they call |
| `Thermal!HistoryIsKept` | the last 100 entries are kept (`thermal/monitor.py:134`) | the status is made anew each cycle |
| `Thermal!LostReadingKeepsLimits` | a reading of 0 means none | it relaxes a hot GPU |
| `Hooks!AbortIsLast` | `stop_on_abort` (`runtime/hooks.py:135`) | a handler that raised does not stop the fire |
| `Hooks!UpdateFollowsCreate` | create, then update | an event that was lost is not sent again |
| `MultiAgent!CreatedWait` | "List of task IDs that must complete first." (`runtime/multi_agent_orchestrator.py:155`) | the list is stored, and never looked at |
| `Thermal!HotIsAlwaysThrottled` | "Over target — need more cooling" (`thermal/regulator.py:153`) | two loops can outweigh three degrees; `HotIsThrottled` says what is left |
| `SelfModification!RolledBackIsUndone` | "Rollback a modification." (`runtime/self_modification.py:287`) | a plan without the original content ends as rolled back, and the broken file stays |
| `SelfImprovement!RecentIsLoaded` | "recent experience" (`self_improvement/engine.py:402`) | the oldest are loaded |
| `SelfRepair!CompletedIsVerified` | a completed repair was verified (`self_repair/engine.py:269`) | the result vouches for itself; the strategy's `verify` is not called |
| `Metabolism!ContextLevelIsKnown` | the level is published when it changes | tokens recorded outside an update change it unnoticed |
| `ContextCompaction!WhatMattersIsCompressed` | "summarizes older conversation messages while preserving" (`runtime/conversation_compressor.py:3`) | a group of old events that holds something to preserve raises an AttributeError (`:154`) |
| `ContextCompaction!PreservedSurvives`, `TrimmedFromTheBeginning`, `CloseStays` | what must be preserved is (`runtime/conversation_compressor.py:199`, `:323`), close messages stay | a later group of a role replaces the earlier one, with what it held (histories of four); the last events are trimmed; a message that could not be embedded shifts the indices of all after it |
| `ContextConstraints!CriticalIsShown` | critical constraints are always shown (`runtime/context_engineering.py:240`) | one the curator knows from before, and the session no longer names, is left out |
| `ToolRouter!DoneOnce` | failures are what failed (`runtime/tool_router.py:351`) | a tool that worked and whose text begins with "Error:" is run again |
| `GatewayProxy!PromptsAreAnswered` | a connection has its reader (`gateway_proxy.py:296`) | a reader of the connection before keeps its place in the table, and none is started |
| `Skills!StatsAreSummed` | usage stats are summed (`skills/registry.py:520`) | the update does not write them |
| `MemoryTiers!PrunesTheOldest` | "Remove oldest entries" (`memory/memory_system.py:402`) | the front of the list goes, and a reload puts the newest there |
| `KnownState!UpdatesKeepFields` | "Incrementally update state fields" (`runtime/session_state.py:314`) | fields that are not read back are written empty |
| `Checkpoints!InterruptionsAreRecovered` | "automatic recovery from interruptions" (`runtime/long_running_agent.py:4`) | an interruption while a checkpoint is written leaves a file that resume raises on, whole ones behind it |
| `BackupScheduler!RestoredIsSuccess` | "a non-zero return code here is expected when redis exits cleanly" (`memory/backup_scheduler.py:577`) | it is recorded as an error (`:602`) |
| `DbManager!OthersKeepRows` | "Drop a column from a table." (`db_manager.py:295`) | the drop of the original takes the rows that cascade from it (`:322`, foreign keys on at `:165`) |
| `DbManager!DropsAreAtomic` | "This is done atomically with a backup." (`db_manager.py:298`) | each statement commits by itself; a death or an error leaves the copy |
| `Migrations!AppliedIsRecorded` | "applied atomically" (`migrations/engine.py:48`) | a function commits on its own connection, the records of the batch at its end |
| `Migrations!ChangesAreLogged` | "Apply changes atomically with rollback" (`migrations/schema_evolution.py:169`) | the statement commits before its row is written |
| `SchemaPlans!PlansStayPossible` | "Compare schemas and generate migration SQL." (`schema_evolution.py:351`) | every plan that keeps a table with an index of SQLite's own drops that index, and fails |
| `SchemaPlans!PlansArrive` | "all migration statements" (`schema_evolution.py:592`) | changes of type make none |

## 5. What is proved

Every safety property and every action property that the passing runs check is proved for every
value of the constants, from the named assumptions on the constants alone. Only liveness is
left to TLC.

The assumptions say that bounds are numbers (positive where a list or a page needs it), that
sets a sum or a count is taken over are finite, and that values such as `NoTool` are outside the
sets they complement. Those that say more say what the code guarantees:
`MemoryAssumption` — a reload takes no more from a tier than the tier holds
(`memory/memory_system.py:242`); `MetabolismAssumption` — a count of tokens is
within the bound at which the model stops counting; `RepairAssumption` — a temperature that is
missing is not a number; `RouterAssumption` — every tool that is routed has its number of retries.

`CallProofs`, from `FailoverAssumption`:

* `TypeCorrect`: `Spec => []TypeOK`.
* `Safety`: `Spec => []SafetyInv`, the conjunction of `CoolingIsReported`,
  `NoProbeDuringCooldown`, `PrimaryReportIsTrue`, `FailoversAreRecovered` and
  `DisabledIsPlain`, with a theorem for each part. The conjunction is inductive where its
  parts are not. A disabled client has no running cooldown only because nobody waits for an
  answer that could start one, and `DisabledIsPlain` says both; the counters agree because the
  reported endpoint changes exactly where they do; the history variable `caught` makes the
  routing inductive: it names who was at the primary when the cooldown began, and only
  leaving takes one out.
* `ImplementsContract`: `Spec => KeepsContract`. Each action maps to an action of
  `FailoverContract` or to a stutter; the lemmas are one per kind of step.

`CallProofs`, from `GateAssumption`. The properties say nothing of a call that is under
way; `GateInv` does, stage by stage: an id is completed once its outcome is settled and not
before; every completed id was delivered but for the one being reported; a wait that ended in
approval left its consent behind; a refused call is completed or still waiting to hear of its
refusal; an open question has a waiter, or lost it to a cancellation. From it:
`ManualRunsAreApproved`, `RefusalIsFinal`, `RunsOnce`, `DeliveredOnce` and the action property
`LateClickIsNoOp`.

`SessionLifecycleProofs`, from `LifecycleAssumption`. `PromptInv` is the link of a living prompt
with its session: its target exists, a queued prompt is among the waiters of the lock (without
which a woken prompt might take the head of an empty queue, so that even `TypeOK` needs it), a
prompt at work holds the lock, and its session is registered or was removed under it. From it:
`OnePromptPerSession`, `QuietHasNoSockets`, `RunningHasPrompt`, `OrphansWereBusy`.

`AgentLoopProofs`, from `LoopAssumption`, for any number of prompts that share the monitor.
`TurnsBounded` rests on the lemma that a monitor that lets a turn pass has not reached a limit,
whatever was reset before. `ClosedSoFar` strengthens `ClosedOnce` with what the client was told
at every await.

The two action properties are about a prompt that has the monitor to itself: with two prompts
they fail, as `agent_bystander` shows. `AloneStoppedForItself` and `AloneForcedAnswerRuns` take
that as hypothesis (`Alone`, any set of at most one prompt), and the second one also that a
single repetition is no verdict and that the monitor's turn limit comes before the loop's, as
they do in the code (2, and 15 before 100). `NoVerdict` and `CleanBudget` are what is inductive:
nobody on the way to the head of the loop is under a verdict, and between the round that spends
the tool budget and the next look of the monitor there is no repetition.

`FoldFacts`. The prover cannot instantiate a theorem that takes an operator, so the induction
over the naturals is stated of a set (`SetInduction`, from the well-foundedness of < on Nat),
and the folds are those of a constant `Op`: a module takes the facts by `INSTANCE FoldFacts WITH
Op <- ...`. `FoldByPrefixes` gives the function of the values over the prefixes, from which
follow one step more, an invariant of the steps, and what a fold that selects returns: its
elements in their order, no longer than the list, and two selections as one.

`EventStoreProofs`, from `LogAssumption`. `PagesAreComplete`: the events of a session bear the
numbers from 1 to their count (`LogInv`, per session: the filter of the rows is numbered, which a
deletion takes whole or not at all), so a page that begins after the last number seen goes on
where the one before ended, and a client that is told there is no more has seen all.

`SignalsProofs`, `ContinuityProofs`, `SelfCareProofs`. A sum has an inductive invariant per part
(`BusInv`, `FanInv`, `LogInv`, `ProxyInv`, `AdapterInv`, `HooksInv`, `AgentsInv`, `SkillInv`,
`RouterInv`, `GuardInv`; `RecoveryInv`, `KnownInv`, `CkptInv`, `BackupInv`, `SchedulerInv`,
`MemoryInv`, `MigrationInv` (of versions and evolution), `PlanInv`, `DbInv`, `GitInv`; `RecInv`,
`RepairInv`, `ImmuneInv`, `ThermalInv`, `MetabolismInv`, `ImprovementInv`, `ModificationInv`,
`CompactionInv`, `ConstraintInv`). `PartsMove` says that a step of the sum is a step or a
stutter of every part, so each part is proved by itself and `PartsKeepInvariants` is their
conjunction. What the arguments turn on:

* Bus: what a publish still owes is a suffix of the subscriptions it began with; a change of the
  dictionary under it ends it. Fan-out: sets of sockets keep to one session for ever, whether
  they are still registered or not.
* Agents: a batch starts a step only when what it needs is completed, and a task added anew
  counts as undone.
* Loop guard: the phase is the count of equal calls in the window, of which the window knows the
  last.
* Maintenance of the skills (`MaintenanceForgetsNothing`): a duplicate of a group is in no later
  group, so a primary is still there when its turn comes; a group has a primary because use and
  position order the skills strictly. Each rewriting of the table keeps its keys or drops keys
  whose topics went elsewhere, and such rewritings compose.
* Recovery of sessions: restarts are counted by events in the log, so a death forgets none.
  Memory: `split` collects exactly what a failed write, a decay or a reload sets apart, a reload
  that failed included. Checkpoints: the file begun last is the newest, cut or whole, and a
  clean-up spares it. Dumps: a round records a success after the file is there. Tables: the copy
  exists before the original goes, and a row that goes with another is owed no longer.
* Migrations: a run is a fold over the versions it comes to (`MigrationRuns` is what each step
  of it keeps): the record and the changes of a version part only in a step that joins it to
  `parted`. The log: a statement comes before its row, so a row is never of something that is
  not there, unless raw SQL dropped it.
* Schema plans: a statement settles its table, but for a change of type, an index on a column
  that the same plan adds, and an index SQLite makes of a key or a UNIQUE column; none of the
  latter was there before a plan that went through, since it would have had to be dropped, so
  all that is left is in the tables it made.
* Automatic recovery: a restart is counted before it is awaited, and every object that is
  "recovering" is in the hands of a check or was cut off: `restarted` plus the checks that are
  deciding never exceed the counted restarts.
* Immune system: a critical threat weighs at least six tenths whatever else is found, which
  makes the health critical and the answer come in the same check.
* Heat: a cycle that has measured a hot GPU leaves the integral at -10 or above, so that what a
  cold time has gathered cannot outweigh the error of the next one (`pid.error >= 4 =>
  pid.integral >= -10`), as long as cycles are an interval apart (`paced`); at six degrees the
  error outweighs integral and derivative together.
* Self improvement: the total is the sum over the models, which one session raises by one; the
  experience is the last of the writes, so whatever was interrupted, it is not ahead of the count.
* Compaction: the last run of a role is a group, so the summaries reach the cut; what is kept
  begins there. A compression that raises returns nothing, which the property allows and
  `WhatMattersIsCompressed` does not.

Only model-checked: liveness (`RequestsEnd`, `ReturnsToPrimary`, both `PromptsEnd`), since its
proofs need ENABLED, which the prover does not treat.

## 6. What is not modelled

Retrieval, planners and the prompting agents, MCP's protocol, providers, voice, plugins,
telemetry, protocol envelopes and the frontends are text processing, I/O or user interface:
their verdicts and answers are inputs of the modules here (a threat, a click, an answer of the
model). Telegram and email bring clicks and prompts from outside, as `ToolGate` and
`SessionLifecycle` take them from anybody. `gitops.py` and `recovery.py` are shadowed by the
packages of the same name and cannot be imported. `PROJECT.json` lists each with its reason.

Left out of what is modelled:

* payloads, texts and wording; what is similar, dangerous or relevant is an input or a small set;
* of the agent loop: the conversation and what only edits it, the chunks of a turn, token counts
  (which the SDK never gives to the monitor);
* of `Thermal`: the sensors; the clock is computed and kept but never applied to the GPU, and
  the hook that should hold tools back is a coroutine nobody awaits (`runtime/hooks.py:253`);
* of `ToolRouter`: the recovery strategies, which only log, and the fallback tools, which no
  call uses;
* of `Metabolism`: the CPU, which always reads 0.0;
* operations that only read, exports and reports, HTTP routes.

All of it is one event loop: threads of `asyncio.to_thread` and other processes on the same
files are steps of their own only where a module says so (a person in the work tree, another
writer of the database, whoever edits a file).
