---------------------------- MODULE AutoRecovery ----------------------------
(***************************************************************************)
(* recovery/auto_recovery.py: AutoRecovery.  check_health walks the        *)
(* services, and recovers one that is down before it comes to the next: it *)
(* counts the restart, sleeps, and awaits the restart strategy.  The       *)
(* monitor loop and callers check at the same time.  A service that is     *)
(* registered again gets a new ServiceHealth object; who holds the old one *)
(* goes on writing to it.                                                  *)
(***************************************************************************)
EXTENDS Naturals, Sequences, FiniteSets, Selection

CONSTANTS
    Services,      \* names of services
    Callers,       \* tasks that call check_health themselves
    Monitor,       \* the monitor task
    max_restarts,  \* as in the code
    MaxObjects     \* bound: registrations of a service

ASSUME RecAssumption ==
    /\ max_restarts \in Nat /\ MaxObjects \in Nat
    /\ Monitor \notin Callers /\ IsFiniteSet(Callers)

VARIABLES
    order,      \* keys of _services, in order of registration
    health,     \* per service: its ServiceHealth objects, the current one last
    strategy,   \* services with a strategy of their own
    default,    \* a default strategy other than NoopRestartStrategy is set
    running,    \* _running
    checks,     \* the checks in progress
    restarted,  \* history: per object, calls of a strategy's restart
    cut         \* history: objects whose recovery was cancelled

recVars == <<order, health, strategy, default, running, checks, restarted, cut>>

CheckTasks == Callers \union {Monitor}
Objects == Services \X (1..MaxObjects)
Current(s) == Len(health[s])

\* pc    off, next (at the iterator), delay (before the restart), restart
\*       (awaits the strategy), sleep (the monitor, between two checks)
\* todo  services to come to; size: of the dictionary when the iteration began
\* at    the object that is recovered; real: its strategy does something
Off == [pc |-> "off", todo |-> <<>>, size |-> 0, at |-> {}, real |-> FALSE]

RecInit ==
    /\ order = <<>> /\ health = [s \in Services |-> <<>>]
    /\ strategy = {} /\ default = FALSE
    /\ running = FALSE
    /\ checks = [t \in CheckTasks |-> Off]
    /\ restarted = [o \in Objects |-> 0] /\ cut = {}

\* Registered again without a strategy, a service keeps the one it had.
RegisterService(s, own) ==
    /\ Current(s) < MaxObjects
    /\ order' = IF s \in Range(order) THEN order ELSE Append(order, s)
    /\ health' = [health EXCEPT ![s] = Append(@, [status |-> "unknown", restarts |-> 0])]
    /\ strategy' = IF own THEN strategy \union {s} ELSE strategy
    /\ UNCHANGED <<default, running, checks, restarted, cut>>

SetDefaultRestartStrategy ==
    /\ default' = TRUE
    /\ UNCHANGED <<order, health, strategy, running, checks, restarted, cut>>

Begun(names) == [Off EXCEPT !.pc = "next", !.size = Len(order),
                            !.todo = Only(order, names)]

\* Of all services, or of one.
CheckHealth(t, names) ==
    /\ t \in Callers /\ checks[t].pc = "off"
    /\ checks' = [checks EXCEPT ![t] = Begun(names)]
    /\ UNCHANGED <<order, health, strategy, default, running, restarted, cut>>

SetStatus(o, status) == health' = [health EXCEPT ![o[1]][o[2]].status = status]

\* Mutant: the restart is counted when it is done, not when it is decided.
CountRestartLate(o) == SetStatus(o, "recovering")

CountRestart(o) ==
    health' = [health EXCEPT ![o[1]][o[2]] = [status |-> "recovering", restarts |-> @.restarts + 1]]

\* One service: up, down for good, or down and to be restarted.  A probe that raises (no
\* socket is left) is a service that failed, and nothing is restarted.
CheckNext(t) ==
    LET s == Head(checks[t].todo)
        o == <<s, Current(s)>>
        moved == [checks EXCEPT ![t].todo = Tail(@)]
    IN
    /\ checks[t].pc = "next" /\ checks[t].size = Len(order) /\ checks[t].todo # <<>>
    /\ \/ \E found \in {"healthy", "failed"} : SetStatus(o, found) /\ checks' = moved
       \/ /\ health[s][Current(s)].restarts < max_restarts
          /\ CountRestart(o)
          /\ checks' = [moved EXCEPT ![t].pc = "delay", ![t].at = {o}]
    /\ UNCHANGED <<order, strategy, default, running, restarted, cut>>

\* The check is over, or raises because a service was added under its iterator.
\* The monitor sleeps, after either.
CheckEnds(t) ==
    /\ checks[t].pc = "next" /\ (checks[t].todo = <<>> \/ checks[t].size # Len(order))
    /\ checks' = [checks EXCEPT ![t] = [Off EXCEPT !.pc = IF t = Monitor THEN "sleep" ELSE "off"]]
    /\ UNCHANGED <<order, health, strategy, default, running, restarted, cut>>

DelayOver(t) ==
    /\ checks[t].pc = "delay"
    /\ \E o \in checks[t].at :
           /\ restarted' = [restarted EXCEPT ![o] = @ + 1]
           /\ checks' = [checks EXCEPT ![t].pc = "restart",
                                       ![t].real = o[1] \in strategy \/ default]
    /\ UNCHANGED <<order, health, strategy, default, running, cut>>

\* Mutant: only a success is written back.
OutcomeOnlySuccess(o, ok) == IF ok THEN SetStatus(o, "healthy") ELSE UNCHANGED health

Outcome(o, ok) == SetStatus(o, IF ok THEN "healthy" ELSE "failed")

\* A shell command or a callback returns, times out or raises, and only a zero exit
\* or a true answer is a success; the no-op always fails.
StrategyOutcomes(real) == IF real THEN BOOLEAN ELSE {FALSE}

RestartReturns(t, ok) ==
    /\ checks[t].pc = "restart" /\ ok \in StrategyOutcomes(checks[t].real)
    /\ \E o \in checks[t].at : Outcome(o, ok)
    /\ checks' = [checks EXCEPT ![t].pc = "next", ![t].at = {}, ![t].real = FALSE]
    /\ UNCHANGED <<order, strategy, default, running, restarted, cut>>

StartMonitoring ==
    /\ ~running
    /\ running' = TRUE
    /\ checks' = [checks EXCEPT ![Monitor] = Begun(Services)]
    /\ UNCHANGED <<order, health, strategy, default, restarted, cut>>

\* A cancelled recovery writes nothing back.
StopMonitoring ==
    /\ running
    /\ running' = FALSE
    /\ cut' = cut \union checks[Monitor].at
    /\ checks' = [checks EXCEPT ![Monitor] = Off]
    /\ UNCHANGED <<order, health, strategy, default, restarted>>

MonitorWakes ==
    /\ checks[Monitor].pc = "sleep"
    /\ checks' = [checks EXCEPT ![Monitor] = Begun(Services)]
    /\ UNCHANGED <<order, health, strategy, default, running, restarted, cut>>

RecNext ==
    \/ \E s \in Services, own \in BOOLEAN : RegisterService(s, own)
    \/ SetDefaultRestartStrategy
    \/ \E t \in Callers, s \in Services : CheckHealth(t, Services) \/ CheckHealth(t, {s})
    \/ \E t \in CheckTasks : CheckNext(t) \/ CheckEnds(t) \/ DelayOver(t)
    \/ \E t \in CheckTasks, ok \in BOOLEAN : RestartReturns(t, ok)
    \/ StartMonitoring \/ StopMonitoring \/ MonitorWakes

RecSpec == RecInit /\ [][RecNext]_recVars

-----------------------------------------------------------------------------

RecTypeOK ==
    /\ order \in Seq(Services) /\ IsInjective(order)
    /\ health \in [Services -> Seq([status : {"unknown", "healthy", "failed", "recovering"},
                                    restarts : 0..max_restarts])]
    /\ strategy \subseteq Services /\ default \in BOOLEAN /\ running \in BOOLEAN
    /\ checks \in [CheckTasks -> [pc : {"off", "next", "delay", "restart", "sleep"},
                                  todo : Seq(Services), size : Nat,
                                  at : SUBSET Objects, real : BOOLEAN]]
    /\ restarted \in [Objects -> Nat] /\ cut \subseteq Objects

\* However checks overlap, a service is restarted at most max_restarts times after
\* its registration: the count is read and raised before the delay.
RestartsBounded == \A o \in Objects : restarted[o] <= max_restarts

\* A service says "recovering" only while a check recovers it, or when the monitor
\* was stopped in the middle of it: no end of a restart leaves it behind.
RecoveringIsTrue ==
    \A s \in Services, i \in 1..MaxObjects :
        i <= Current(s) /\ health[s][i].status = "recovering" =>
            <<s, i>> \in cut \union UNION {checks[t].at : t \in CheckTasks}
=============================================================================
