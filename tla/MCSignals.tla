------------------------------- MODULE MCSignals --------------------------------
(***************************************************************************)
(* The parts that carry signals and work: the event bus, the fan-out to    *)
(* websockets, the event log, the gateway's two ends, the hooks, the       *)
(* agents, the skills, the tool router and the tool-call guard.  They      *)
(* share no state, so one run takes their sum: the first state names the   *)
(* part that moves, and the others stay as they begin.                     *)
(***************************************************************************)
EXTENDS EventBus, WSFanout, EventStore, GatewayProxy, GatewayAdapter, Hooks,
        MultiAgent, Skills, ToolRouter, LoopGuard

VARIABLE part

MCMatching == {<<"tool.*", "tool.x">>, <<"tool.x", "tool.x">>}
MCAgents == <<"file", "browser">>
MCSuited == [a \in {"file", "browser"} |-> IF a = "file" THEN {"j1"} ELSE {"j1", "j2"}]
MCSubjects == {{1, 2}, {1, 2, 3}}
MCListing == [s \in Servers |-> <<"terminal", "execute_code">>]

Init ==
    /\ part \in {"bus", "fanout", "log", "proxy", "adapter", "hooks", "agents", "skills",
                 "router", "guard"}
    /\ BusInit /\ FanInit /\ LogInit /\ ProxyInit /\ AdapterInit /\ HooksInit
    /\ MultiAgentInit /\ SkillInit /\ RouterInit /\ GuardInit
    /\ part = "log" \/ rows = <<>>

signalsVars == <<part, busVars, fanVars, logVars, proxyVars, adapterVars, hookVars, agentVars,
                 skillVars, routerVars, guardVars>>

BusPart ==
    /\ part = "bus" /\ BusNext
    /\ UNCHANGED <<part, fanVars, logVars, proxyVars, adapterVars, hookVars, agentVars,
                   skillVars, routerVars, guardVars>>

FanPart ==
    /\ part = "fanout" /\ FanNext
    /\ UNCHANGED <<part, busVars, logVars, proxyVars, adapterVars, hookVars, agentVars,
                   skillVars, routerVars, guardVars>>

LogPart ==
    /\ part = "log" /\ LogNext
    /\ UNCHANGED <<part, busVars, fanVars, proxyVars, adapterVars, hookVars, agentVars,
                   skillVars, routerVars, guardVars>>

ProxyPart ==
    /\ part = "proxy" /\ ProxyNext
    /\ UNCHANGED <<part, busVars, fanVars, logVars, adapterVars, hookVars, agentVars,
                   skillVars, routerVars, guardVars>>

AdapterPart ==
    /\ part = "adapter" /\ AdapterNext
    /\ UNCHANGED <<part, busVars, fanVars, logVars, proxyVars, hookVars, agentVars, skillVars,
                   routerVars, guardVars>>

HooksPart ==
    /\ part = "hooks" /\ HooksNext
    /\ UNCHANGED <<part, busVars, fanVars, logVars, proxyVars, adapterVars, agentVars,
                   skillVars, routerVars, guardVars>>

MultiAgentPart ==
    /\ part = "agents" /\ MultiAgentNext
    /\ UNCHANGED <<part, busVars, fanVars, logVars, proxyVars, adapterVars, hookVars,
                   skillVars, routerVars, guardVars>>

SkillPart ==
    /\ part = "skills" /\ SkillNext
    /\ UNCHANGED <<part, busVars, fanVars, logVars, proxyVars, adapterVars, hookVars,
                   agentVars, routerVars, guardVars>>

RouterPart ==
    /\ part = "router" /\ RouterNext
    /\ UNCHANGED <<part, busVars, fanVars, logVars, proxyVars, adapterVars, hookVars,
                   agentVars, skillVars, guardVars>>

GuardPart ==
    /\ part = "guard" /\ GuardNext
    /\ UNCHANGED <<part, busVars, fanVars, logVars, proxyVars, adapterVars, hookVars,
                   agentVars, skillVars, routerVars>>

Next == BusPart \/ FanPart \/ LogPart \/ ProxyPart \/ AdapterPart \/ HooksPart \/
        MultiAgentPart \/ SkillPart \/ RouterPart \/ GuardPart

Spec == Init /\ [][Next]_signalsVars

-----------------------------------------------------------------------------
\* Every part keeps its types and bounds.
SignalsTypeOK ==
    CASE part = "bus" -> BusTypeOK
      [] part = "fanout" -> FanTypeOK
      [] part = "log" -> LogTypeOK
      [] part = "proxy" -> ProxyTypeOK
      [] part = "adapter" -> AdapterTypeOK
      [] part = "hooks" -> HooksTypeOK
      [] part = "agents" -> MultiAgentTypeOK
      [] part = "skills" -> SkillTypeOK
      [] part = "router" -> RouterTypeOK
      [] part = "guard" -> GuardTypeOK

\* What is sent arrives.  An event of the bus is handed to each subscription that stays
\* (NobodyMissed); no broadcast sends from a set of sockets the manager has given up
\* (SetsLiveWithSessions); a client that pages through the log gets every event once and
\* in order (PagingMissesNothing); the adapter's readers read the connection of their session
\* or one that closed, and a prompt that was accepted without a reader got one
\* (AcceptedAreRead); what the proxy sends between two completions is of one
\* message (TurnsAreMessages); a fire runs all its handlers by priority, or stops where
\* one says so (FiresAreComplete).
SignalsArrive ==
    CASE part = "bus" -> NobodyMissed
      [] part = "fanout" -> SetsLiveWithSessions
      [] part = "log" -> PagingMissesNothing
      [] part = "proxy" -> TurnsAreMessages
      [] part = "adapter" -> AcceptedAreRead
      [] part = "hooks" -> FiresAreComplete
      [] OTHER -> TRUE

\* Work is done as it was ordered.  A step of the hierarchy is completed after those it
\* depends on (DependenciesFirst), a task by an agent that can do it (WorkIsSuited); the guard's phase says
\* how often the last call is among the last ones recorded (PhaseIsHonest).
WorkIsOrderly ==
    CASE part = "agents" -> DependenciesFirst /\ WorkIsSuited
      [] part = "guard" -> PhaseIsHonest
      [] OTHER -> TRUE

\* The ledgers are true.  The counts the router trusts a tool by add up between any two
\* attempts (CountsAddUp), and skills and their files are the same ones, but for those a
\* process died between (FilesFollowSkills).
LedgersAreTrue ==
    CASE part = "router" -> CountsAddUp
      [] part = "skills" -> FilesFollowSkills
      [] OTHER -> TRUE
================================================================================
