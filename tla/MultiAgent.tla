----------------------------- MODULE MultiAgent -----------------------------
(***************************************************************************)
(* runtime/multi_agent_orchestrator.py: tasks that are assigned to agents  *)
(* by what the agents can do, and runtime/hierarchical_agent.py: tasks of  *)
(* roles, run in batches, with dependencies.  What a tool or a role        *)
(* produces is left out; whether it succeeds is any choice.                *)
(***************************************************************************)
EXTENDS Integers, Sequences, SequencesExt, FiniteSets, Functions, Selection

CONSTANTS
    Jobs,             \* task ids of the orchestrator
    Agents,           \* its agents, in the order of the dictionary
    Suited,           \* per agent, the jobs whose description mentions a capability of it
    Helpless,         \* agents whose dispatch is always an error (the browser agent)
    max_agents,       \* max_concurrent_agents, of both
    NoAgent,
    Steps,            \* task ids of the hierarchical agent
    MaxRuns           \* bound: executions the hierarchical agent keeps in its lists

ASSUME MultiAgentAssumption ==
    /\ Agents \in Seq(Range(Agents)) /\ NoAgent \notin Range(Agents)
    /\ max_agents \in Nat /\ MaxRuns \in Nat
    /\ Suited \in [Range(Agents) -> SUBSET Jobs]

VARIABLES
    jobs,       \* tasks of the orchestrator: status, assigned agent and dependencies
    busy,       \* agents with status RUNNING, and their current_task
    steps,      \* AgentTasks: status and dependencies
    completed,  \* _completed_tasks
    undone      \* history: completed tasks that were added once more since

agentVars == <<jobs, busy, steps, completed, undone>>
orchestrated == <<jobs, busy>>
hierarchy == <<steps, completed, undone>>

NoJob == "no job"
Unborn == [status |-> "none", agent |-> NoAgent, needs |-> {}]

MultiAgentInit ==
    /\ jobs = [j \in Jobs |-> Unborn]
    /\ busy = [a \in Range(Agents) |-> NoJob]
    /\ steps = [t \in {} |-> 0]
    /\ completed = <<>>
    /\ undone = {}

\* The dependencies are kept with the task; assign_task and execute_task do not look at them.
CreateTask(j, dependencies) ==
    /\ jobs[j] = Unborn
    /\ jobs' = [jobs EXCEPT ![j] = [status |-> "pending", agent |-> NoAgent, needs |-> dependencies]]
    /\ UNCHANGED <<busy, hierarchy>>

\* Mutant: whoever is asked takes the task.
AcceptsAll(j, a) == TRUE

\* assign_task takes no notice of what the agent, or the task, is doing.
Accepts(j, a) == j \in Suited[a]

Assigned(now, j, a) ==
    IF now.jobs[j] # Unborn /\ Accepts(j, a)
    THEN [jobs |-> [now.jobs EXCEPT ![j].status = "running", ![j].agent = a],
          busy |-> [now.busy EXCEPT ![a] = j]]
    ELSE now

Now == [jobs |-> jobs, busy |-> busy]
Becomes(next) == jobs' = next.jobs /\ busy' = next.busy /\ UNCHANGED hierarchy

AssignTask(j, a) == Assigned(Now, j, a) # Now /\ Becomes(Assigned(Now, j, a))

\* execute_task: a task without an agent fails and stays what it was; with one it is run,
\* finished or not, and its agent is free, whatever it was working on.
Executed(now, j, ok) ==
    LET a == now.jobs[j].agent IN
    IF now.jobs[j] = Unborn \/ a = NoAgent THEN now
    ELSE [jobs |-> [now.jobs EXCEPT ![j].status = IF ok /\ a \notin Helpless THEN "completed" ELSE "failed"],
          busy |-> [now.busy EXCEPT ![a] = NoJob]]

ExecuteTask(j, ok) == Becomes(Executed(Now, j, ok)) /\ Executed(Now, j, ok) # Now

\* execute_parallel: the idle agents are handed the tasks by their place in the two lists,
\* then the tasks are run, one after the other.
Handed(now, pair) == Assigned(now, pair[1], pair[2])
Worked(now, pair) == Executed(now, pair[1], pair[2])
ExecuteParallel(list, oks) ==
    LET idle == Only(Agents, {a \in Range(Agents) : busy[a] = NoJob})
        pairs == Min({Len(list), Len(idle), max_agents})
        handed == FoldLeft(Handed, Now, [i \in 1..pairs |-> <<list[i], idle[i]>>])
    IN  Becomes(FoldLeft(Worked, handed, [i \in 1..Len(list) |-> <<list[i], i \in oks>>]))

(***************************************************************************)
(* HierarchicalAgent                                                       *)
(***************************************************************************)

\* add_task replaces a task of the same id.
AddTask(t, dependencies) ==
    /\ t \notin dependencies
    /\ steps' = [u \in DOMAIN steps \union {t} |->
                    IF u = t THEN [status |-> "pending", needs |-> dependencies] ELSE steps[u]]
    /\ undone' = IF t \in Range(completed) THEN undone \union {t} ELSE undone
    /\ UNCHANGED <<completed, orchestrated>>

\* Mutant: dependencies are kept and not looked at, as those of the orchestrator.
NotLookedAt(needs, done) == TRUE

DependenciesMet(needs, done) == needs \subseteq Range(done)

\* execute_task: a role's work raises nothing, and awaits nothing.
StepRun(now, t) ==
    IF t \in DOMAIN now.steps /\ DependenciesMet(now.steps[t].needs, now.completed)
    THEN [steps |-> [now.steps EXCEPT ![t].status = "completed"], completed |-> Append(now.completed, t)]
    ELSE now

\* execute_batch: the first max_concurrent_agents of the list, gathered; each runs to its
\* end before the next begins, and those beyond are not run.
ExecuteBatch(list) ==
    LET gathered == SubSeq(list, 1, IF Len(list) < max_agents THEN Len(list) ELSE max_agents)
        next == FoldLeft(StepRun, [steps |-> steps, completed |-> completed], gathered)
    IN
    /\ next.completed # completed /\ Len(next.completed) <= MaxRuns
    /\ steps' = next.steps /\ completed' = next.completed
    /\ UNCHANGED <<undone, orchestrated>>

Created == {j \in Jobs : jobs[j] # Unborn}
Lists(set) == UNION {[1..n -> set] : n \in 1..(max_agents + 1)}

MultiAgentNext ==
    \/ \E j \in Jobs : (\E dependencies \in SUBSET Created : CreateTask(j, dependencies))
                       \/ (\E a \in Range(Agents) : AssignTask(j, a))
                       \/ (\E ok \in BOOLEAN : ExecuteTask(j, ok))
    \/ \E list \in Lists(Created) :
          \E oks \in SUBSET DOMAIN list : ExecuteParallel(list, oks)
    \/ \E t \in Steps, dependencies \in SUBSET Steps : AddTask(t, dependencies)
    \/ \E list \in Lists(DOMAIN steps) : ExecuteBatch(list)

MultiAgentSpec == MultiAgentInit /\ [][MultiAgentNext]_agentVars

-----------------------------------------------------------------------------
MultiAgentTypeOK ==
    /\ \A j \in Jobs : /\ jobs[j].status \in {"none", "pending", "running", "completed", "failed"}
                       /\ jobs[j].agent \in Range(Agents) \union {NoAgent}
                       /\ jobs[j].needs \subseteq Jobs
    /\ busy \in [Range(Agents) -> Jobs \union {NoJob}]
    /\ DOMAIN steps \subseteq Steps /\ Len(completed) <= MaxRuns

\* A task of the hierarchy was completed after all it depends on, also within one batch,
\* where the tasks are gathered: unless it was added anew since.
DependenciesFirst ==
    \A i \in DOMAIN completed :
        completed[i] \in undone \/ steps[completed[i]].needs \subseteq {completed[k] : k \in 1..(i - 1)}

\* multi_agent_orchestrator.py:155: "List of task IDs that must complete first."  A task of the
\* orchestrator is completed after those it depends on.
CreatedWait ==
    [][\A j \in Jobs : jobs'[j].status = "completed" /\ jobs[j].status # "completed" =>
          \A d \in jobs[j].needs : jobs'[d].status = "completed"]_agentVars

\* No agent finishes work it cannot do, however tasks are assigned, reassigned and run in
\* lists that name them twice.
WorkIsSuited ==
    \A j \in Jobs : jobs[j].status = "completed" =>
        j \in Suited[jobs[j].agent] /\ jobs[j].agent \notin Helpless
=============================================================================
